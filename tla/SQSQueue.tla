------------------------------ MODULE SQSQueue ------------------------------
(***************************************************************************)
(* The SQS queues of one account: internal/store/sqs.go over the tables    *)
(* sqs_queues and sqs_messages.  Clients are API request goroutines.       *)
(* SendMessage, ReceiveMessages, DeleteMessage and ChangeMessageVisibility *)
(* serialise on Store.sqsMu; CreateQueue, DeleteQueue, SetQueueAttributes  *)
(* and PurgeQueue do not take it, so their statements interleave with an   *)
(* operation that holds it.  One SQLite transaction is one step.           *)
(*                                                                         *)
(* A receipt handle is a fresh UUID written together with receive_count+1, *)
(* so the handles of a message are numbered by its receive counts and 0 is *)
(* SQL NULL.  Times are whole seconds (RFC 3339); 0 is the empty           *)
(* visible_after.                                                          *)
(***************************************************************************)
EXTENDS Integers, FiniteSets

CONSTANTS
    Clients,            \* concurrent API requests
    Queues,             \* queue names
    FifoQueues,         \* the names that end in ".fifo"
    Attributes,         \* [Queues -> set of attribute records CreateQueue may store]
    Updates,            \* [Queues -> set of updates SetQueueAttributes may carry]
    Requests,           \* the SendMessage requests of the instance
    Visibilities,       \* timeouts ChangeMessageVisibility may ask for
    MaxReceive,         \* the largest MaxNumberOfMessages a receiver asks for
    DedupWindow,        \* FIFODedupWindow, in seconds
    MaxDelay,           \* maxDelaySeconds
    NoQueue,            \* no row of that name in sqs_queues
    NoRedrive,          \* no RedrivePolicy attribute
    NoGroup, NoDedup,   \* the empty MessageGroupId / MessageDeduplicationId
    RedrivenGroup,      \* the group "redriven"
    MaxTime,            \* bound on the clock
    MaxSends,           \* bound on the number of sends started
    MaxReceiveCount     \* bound on the receive count of a message

VARIABLES
    queues,     \* sqs_queues: [Queues -> attribute record or NoQueue]
    messages,   \* sqs_messages: a set of rows
    clock,      \* the wall clock, in seconds
    lastId,     \* message ids handed out so far (UUIDs)
    op,         \* [Clients -> the operation the client has in progress]
    accepted,   \* history: [origin, at] of every accepted send
    removed,    \* history: origins removed by a delete, a purge or a queue deletion
    leases      \* history: the receipt handles clients hold

vars == <<queues, messages, clock, lastId, op, accepted, removed, leases>>

AttributeNames == {"visibilityTimeout", "delaySeconds", "contentDedup", "redrive", "allow"}

RedrivePolicies == [target : Queues, max : Nat \ {0}] \cup {NoRedrive}

AttributeRecords ==
    [visibilityTimeout : Nat, delaySeconds : Nat, contentDedup : BOOLEAN,
     redrive : RedrivePolicies, allow : SUBSET Queues]

ASSUME QueueAssumption ==
    /\ FifoQueues \subseteq Queues
    /\ \A q \in Queues : /\ Attributes[q] \subseteq AttributeRecords
                         /\ \A u \in Updates[q] : /\ u.names \subseteq AttributeNames
                                                  /\ u.values \in AttributeRecords
    /\ \A r \in Requests : r.queue \in Queues /\ r.delay \in Nat
    /\ Visibilities \subseteq Nat
    /\ MaxReceive \in Nat \ {0} /\ DedupWindow \in Nat /\ MaxDelay \in Nat
    /\ MaxTime \in Nat /\ MaxSends \in Nat /\ MaxReceiveCount \in Nat
    /\ NoQueue \notin AttributeRecords /\ RedrivenGroup # NoGroup

Idle == [kind |-> "idle"]

\* sqsMu is held exactly while an operation is past its Lock and not returned.
LockFree == \A c \in Clients : op[c].kind \notin {"sending", "receiving"}

Finish(c) == op' = [op EXCEPT ![c] = Idle]

-----------------------------------------------------------------------------
\* Queue administration.

Merge(attrs, u) ==
    LET Pick(n) == IF n \in u.names THEN u.values[n] ELSE attrs[n]
    IN  [visibilityTimeout |-> Pick("visibilityTimeout"),
         delaySeconds      |-> Pick("delaySeconds"),
         contentDedup      |-> Pick("contentDedup"),
         redrive           |-> Pick("redrive"),
         allow             |-> Pick("allow")]

CreateQueue(c, q) ==
    /\ op[c] = Idle
    /\ queues[q] = NoQueue
    /\ \E a \in Attributes[q] : queues' = [queues EXCEPT ![q] = a]
    /\ UNCHANGED <<messages, clock, lastId, op, accepted, removed, leases>>

\* SetQueueAttributes reads the row, merges in memory, then writes the whole column.
SetQueueAttributesRead(c, q) ==
    /\ op[c] = Idle
    /\ queues[q] # NoQueue
    /\ \E u \in Updates[q] :
         op' = [op EXCEPT ![c] = [kind |-> "setting", queue |-> q, names |-> u.names,
                                  attrs |-> Merge(queues[q], u)]]
    /\ UNCHANGED <<queues, messages, clock, lastId, accepted, removed, leases>>

SetQueueAttributesWrite(c) ==
    /\ op[c].kind = "setting"
    /\ LET q == op[c].queue
       IN  queues' = IF queues[q] = NoQueue THEN queues
                     ELSE [queues EXCEPT ![q] = op[c].attrs]
    /\ Finish(c)
    /\ UNCHANGED <<messages, clock, lastId, accepted, removed, leases>>

\* DeleteQueue and PurgeQueue look the queue up first, then run their statements.
DropBegin(c, q, kind) ==
    /\ op[c] = Idle
    /\ queues[q] # NoQueue
    /\ op' = [op EXCEPT ![c] = [kind |-> kind, queue |-> q]]
    /\ UNCHANGED <<queues, messages, clock, lastId, accepted, removed, leases>>

RowsOf(q) == {m \in messages : m.queue = q}

DeleteAllMessages(q) ==
    /\ messages' = messages \ RowsOf(q)
    /\ removed' = removed \cup {m.origin : m \in RowsOf(q)}

DeleteQueue(c) ==
    /\ op[c].kind = "deletingQueue"
    /\ DeleteAllMessages(op[c].queue)
    /\ queues' = [queues EXCEPT ![op[c].queue] = NoQueue]
    /\ Finish(c)
    /\ UNCHANGED <<clock, lastId, accepted, leases>>

PurgeQueue(c) ==
    /\ op[c].kind = "purging"
    /\ DeleteAllMessages(op[c].queue)
    /\ Finish(c)
    /\ UNCHANGED <<queues, clock, lastId, accepted, leases>>

-----------------------------------------------------------------------------
\* SendMessage.

DedupOf(attrs, r) == IF attrs.contentDedup THEN r.body ELSE r.dedup

\* prepareSendFIFOFields succeeds.
FieldsPresent(attrs, r) ==
    r.queue \in FifoQueues => r.group # NoGroup /\ DedupOf(attrs, r) # NoDedup

Capped(n) == IF n > MaxDelay THEN MaxDelay ELSE n

VisibleAfter(attrs, r) ==
    LET d == Capped(IF r.delay > 0 THEN r.delay ELSE attrs.delaySeconds)
    IN  IF d = 0 THEN 0 ELSE clock + d

\* The work before sqsMu: queue snapshot, FIFO fields, created_at, visible_after.
SendSnapshot(c, r) ==
    /\ op[c] = Idle
    /\ lastId < MaxSends
    /\ queues[r.queue] # NoQueue
    /\ FieldsPresent(queues[r.queue], r)
    /\ op' = [op EXCEPT ![c] =
                [kind |-> "snapshot", request |-> r, created |-> clock,
                 contentDedup |-> queues[r.queue].contentDedup,
                 dedup |-> DedupOf(queues[r.queue], r),
                 visibleAfter |-> VisibleAfter(queues[r.queue], r)]]
    /\ UNCHANGED <<queues, messages, clock, lastId, accepted, removed, leases>>

\* Takes sqsMu and loads the queue again: it may be gone, or its
\* content-based-deduplication switch flipped, which re-derives the fields.
SendLock(c) ==
    /\ op[c].kind = "snapshot"
    /\ LockFree
    /\ LET r     == op[c].request
           attrs == queues[r.queue]
           again == r.queue \in FifoQueues /\ attrs.contentDedup # op[c].contentDedup
       IN  IF attrs = NoQueue \/ (again /\ ~FieldsPresent(attrs, r))
           THEN Finish(c)
           ELSE op' = [op EXCEPT ![c] =
                         [op[c] EXCEPT
                            !.kind = "sending",
                            !.dedup = IF again THEN DedupOf(attrs, r) ELSE op[c].dedup,
                            !.visibleAfter = IF again THEN VisibleAfter(attrs, r)
                                             ELSE op[c].visibleAfter]]
    /\ UNCHANGED <<queues, messages, clock, lastId, accepted, removed, leases>>

\* Mutant: the first second of the window is left out.
DuplicateOffByOne(q, dedup) ==
    \E m \in messages : m.queue = q /\ m.dedup = dedup /\ m.created > clock - DedupWindow

\* findDedupMessageTx: a live row of the same deduplication id in the window.
Duplicate(q, dedup) ==
    \E m \in messages : /\ m.queue = q
                        /\ m.dedup = dedup
                        /\ m.created >= clock - DedupWindow

MaxOf(S) == IF S = {} THEN 0 ELSE CHOOSE n \in S : \A k \in S : k <= n

\* Mutant: the maximum over the messages that are not in flight.
NextSequenceVisible(q, g) ==
    1 + MaxOf({m.seq : m \in {n \in messages : n.queue = q /\ n.group = g /\ n.handle = 0}})

\* nextSequenceNumberTx: one above the largest LIVE sequence number of the group.
NextSequence(q, g) == 1 + MaxOf({m.seq : m \in {n \in messages : n.queue = q /\ n.group = g}})

\* The row a send inserts.
SentRow(c) ==
    LET r    == op[c].request
        fifo == r.queue \in FifoQueues
    IN  [id |-> lastId + 1, origin |-> lastId + 1, queue |-> r.queue,
         group |-> IF fifo THEN r.group ELSE NoGroup,
         dedup |-> IF fifo THEN op[c].dedup ELSE NoDedup,
         seq   |-> IF fifo THEN NextSequence(r.queue, r.group) ELSE 0,
         created |-> op[c].created, visibleAfter |-> op[c].visibleAfter,
         handle |-> 0, receiveCount |-> 0]

\* The transaction of a FIFO send, the single INSERT of a standard one, and the
\* release of sqsMu.  Neither looks at sqs_queues.
SendInsert(c) ==
    /\ op[c].kind = "sending"
    /\ LET q == op[c].request.queue
       IN  IF q \in FifoQueues /\ Duplicate(q, op[c].dedup)
           THEN UNCHANGED <<messages, lastId, accepted>>
           ELSE /\ lastId' = lastId + 1
                /\ messages' = messages \cup {SentRow(c)}
                /\ accepted' = accepted \cup {[origin |-> lastId + 1, at |-> clock]}
    /\ Finish(c)
    /\ UNCHANGED <<queues, clock, removed, leases>>

-----------------------------------------------------------------------------
\* ReceiveMessages.

\* Takes sqsMu, loads the queue and reads the clock.
ReceiveLock(c, q) ==
    /\ op[c] = Idle
    /\ LockFree
    /\ queues[q] # NoQueue
    /\ \A m \in RowsOf(q) : m.receiveCount < MaxReceiveCount
    /\ \E n \in 1..MaxReceive :
         op' = [op EXCEPT ![c] = [kind |-> "receiving", queue |-> q, attrs |-> queues[q],
                                  now |-> clock, max |-> n]]
    /\ UNCHANGED <<queues, messages, clock, lastId, accepted, removed, leases>>

\* Mutant: no condition on visible_after.
VisibleAlways(q, now) == RowsOf(q)

Visible(q, now) == {m \in RowsOf(q) : m.visibleAfter <= now}

\* Mutant: a message in flight does not block its group.
BlockedGroupsNone(q, now) == {}

\* fifoBlockedGroupsTx.
BlockedGroups(q, now) ==
    {m.group : m \in {n \in RowsOf(q) : n.handle # 0 /\ n.visibleAfter > now}}

\* Mutant: no seenGroups.
HeadsAll(q, now) == {m \in Visible(q, now) : m.group \notin BlockedGroups(q, now)}

\* One message per group that is not blocked: the visible one of least sequence number.
Heads(q, now) ==
    {m \in Visible(q, now) :
        /\ m.group \notin BlockedGroups(q, now)
        /\ \A n \in Visible(q, now) : n.group = m.group => m.seq <= n.seq}

Candidates(q, now) == IF q \in FifoQueues THEN Heads(q, now) ELSE Visible(q, now)

\* ORDER BY sequence_number or created_at; the tie-break is a random UUID.
Before(q, m, n) == IF q \in FifoQueues THEN m.seq < n.seq ELSE m.created < n.created

\* The first max rows of some order the ORDER BY allows.
Selections(q, now, max) ==
    LET All == Candidates(q, now)
    IN  {S \in SUBSET All :
            /\ \/ Cardinality(S) = max
               \/ S = All /\ Cardinality(S) < max
            /\ \A m \in All \ S, n \in S : ~Before(q, m, n)}

\* Mutant: compares the count before this receive.
ExhaustedLate(attrs, m) == attrs.redrive # NoRedrive /\ m.receiveCount > attrs.redrive.max

Exhausted(attrs, m) == attrs.redrive # NoRedrive /\ m.receiveCount + 1 > attrs.redrive.max

\* redriveMessageTx finds the dead-letter queue and its RedriveAllowPolicy allows q.
RedriveAllowed(q, dlq) == queues[dlq] # NoQueue /\ q \in queues[dlq].allow

\* The orders in which the loop meets the exhausted rows.
Orders(q, Dead) ==
    {f \in [Dead -> 1..Cardinality(Dead)] :
        \A m, n \in Dead : /\ f[m] = f[n] => m = n
                           /\ Before(q, m, n) => f[m] < f[n]}

DlqGroup(dlq, m) == IF dlq \in FifoQueues /\ m.group = NoGroup THEN RedrivenGroup ELSE m.group

\* The row inserted in the dead-letter queue for m, the order[m]-th exhausted row.
Redriven(dlq, m, order) ==
    LET g == DlqGroup(dlq, m)
        earlier == {n \in DOMAIN order : DlqGroup(dlq, n) = g /\ order[n] < order[m]}
    IN  [id |-> lastId + order[m], origin |-> m.origin, queue |-> dlq, group |-> g,
         dedup |-> IF dlq \in FifoQueues /\ m.dedup = NoDedup THEN m.id ELSE m.dedup,
         seq |-> IF dlq \in FifoQueues THEN NextSequence(dlq, g) + Cardinality(earlier) ELSE 0,
         created |-> clock, visibleAfter |-> 0, handle |-> 0, receiveCount |-> 0]

\* Mutant: a receive leaves an earlier receipt handle as it is.
ClaimedOldHandle(m, until) ==
    [m EXCEPT !.handle = IF @ = 0 THEN m.receiveCount + 1 ELSE @,
              !.receiveCount = @ + 1, !.visibleAfter = until]

Claimed(m, until) ==
    [m EXCEPT !.handle = m.receiveCount + 1, !.receiveCount = @ + 1, !.visibleAfter = until]

Lease(m, until) == [origin |-> m.origin, id |-> m.id, queue |-> m.queue,
                    handle |-> m.receiveCount + 1, until |-> until]

\* Mutant: redriveMessageTx without its DELETE.
ReplacedClaimedOnly(Live, Dead) == Live

\* The rows the transaction updates or deletes.
Replaced(Live, Dead) == Live \cup Dead

\* The transaction: exhausted rows move to the dead-letter queue, the others are
\* claimed.  One exhausted row that cannot be redriven rolls all of it back.
ReceiveCommit(c) ==
    /\ op[c].kind = "receiving"
    /\ LET q     == op[c].queue
           attrs == op[c].attrs
           until == op[c].now + attrs.visibilityTimeout
       IN  \E S \in Selections(q, op[c].now, op[c].max) :
             LET Dead == {m \in S : Exhausted(attrs, m)}
                 Live == S \ Dead
                 dlq  == attrs.redrive.target
             IN  IF Dead # {} /\ ~RedriveAllowed(q, dlq)
                 THEN UNCHANGED <<messages, lastId, leases>>
                 ELSE \E order \in Orders(q, Dead) :
                        /\ messages' = (messages \ Replaced(Live, Dead))
                                         \cup {Claimed(m, until) : m \in Live}
                                         \cup {Redriven(dlq, m, order) : m \in Dead}
                        /\ lastId' = lastId + Cardinality(Dead)
                        /\ leases' = leases \cup {Lease(m, until) : m \in Live}
    /\ Finish(c)
    /\ UNCHANGED <<queues, clock, accepted, removed>>

-----------------------------------------------------------------------------
\* What a client does with a receipt handle: one statement under sqsMu each.

\* Mutant: the row is found by message, whichever its current handle.
HandleRowsAnyHandle(l) == {m \in messages : m.queue = l.queue /\ m.id = l.id}

\* The rows WHERE queue_name = q AND receipt_handle = the handle of the lease.
HandleRows(l) ==
    {m \in messages : m.queue = l.queue /\ m.id = l.id /\ m.handle = l.handle}

DeleteMessage(c, l) ==
    /\ op[c] = Idle
    /\ LockFree
    /\ queues[l.queue] # NoQueue
    /\ HandleRows(l) # {}
    /\ messages' = messages \ HandleRows(l)
    /\ removed' = removed \cup {m.origin : m \in HandleRows(l)}
    /\ leases' = leases \ {l}
    /\ UNCHANGED <<queues, clock, lastId, op, accepted>>

ChangeMessageVisibility(c, l) ==
    /\ op[c] = Idle
    /\ LockFree
    /\ queues[l.queue] # NoQueue
    /\ HandleRows(l) # {}
    /\ \E v \in Visibilities :
         /\ messages' = (messages \ HandleRows(l))
                          \cup {[m EXCEPT !.visibleAfter = clock + v] : m \in HandleRows(l)}
         /\ leases' = (leases \ {l}) \cup {[l EXCEPT !.until = clock + v]}
    /\ UNCHANGED <<queues, clock, lastId, op, accepted, removed>>

-----------------------------------------------------------------------------
\* A statement that fails (SQLITE_BUSY, I/O) or a process that dies before its
\* commit: deferred Rollback and Unlock leave nothing behind.
Abort(c) ==
    /\ op[c] # Idle
    /\ Finish(c)
    /\ UNCHANGED <<queues, messages, clock, lastId, accepted, removed, leases>>

Tick ==
    /\ clock < MaxTime
    /\ clock' = clock + 1
    /\ UNCHANGED <<queues, messages, lastId, op, accepted, removed, leases>>

Init ==
    /\ queues = [q \in Queues |-> NoQueue]
    /\ messages = {}
    /\ clock = 1
    /\ lastId = 0
    /\ op = [c \in Clients |-> Idle]
    /\ accepted = {}
    /\ removed = {}
    /\ leases = {}

Next ==
    \/ Tick
    \/ \E c \in Clients :
         \/ \E q \in Queues : \/ CreateQueue(c, q)
                              \/ SetQueueAttributesRead(c, q)
                              \/ DropBegin(c, q, "deletingQueue")
                              \/ DropBegin(c, q, "purging")
                              \/ ReceiveLock(c, q)
         \/ \E r \in Requests : SendSnapshot(c, r)
         \/ \E l \in leases : DeleteMessage(c, l) \/ ChangeMessageVisibility(c, l)
         \/ SetQueueAttributesWrite(c)
         \/ DeleteQueue(c)
         \/ PurgeQueue(c)
         \/ SendLock(c)
         \/ SendInsert(c)
         \/ ReceiveCommit(c)
         \/ Abort(c)

Spec == Init /\ [][Next]_vars

-----------------------------------------------------------------------------
\* Properties.

Groups == {r.group : r \in Requests} \cup {NoGroup, RedrivenGroup}

Tokens == {r.dedup : r \in Requests} \cup {r.body : r \in Requests} \cup {NoDedup} \cup Nat

Rows ==
    [id : Nat, origin : Nat, queue : Queues, group : Groups, dedup : Tokens, seq : Nat,
     created : Nat, visibleAfter : Nat, handle : Nat, receiveCount : Nat]

SettingOps == [kind : {"setting"}, queue : Queues, names : SUBSET AttributeNames,
               attrs : AttributeRecords]
DroppingOps == [kind : {"deletingQueue", "purging"}, queue : Queues]
SendingOps == [kind : {"snapshot", "sending"}, request : Requests, created : Nat,
               contentDedup : BOOLEAN, dedup : Tokens, visibleAfter : Nat]
ReceivingOps == [kind : {"receiving"}, queue : Queues, attrs : AttributeRecords, now : Nat,
                 max : 1..MaxReceive]

Operations == {Idle} \cup SettingOps \cup DroppingOps \cup SendingOps \cup ReceivingOps

\* Every variable has the type the tables' columns and the handlers' locals have.
TypeOK ==
    /\ queues \in [Queues -> AttributeRecords \cup {NoQueue}]
    /\ messages \subseteq Rows /\ IsFiniteSet(messages)
    /\ clock \in Nat
    /\ lastId \in Nat
    /\ op \in [Clients -> Operations]
    /\ accepted \subseteq [origin : Nat, at : Nat]
    /\ removed \subseteq Nat
    /\ leases \subseteq [origin : Nat, id : Nat, queue : Queues, handle : Nat, until : Nat]

\* "Concurrent receivers cannot deliver the same message twice" (ReceiveMessages):
\* of all receipt handles ever given out for one sent message, before or after a
\* redrive, at most one is inside its visibility timeout.
ExclusiveDelivery ==
    \A k, l \in leases :
        k.origin = l.origin /\ k.until > clock /\ l.until > clock
          => k.id = l.id /\ k.handle = l.handle

\* An accepted message is in exactly one row of one queue until a client deletes
\* it, purges its queue or deletes its queue, and in none afterwards: the redrive
\* in ReceiveMessages neither drops nor copies it, whatever fails.
NothingLostOrDuplicated ==
    /\ \A m \in messages : \E a \in accepted : a.origin = m.origin
    /\ \A a \in accepted :
         Cardinality({m \in messages : m.origin = a.origin})
           = IF a.origin \in removed THEN 0 ELSE 1

\* Every policy q can have redrives after at most k receives.
AlwaysRedrives(q, k) ==
    /\ Updates[q] = {}
    /\ \A a \in Attributes[q] : a.redrive # NoRedrive /\ a.redrive.max <= k

\* A message of a queue with a redrive policy is handed out at most maxReceiveCount
\* times, whichever receivers race and however often the queue is re-created.
DeliveriesBounded ==
    \A l \in leases, k \in 1..MaxReceiveCount :
        AlwaysRedrives(l.queue, k) => Cardinality({n \in leases : n.id = l.id}) <= k

\* A receipt handle inside its visibility timeout is in force: until the holder uses
\* it, no other client's receive, delete or visibility change, late handles included,
\* moves the message or its deadline; only purging or deleting the queue does.
LeaseInForce ==
    [][\A k \in leases \cap leases' :
         k.until > clock' /\ HandleRows(k) # {}
           => \/ \E m \in HandleRows(k)' : m.visibleAfter = k.until
              \/ \E c \in Clients : /\ DeleteQueue(c) \/ PurgeQueue(c)
                                    /\ op[c].queue = k.queue]_vars

\* Of the messages of one FIFO group only the first has ever been received: a later
\* one is not handed out, not even once, before the earlier ones are gone
\* (receiveMessagesTx, without DelaySeconds).
HeadOnlyReceived ==
    \A m, n \in messages :
        /\ m.queue = n.queue /\ m.queue \in FifoQueues /\ m.group = n.group
        /\ m.seq < n.seq
      => n.handle = 0

\* At most one message of a FIFO group is in flight (sqs_test.go TestFIFOReceiveSameGroup:
\* "two in-flight for same MessageGroupId").
OneInFlightPerGroup ==
    \A m, n \in messages :
        /\ m.queue = n.queue /\ m.queue \in FifoQueues /\ m.group = n.group
        /\ m.handle # 0 /\ m.visibleAfter > clock
        /\ n.handle # 0 /\ n.visibleAfter > clock
      => m = n

\* Live sequence numbers of a group are distinct and follow the order in which the
\* messages were accepted, in the dead-letter queue too (nextSequenceNumberTx takes
\* the maximum over live rows only, and redriveMessageTx numbers afresh).
SequenceFollowsAcceptance ==
    \A m, n \in messages :
        /\ m.queue = n.queue /\ m.queue \in FifoQueues /\ m.group = n.group
        /\ m.origin < n.origin
      => m.seq < n.seq

\* While a message sent to a FIFO queue is still there, a second one of the same
\* deduplication id is accepted only after the deduplication window of the first.
DeduplicatedInWindow ==
    \A m, n \in messages, a \in accepted :
        /\ m.queue = n.queue /\ m.queue \in FifoQueues /\ m.dedup = n.dedup
        /\ m.id = m.origin /\ n.id = n.origin /\ m.id < n.id
        /\ a.origin = n.origin
      => m.created + DedupWindow < a.at

-----------------------------------------------------------------------------
\* What the account's queues promise.

\* Where the row of a message stands.
Stand(m) ==
    [queue |-> m.queue, place |-> m.id, deliveries |-> m.handle, until |-> m.visibleAfter]

\* The messages that are in a row, each at the one row of its origin.
Standing ==
    [o \in {m.origin : m \in messages} |-> Stand(CHOOSE m \in messages : m.origin = o)]

HeldHandle(l) == [message |-> l.origin, place |-> l.id, delivery |-> l.handle]

Leased ==
    INSTANCE LeasedQueue WITH
        time <- clock, places <- lastId, message <- Standing, gone <- removed,
        held <- {HeldHandle(l) : l \in leases}

\* The rows, receipt handles and transactions of the store, with racing receivers,
\* redrives, late handles, queues dropped under an operation and rollbacks, are queues
\* of leased messages (LeasedQueue): a receive takes available messages only and voids
\* their older handles, and a message that is gone stays gone.
ImplementsLeasedQueue == Leased!LQSpec
=============================================================================
