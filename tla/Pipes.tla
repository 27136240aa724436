-------------------------------- MODULE Pipes --------------------------------
(***************************************************************************)
(* A pipe of EventBridge: rows that name a source and a target, and the    *)
(* ticker that polls a running pipe, one batch at a time.                  *)
(*                                                                         *)
(* The three kinds of source remember differently what was taken.  A queue *)
(* is received from and each message deleted once the target has it.  A    *)
(* stream is read through an iterator, whose successor is stored in the    *)
(* pipe's cursor before the batch is handed over.  Of an event bus the     *)
(* greatest id of a batch is stored after it.  Ids of events are random,   *)
(* and the cursor of one kind of source means nothing to another.          *)
(*                                                                         *)
(* Enrichment and delivery are one step with two outcomes; a delivery that *)
(* took effect and reports a failure counts as failed.  The source queue   *)
(* is what SQSQueue promises of one without redrive: a receive hides       *)
(* messages until a timeout and gives them a new handle.  The stream is    *)
(* the one of DynamoStream, whose writers read an ordinal in one statement *)
(* and insert in another (DynamoWrites models them in full).               *)
(***************************************************************************)
EXTENDS DynamoStream, Sequences, SequencesExt

CONSTANTS
    Sources,     \* kinds of sources that pipes are created with
    Messages,    \* messages that are sent to the source queue
    Events,      \* ids that events on the bus may get
    Writers,     \* requests that append to the stream
    Iterators,   \* ids of stream iterators; an id is free when nothing names it
    None,        \* no pipe, no iterator
    BatchSize,   \* a poll takes so many (10)
    MaxItems,    \* bound: records of the stream and events of the bus, together
    MaxPipes     \* bound: pipes created, all under one name

\* Ids are strings, and the bus is read by comparing them; the empty cursor
\* comes before all.
ASSUME IdsAssumption ==
    /\ Sources \subseteq {"queue", "stream", "bus"}
    /\ Events \subseteq Nat \ {0} /\ Iterators \subseteq Nat \ {0} /\ Events \cap Iterators = {}
    /\ BatchSize \in Nat \ {0} /\ MaxItems \in Nat /\ MaxPipes \in Nat
    /\ None \notin Nat

VARIABLES
    pipe,        \* the row of the pipe, or None
    created,     \* pipes created so far
    messages,    \* messages[m]: where message m is
    stream,      \* the change records of the table
    claimed,     \* claimed[w]: the ordinal writer w has read, or -1
    iterators,   \* iterators[i]: the ordinal iterator i reads next, or None
    bus,         \* the events, in the order they were put
    ticking,     \* the ticker of this process was started
    poll,        \* where the ticker's poll stands
    handed,      \* history: what each pipe's target was given
    leftOut,     \* history: records of a batch whose poll ended before they were handed over
    redelivered, \* history: pipes whose target was given a record twice
    disturbed    \* history: pipes whose cursor was not stored, or by an earlier pipe's poll

records == <<stream, claimed>>
history == <<handed, leftOut, redelivered, disturbed>>
vars == <<pipe, created, messages, records, iterators, bus, ticking, poll, history>>

Start == 0
Pipe == [source : Sources, state : {"RUNNING", "STOPPED"},
         cursor : {Start} \cup Events \cup Iterators, n : 1..MaxPipes]
Message == [at : {"unsent", "queue", "deleted", "taken"}, hidden : BOOLEAN,
            handle : {"none", "poll", "other"}]

Record == [ord : Nat, n : Nat]
Event == [id : Events]
Items == Messages \cup Record \cup Event
Batches == {b \in Seq(Items) : Len(b) <= BatchSize /\ IsInjective(b)}

\* pipe is the row as GetPipe found it; next is stored, or has been.
Phases == {"receive", "open", "page", "store", "item", "delete", "last"}
Poll == [at : Phases, pipe : Pipe, batch : Batches, next : {Start} \cup Events \cup Iterators]
Idle == [at |-> "idle"]
Listed == [at |-> "listed"]

TypeOK ==
    /\ pipe \in Pipe \cup {None} /\ created \in 0..MaxPipes
    /\ messages \in [Messages -> Message]
    /\ stream \subseteq Record /\ IsFiniteSet(stream)
    /\ claimed \in [Writers -> Nat \cup {-1}]
    /\ iterators \in [Iterators -> Nat \cup {None}]
    /\ bus \in Seq(Event) /\ IsInjective(bus)
    /\ ticking \in BOOLEAN
    /\ poll \in Poll \cup {Idle, Listed}
    /\ \A h \in {handed, leftOut} : h \subseteq (1..MaxPipes) \X Items
    /\ redelivered \subseteq 1..MaxPipes /\ disturbed \subseteq 1..MaxPipes

Init ==
    /\ pipe = None /\ created = 0
    /\ messages = [m \in Messages |-> [at |-> "unsent", hidden |-> FALSE, handle |-> "none"]]
    /\ stream = {} /\ claimed = [w \in Writers |-> -1]
    /\ iterators = [i \in Iterators |-> None] /\ bus = <<>>
    /\ ticking = FALSE /\ poll = Idle
    /\ handed = {} /\ leftOut = {} /\ redelivered = {} /\ disturbed = {}

-----------------------------------------------------------------------------
(* Requests.  Every one of them starts the ticker of its process.          *)

CreatePipe ==
    /\ created < MaxPipes /\ pipe = None
    /\ \E s \in Sources, state \in {"RUNNING", "STOPPED"} :
         pipe' = [source |-> s, state |-> state, cursor |-> Start, n |-> created + 1]
    /\ created' = created + 1 /\ ticking' = TRUE
    /\ UNCHANGED <<messages, records, iterators, bus, poll, history>>

DeletePipe ==
    /\ pipe # None
    /\ pipe' = None /\ ticking' = TRUE
    /\ UNCHANGED <<created, messages, records, iterators, bus, poll, history>>

\* DescribePipe, ListPipes, and requests that are refused.
OtherRequest ==
    /\ ~ticking /\ ticking' = TRUE
    /\ UNCHANGED <<pipe, created, messages, records, iterators, bus, poll, history>>

-----------------------------------------------------------------------------
(* The sources, by what their own services do to them.                     *)

SendMessage(m) ==
    /\ messages[m].at = "unsent"
    /\ messages' = [messages EXCEPT ![m].at = "queue"]
    /\ UNCHANGED <<pipe, created, records, iterators, bus, ticking, poll, history>>

\* The visibility timeout passes; the handle stays good for a delete.
Reappear(m) ==
    /\ messages[m].hidden
    /\ messages' = [messages EXCEPT ![m].hidden = FALSE]
    /\ UNCHANGED <<pipe, created, records, iterators, bus, ticking, poll, history>>

\* Another consumer of the queue: receives, and deletes by its handle.
ReceiveElsewhere(m) ==
    /\ messages[m].at = "queue" /\ ~messages[m].hidden /\ messages[m].handle # "other"
    /\ messages' = [messages EXCEPT ![m].hidden = TRUE, ![m].handle = "other"]
    /\ UNCHANGED <<pipe, created, records, iterators, bus, ticking, poll, history>>

DeleteElsewhere(m) ==
    /\ messages[m].at = "queue" /\ messages[m].handle = "other"
    /\ messages' = [messages EXCEPT ![m] = [at |-> "taken", hidden |-> FALSE, handle |-> "none"]]
    /\ UNCHANGED <<pipe, created, records, iterators, bus, ticking, poll, history>>

\* A record or an event more is within the bound.
Room == Cardinality(stream) + Cardinality({x \in Writers : claimed[x] # -1}) + Len(bus) < MaxItems

\* AppendDynamoStreamRecord: the ordinal is read in one statement,
Claim(w) ==
    /\ claimed[w] = -1
    /\ Room
    /\ claimed' = [claimed EXCEPT ![w] = NextOrd(stream)]
    /\ UNCHANGED <<pipe, created, messages, stream, iterators, bus, ticking, poll, history>>

\* and the record with it inserted in another; an insert that fails leaves what
\* a writer leaves that never came.
AppendRecord(w) ==
    /\ claimed[w] # -1
    /\ stream' = stream \cup {[ord |-> claimed[w], n |-> Cardinality(stream) + 1]}
    /\ claimed' = [claimed EXCEPT ![w] = -1]
    /\ UNCHANGED <<pipe, created, messages, iterators, bus, ticking, poll, history>>

\* Five minutes pass without a use of the iterator.
IteratorExpires(i) ==
    /\ iterators[i] # None
    /\ iterators' = [iterators EXCEPT ![i] = None]
    /\ UNCHANGED <<pipe, created, messages, records, bus, ticking, poll, history>>

\* PutEvents gives an event a random id.
PutEvent ==
    /\ Room
    /\ \E e \in Event \ ToSet(bus) : bus' = Append(bus, e)
    /\ UNCHANGED <<pipe, created, messages, records, iterators, ticking, poll, history>>

-----------------------------------------------------------------------------
(* The ticker's poll.                                                      *)

At(phase) == poll.at = phase

\* The end of a poll; what a stream's batch still holds will not be read again.
Left(batch) == IF poll.pipe.source = "stream" THEN {<<poll.pipe.n, x>> : x \in ToSet(batch)} ELSE {}
EndPoll(left) == poll' = Idle /\ leftOut' = leftOut \cup left

ListRunningPipes ==
    /\ ticking /\ poll = Idle /\ pipe # None /\ pipe.state = "RUNNING"
    /\ poll' = Listed
    /\ UNCHANGED <<pipe, created, messages, records, iterators, bus, ticking, history>>

First(source, cursor) ==
    CASE source = "queue" -> "receive"
      [] source = "stream" -> IF cursor = Start THEN "open" ELSE "page"
      [] source = "bus" -> "page"

\* PollPipeOnce reads the pipe anew.
GetPipe ==
    /\ At("listed")
    /\ poll' = IF pipe = None \/ pipe.state # "RUNNING" THEN Idle
               ELSE [at |-> First(pipe.source, pipe.cursor), pipe |-> pipe,
                     batch |-> <<>>, next |-> pipe.cursor]
    /\ UNCHANGED <<pipe, created, messages, records, iterators, bus, ticking, history>>

\* The messages of a receive, the oldest first: as far as the seconds of their
\* arrival tell, in any order.  Broken: only those never received before.
BatchesOf(ms) ==
    {b \in UNION {[1..k -> ms] : k \in 0..BatchSize} :
       IsInjective(b) /\ (Len(b) = BatchSize \/ ToSet(b) = ms)}
Visible == {m \in Messages : messages[m].at = "queue" /\ ~messages[m].hidden}
VisibleFirstTime == {m \in Visible : messages[m].handle = "none"}
ReceivedFirstTime == BatchesOf(VisibleFirstTime)
Received == BatchesOf(Visible)

\* ReceiveMessages: one transaction.
Receive ==
    /\ At("receive")
    /\ \E b \in Received :
         /\ messages' = [m \in Messages |->
              IF m \in ToSet(b) THEN [messages[m] EXCEPT !.hidden = TRUE, !.handle = "poll"] ELSE messages[m]]
         /\ poll' = IF b = <<>> THEN Idle ELSE [poll EXCEPT !.at = "item", !.batch = b]
    /\ UNCHANGED <<pipe, created, records, iterators, bus, ticking, history>>

\* An id nothing names.
Fresh == Iterators \ ({IF pipe = None THEN Start ELSE pipe.cursor} \cup
                      {IF poll.at \in Phases THEN poll.next ELSE Start})

\* GetDynamoStreamShardIterator at TRIM_HORIZON.
OpenIterator ==
    /\ At("open")
    /\ \E i \in Fresh :
         /\ iterators' = [iterators EXCEPT ![i] = 0]
         /\ poll' = [poll EXCEPT !.at = "page", !.next = i]
    /\ UNCHANGED <<pipe, created, messages, records, bus, ticking, history>>

\* A page of the stream in the order of its ordinals; equal ones in any order.
StreamPage(from) ==
    {b \in BatchesOf({r \in stream : r.ord >= from}) :
       /\ ToSet(b) \in Pages(stream, from, BatchSize)
       /\ \A i, j \in DOMAIN b : i < j => b[i].ord <= b[j].ord}

\* The next page begins behind this one; broken: no further, behind nothing, one too far.
NextSame(page, from) == from
NextLast(page, from) == MaxOrd(page) + (IF page = {} THEN 0 ELSE 1)
NextSkipping(page, from) == After(page, from) + 1
NextPosition(page, from) == After(page, from)

\* GetDynamoStreamRecords: the page, and the iterator replaced by its successor.
\* The old id is gone even if a later step fails.
ReadPage ==
    /\ At("page") /\ poll.pipe.source = "stream"
    /\ poll.next \in Iterators /\ iterators[poll.next] # None
    /\ LET from == iterators[poll.next] IN
       \E j \in Fresh, b \in StreamPage(from) :
         /\ iterators' = [iterators EXCEPT ![poll.next] = None, ![j] = NextPosition(ToSet(b), from)]
         /\ poll' = [poll EXCEPT !.at = "store", !.next = j, !.batch = b]
    /\ UNCHANGED <<pipe, created, messages, records, bus, ticking, history>>

\* The iterator expired, was replaced, or is no iterator at all.
NoIterator ==
    /\ At("page") /\ poll.pipe.source = "stream"
    /\ poll.next \in Iterators => iterators[poll.next] = None
    /\ poll' = Idle
    /\ UNCHANGED <<pipe, created, messages, records, iterators, bus, ticking, history>>

\* SetPipeSourceCursor, by the pipe's name; its error is ignored.
SetPipeSourceCursor ==
    \/ /\ pipe # None /\ pipe' = [pipe EXCEPT !.cursor = poll.next]
       /\ disturbed' = IF pipe.n = poll.pipe.n THEN disturbed ELSE disturbed \cup {pipe.n}
    \/ /\ UNCHANGED pipe
       /\ disturbed' = disturbed \cup {poll.pipe.n}

GoOn(batch) ==
    poll' = IF batch # <<>> THEN [poll EXCEPT !.at = "item", !.batch = batch]
            ELSE IF poll.pipe.source = "bus" THEN [poll EXCEPT !.at = "last", !.batch = batch]
            ELSE Idle

StoreCursor ==
    /\ At("store")
    /\ SetPipeSourceCursor
    /\ GoOn(poll.batch)
    /\ UNCHANGED <<created, messages, records, iterators, bus, ticking, handed, leftOut, redelivered>>

\* The page of a bus: the first of the events with ids behind the cursor, smallest first.
PageOf(es) == {b \in BatchesOf(es) :
    /\ \A i, j \in DOMAIN b : i < j => b[i].id < b[j].id
    /\ \A e \in es \ ToSet(b), x \in ToSet(b) : x.id < e.id}

ReadBus ==
    /\ At("page") /\ poll.pipe.source = "bus"
    /\ \E b \in PageOf({e \in ToSet(bus) : e.id > poll.pipe.cursor}) :
         poll' = IF b = <<>> THEN Idle
                 ELSE [poll EXCEPT !.at = "item", !.batch = b, !.next = Last(b).id]
    /\ UNCHANGED <<pipe, created, messages, records, iterators, bus, ticking, history>>

\* The target took the first item of the batch.
HandOver ==
    /\ At("item")
    /\ LET x == <<poll.pipe.n, Head(poll.batch)>> IN
         /\ handed' = handed \cup {x}
         /\ redelivered' = IF poll.pipe.source = "stream" /\ x \in handed
                           THEN redelivered \cup {poll.pipe.n} ELSE redelivered
    /\ IF poll.pipe.source = "queue" THEN poll' = [poll EXCEPT !.at = "delete"]
       ELSE GoOn(Tail(poll.batch))
    /\ UNCHANGED <<pipe, created, messages, records, iterators, bus, ticking, leftOut, disturbed>>

\* Broken: the poll goes on as if the item had been handed over.
FailureGoesOn ==
    /\ At("item")
    /\ IF poll.pipe.source = "queue" THEN poll' = [poll EXCEPT !.at = "delete"]
       ELSE GoOn(Tail(poll.batch))
    /\ UNCHANGED <<pipe, created, messages, records, iterators, bus, ticking, history>>

\* The delivery was denied, or it or the enrichment failed: a pipe with a dead-letter queue
\* sends a failed item there (pipeSendDLQ); the poll ends with the error either way.
HandOverFails ==
    /\ At("item")
    /\ EndPoll(Left(poll.batch))
    /\ UNCHANGED <<pipe, created, messages, records, iterators, bus, ticking, handed, redelivered, disturbed>>

\* DeleteMessage, unless another consumer's receive has replaced the handle.
DeleteMessage ==
    /\ At("delete") /\ messages[Head(poll.batch)].at = "queue"
    /\ messages[Head(poll.batch)].handle = "poll"
    /\ messages' = [messages EXCEPT ![Head(poll.batch)] = [at |-> "deleted", hidden |-> FALSE, handle |-> "none"]]
    /\ GoOn(Tail(poll.batch))
    /\ UNCHANGED <<pipe, created, records, iterators, bus, ticking, history>>

\* The cursor of a bus moves to the last event of a batch handed over whole.
StoreLast ==
    /\ At("last")
    /\ SetPipeSourceCursor
    /\ poll' = Idle
    /\ UNCHANGED <<created, messages, records, iterators, bus, ticking, handed, leftOut, redelivered>>

\* A source that is gone or denied, a handle that is no longer good or a failing
\* statement ends the poll where it stands.
PollFails ==
    /\ poll # Idle /\ ~At("item")
    /\ IF poll = Listed THEN EndPoll({}) ELSE EndPoll(Left(poll.batch))
    /\ UNCHANGED <<pipe, created, messages, records, iterators, bus, ticking, handed, redelivered, disturbed>>

\* The process ends; the next one polls once a request has come for a pipe.
Restart ==
    /\ ticking /\ ticking' = FALSE
    /\ claimed' = [w \in Writers |-> -1]
    /\ IF poll \in {Idle, Listed} THEN EndPoll({}) ELSE EndPoll(Left(poll.batch))
    /\ UNCHANGED <<pipe, created, messages, stream, iterators, bus, handed, redelivered, disturbed>>

PollStep ==
    \/ GetPipe \/ Receive \/ OpenIterator \/ ReadPage \/ NoIterator \/ StoreCursor \/ ReadBus
    \/ HandOver \/ HandOverFails \/ DeleteMessage \/ StoreLast \/ PollFails

Next ==
    \/ CreatePipe \/ DeletePipe \/ OtherRequest
    \/ \E m \in Messages : SendMessage(m) \/ Reappear(m) \/ ReceiveElsewhere(m) \/ DeleteElsewhere(m)
    \/ \E w \in Writers : Claim(w) \/ AppendRecord(w)
    \/ PutEvent
    \/ \E i \in Iterators : IteratorExpires(i)
    \/ ListRunningPipes \/ PollStep
    \/ Restart

Spec == Init /\ [][Next]_vars

\* The ticker ticks and its goroutine is scheduled, timeouts pass, and what is
\* tried again and again succeeds at last: a delivery, the delete within the
\* visibility timeout, a statement.
Fairness ==
    /\ WF_vars(ListRunningPipes) /\ WF_vars(PollStep)
    /\ \A m \in Messages : WF_vars(Reappear(m))
    /\ SF_vars(GetPipe) /\ SF_vars(Receive) /\ SF_vars(ReadBus)
    /\ \A k \in 1..BatchSize : SF_vars(HandOver /\ Len(poll.batch) = k) /\ SF_vars(DeleteMessage /\ Len(poll.batch) = k)
    /\ SF_vars(StoreLast)

FairSpec == Spec /\ Fairness

-----------------------------------------------------------------------------
\* A message leaves the source queue only after the target has it, unless
\* another consumer took it: whatever fails, expires or restarts in between, a
\* poll deletes by its own handle and after the delivery (pollPipeFromSQS).
QueueKept == \A m \in Messages :
    messages[m].at = "deleted" => \E n \in 1..MaxPipes : <<n, m>> \in handed

\* Where a stream's pipe goes on, and what its poll holds.
Position == IF pipe.cursor \in Iterators THEN iterators[pipe.cursor] ELSE None
InHand == IF poll.at \in {"store", "item"} /\ poll.pipe.n = pipe.n THEN ToSet(poll.batch) ELSE {}

\* An event with a greater id was put before it.
Late(e) == \E i, j \in 1..Len(bus) : i < j /\ bus[j] = e /\ bus[i].id > e.id

\* Nothing behind a pipe's cursor was passed over: of a stream's ordinal a record
\* is in hand, or was handed over or sent to the dead-letter queue or fell to the
\* end of a poll; an event was handed over or put late.  A record that is alone at
\* its ordinal is thus never skipped.  Of several with one ordinal, which racing
\* writers can leave, the limit of a page may cut some off, and one may be
\* inserted behind the cursor: only one of them is sure to be read
\* (pollPipeFromDynamoStream, GetDynamoStreamRecords, pollPipeFromEventBus).
NothingSkipped == pipe # None /\ pipe.n \notin disturbed =>
    /\ pipe.source = "stream" /\ Position # None =>
         \A r \in stream : r.ord < Position =>
             \E s \in stream : s.ord = r.ord /\ (s \in InHand \/ <<pipe.n, s>> \in handed \cup leftOut)
    /\ pipe.source = "bus" =>
         \A e \in ToSet(bus) : e.id <= pipe.cursor => <<pipe.n, e>> \in handed \/ Late(e)

\* A stream's records reach the target at most once: the cursor is stored
\* before them, so that a poll that ends early leaves them out instead.  Only a
\* cursor that was not stored, or stored by the poll of a deleted pipe of the
\* same name, brings them again (SetPipeSourceCursor).
StreamAtMostOnce == redelivered \subseteq disturbed

Polled(source) == ticking /\ pipe # None /\ pipe.source = source /\ pipe.state = "RUNNING"

\* While a pipe runs its queue is emptied, as long as no other consumer receives
\* from it, and the events of its bus that came in order are handed over, again
\* and again, however often a delivery fails before it succeeds and a timeout
\* passes (pollAllRunningPipes).
Drains ==
    /\ []<>(~Polled("queue") \/ (\A m \in Messages : messages[m].at # "queue")
            \/ \E m \in Messages : messages[m].handle = "other")
    /\ []<>(~Polled("bus") \/ pipe.n \in disturbed
            \/ \A e \in ToSet(bus) : <<pipe.n, e>> \in handed \/ Late(e))
=============================================================================
