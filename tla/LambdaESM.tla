------------------------------ MODULE LambdaESM ------------------------------
(***************************************************************************)
(* Lambda event source mappings of a DynamoDB stream: the rows of          *)
(* lambda_event_source_mappings, the shard iterators their source_cursor   *)
(* names, and the goroutine that polls every enabled mapping once a second *)
(* (server/lambda_esm_handlers.go, store/lambda_esm.go,                    *)
(* store/dynamodb_streams.go).                                             *)
(*                                                                         *)
(* One statement or transaction is one step.  Reading a page moves the     *)
(* position: the iterator that was read is deleted and another one is      *)
(* inserted, before the function is invoked.  Only after the function has  *)
(* succeeded does the mapping's cursor name the new iterator.              *)
(*                                                                         *)
(* The stream carries records of a few kinds, which filters select.  Its   *)
(* writers read an ordinal in one statement and insert in another          *)
(* (DynamoWrites models them in full).                                     *)
(***************************************************************************)
EXTENDS DynamoStream

CONSTANTS
    Mappings,       \* the uuids of mappings
    Iterators,      \* the ids of shard iterators
    None,           \* no row; also the empty source_cursor
    Writers,        \* the requests that append to the stream
    Kinds,          \* kinds of records, as far as filters tell them apart
    Settings,       \* the settings requests may give a mapping
    Lifetime,       \* how long an iterator lives, in ticks
    Inline,         \* DockerHost is empty: a create polls the mapping itself
    Faults,         \* what may go wrong, of "invoke", "report", "statement", "restart"
    MaxTime,        \* bound: the last tick
    MaxRecords      \* bound: records written

\* The goroutines that poll: the ticker's, and the request that created a
\* mapping.
Poller == "poller"
Pollers == {Poller} \cup Mappings

\* The settings of a row: enabled, BatchSize, the kinds its FilterCriteria
\* select, and whether it asks for ReportBatchItemFailures.
Setting == [enabled : BOOLEAN, batch : Nat \ {0}, filter : SUBSET Kinds, reports : BOOLEAN]

ASSUME MappingAssumption == Poller \notin Mappings
Row == [set : Setting, cursor : Iterators \cup {None}]
IteratorRow == [next : Nat, expires : Nat]

ASSUME NoneAssumption ==
    None \notin Iterators /\ None \notin Mappings /\ None \notin Row /\ None \notin IteratorRow
ASSUME SettingsAssumption == Settings \subseteq Setting
ASSUME TimeAssumption == Lifetime \in Nat
ASSUME FaultAssumption == Faults \subseteq {"invoke", "report", "statement", "restart"}

VARIABLES
    stream,         \* dynamodb_stream_records
    claimed,        \* claimed[w]: the ordinal writer w has read, or -1
    mappings,       \* lambda_event_source_mappings
    created,        \* the uuids given out
    iterators,      \* dynamodb_stream_iterators
    now,            \* the clock
    running,        \* the poller was started in this process
    due,            \* the mappings the poller has still to poll in this round
    poll,           \* poll[p]: the poll p is at
    handled,        \* history: records given to the function, or filtered out
    redelivered,    \* history: mappings that had a record delivered twice
    disturbed       \* history: mappings with a poll that failed, came too late or overlapped

rows == <<stream, mappings, created, iterators>>
history == <<handled, redelivered, disturbed>>
vars == <<rows, claimed, now, running, due, poll, history>>

-----------------------------------------------------------------------------

Record == [ord : Nat, n : Nat, kind : Kinds]
Phases == {"idle", "load", "open", "find", "read", "invoke", "store"}
Poll == [phase : Phases, of : Mappings \cup {None}, set : Setting \cup {None},
         it : Iterators \cup {None}, from : Nat, page : SUBSET Record, next : Iterators \cup {None}]

Idle == [phase |-> "idle", of |-> None, set |-> None, it |-> None, from |-> 0, page |-> {}, next |-> None]

TypeOK ==
    /\ stream \subseteq Record /\ IsFiniteSet(stream)
    /\ claimed \in [Writers -> Nat \cup {-1}]
    /\ mappings \in [Mappings -> Row \cup {None}]
    /\ created \subseteq Mappings
    /\ iterators \in [Iterators -> IteratorRow \cup {None}]
    /\ now \in Nat
    /\ running \in BOOLEAN
    /\ due \subseteq Mappings
    /\ poll \in [Pollers -> Poll]
    /\ handled \in [Mappings -> SUBSET Record]
    /\ redelivered \subseteq Mappings /\ disturbed \subseteq Mappings

Init ==
    /\ stream = {}
    /\ claimed = [w \in Writers |-> -1]
    /\ mappings = [m \in Mappings |-> None]
    /\ created = {}
    /\ iterators = [i \in Iterators |-> None]
    /\ now = 0
    /\ running = FALSE
    /\ due = {}
    /\ poll = [p \in Pollers |-> Idle]
    /\ handled = [m \in Mappings |-> {}]
    /\ redelivered = {}
    /\ disturbed = {}

Enabled(m) == mappings[m] # None /\ mappings[m].set.enabled
Polling(m) == {p \in Pollers : poll[p].of = m}

\* Iterator ids hold the time in nanoseconds.  A row that no cursor and no poll
\* names is never read again: it is left out, and its id stands for a new one.
Named == {mappings[m].cursor : m \in {x \in Mappings : mappings[x] # None}}
            \cup UNION {{poll[p].it, poll[p].next} : p \in Pollers}
Fresh == Iterators \ Named
NewIterator == CHOOSE i \in Fresh : TRUE
WriteIterators(table) ==
    iterators' = [i \in Iterators |-> IF i \in Named' THEN table[i] ELSE None]
NewRow(next) == [next |-> next, expires |-> now + Lifetime]

Move(p, new) == poll' = [poll EXCEPT ![p] = new]
Stop(p) == Move(p, Idle)

\* A poll of m ends early, too late, or while another one is running.
Disturb(ms) == disturbed' = disturbed \cup ms

-----------------------------------------------------------------------------
(* The writers of the stream.                                              *)

Claim(w) ==
    /\ claimed[w] = -1
    /\ Cardinality(stream) + Cardinality({x \in Writers : claimed[x] # -1}) < MaxRecords
    /\ claimed' = [claimed EXCEPT ![w] = NextOrd(stream)]
    /\ UNCHANGED <<rows, now, running, due, poll, history>>

Append(w) ==
    /\ claimed[w] # -1
    /\ \E k \in Kinds :
         stream' = stream \cup {[ord |-> claimed[w], n |-> Cardinality(stream) + 1, kind |-> k]}
    /\ claimed' = [claimed EXCEPT ![w] = -1]
    /\ UNCHANGED <<mappings, created, iterators, now, running, due, poll, history>>

-----------------------------------------------------------------------------
(* The requests that change mappings.                                      *)

\* Starts the poller the first time, inserts the row with an empty cursor,
\* and polls it when there is no Docker host.
CreateEventSourceMapping(m) ==
    /\ m \notin created
    /\ created' = created \cup {m}
    /\ running' = TRUE
    /\ \E s \in Settings :
         /\ mappings' = [mappings EXCEPT ![m] = [set |-> s, cursor |-> None]]
         /\ IF Inline /\ s.enabled
              THEN Move(m, [Idle EXCEPT !.phase = "load", !.of = m])
              ELSE UNCHANGED poll
    /\ UNCHANGED <<stream, claimed, iterators, now, due, history>>

\* A request that is refused has started the poller all the same.
RefuseCreate ==
    /\ running' = TRUE
    /\ UNCHANGED <<rows, claimed, now, due, poll, history>>

\* Writes every setting, those it was not given as it read them, and leaves
\* the cursor alone.
UpdateEventSourceMapping(m) ==
    /\ mappings[m] # None
    /\ \E s \in Settings : mappings' = [mappings EXCEPT ![m].set = s]
    /\ UNCHANGED <<stream, claimed, created, iterators, now, running, due, poll, history>>

DeleteEventSourceMapping(m) ==
    /\ mappings[m] # None
    /\ mappings' = [mappings EXCEPT ![m] = None]
    /\ UNCHANGED <<stream, claimed, created, now, running, due, poll, history>>
    /\ WriteIterators(iterators)

-----------------------------------------------------------------------------
(* PollEventSourceMappingOnce.                                             *)

\* pollAllEventSourceMappings, on the tick: the enabled mappings.
ListEnabled ==
    /\ running
    /\ due = {} /\ poll[Poller] = Idle
    /\ due' = {m \in Mappings : Enabled(m)}
    /\ UNCHANGED <<rows, claimed, now, running, poll, history>>

\* Reads the row of m: all that follows uses this copy.
Load(p, m) ==
    IF ~Enabled(m)
      THEN Stop(p) /\ UNCHANGED disturbed
      ELSE /\ Move(p, [Idle EXCEPT !.phase = IF mappings[m].cursor = None THEN "open" ELSE "find",
                                  !.of = m, !.set = mappings[m].set, !.it = mappings[m].cursor])
           /\ Disturb(IF Polling(m) \subseteq {p} THEN {} ELSE {m})

LoadDue ==
    /\ poll[Poller] = Idle
    /\ \E m \in due : Load(Poller, m) /\ due' = due \ {m}
    /\ UNCHANGED <<rows, claimed, now, running, handled, redelivered>>

LoadCreated(p) ==
    /\ poll[p].phase = "load"
    /\ Load(p, poll[p].of)
    /\ UNCHANGED <<rows, claimed, now, running, due, handled, redelivered>>

\* GetDynamoStreamShardIterator at TRIM_HORIZON, for an empty cursor.
OpenIterator(p) ==
    /\ poll[p].phase = "open"
    /\ Fresh # {}
    /\ Move(p, [poll[p] EXCEPT !.phase = "find", !.it = NewIterator])
    /\ UNCHANGED <<stream, mappings, created, claimed, now, running, due, history>>
    /\ WriteIterators([iterators EXCEPT ![NewIterator] = NewRow(0)])

Readable(i) == iterators[i] # None /\ now <= iterators[i].expires

\* GetDynamoStreamRecords looks the iterator up.
FindIterator(p) ==
    /\ poll[p].phase = "find"
    /\ Readable(poll[p].it)
    /\ Move(p, [poll[p] EXCEPT !.phase = "read", !.from = iterators[poll[p].it].next])
    /\ UNCHANGED <<rows, claimed, now, running, due, history>>

\* It finds the iterator gone or too old, and ends.
IteratorExpired(p) ==
    /\ poll[p].phase = "find"
    /\ ~Readable(poll[p].it)
    /\ Stop(p)
    /\ Disturb(IF iterators[poll[p].it] = None THEN {} ELSE {poll[p].of})
    /\ UNCHANGED <<stream, mappings, created, claimed, now, running, due, handled, redelivered>>
    /\ WriteIterators([iterators EXCEPT ![poll[p].it] = None])

Matched(p, page) == {r \in page : r.kind \in poll[p].set.filter}

\* Mutant: the position stands on the last record read, not behind it.
AfterSame(page, from) == IF page = {} THEN from ELSE MaxOrd(page)

\* Mutant: nor does it stay where it is when nothing was read.
AfterLast(page, from) == MaxOrd(page)

Following(page, from) == After(page, from)

\* It reads the page and replaces the iterator in a transaction, which writes
\* what depends on the page only and deletes the row whether or not another
\* poll has.  What the filter leaves out is dropped here and now.
ReadPage(p) ==
    /\ poll[p].phase = "read"
    /\ Fresh # {}
    /\ LET m == poll[p].of
           from == poll[p].from
       IN \E page \in Pages(stream, from, poll[p].set.batch) :
            /\ Move(p, [poll[p] EXCEPT !.phase = IF Matched(p, page) = {} THEN "store" ELSE "invoke",
                                       !.page = page, !.it = None, !.from = 0, !.next = NewIterator])
            /\ handled' = [handled EXCEPT ![m] = @ \cup (page \ Matched(p, page))]
            /\ UNCHANGED <<stream, mappings, created, claimed, now, running, due, redelivered, disturbed>>
            /\ WriteIterators([iterators EXCEPT ![poll[p].it] = None,
                                                ![NewIterator] = NewRow(Following(page, from))])

\* The function answers without an error, and reports no failed item.
InvokeSucceeds(p) ==
    /\ poll[p].phase = "invoke"
    /\ LET m == poll[p].of
       IN /\ handled' = [handled EXCEPT ![m] = @ \cup Matched(p, poll[p].page)]
          /\ redelivered' = redelivered \cup (IF Matched(p, poll[p].page) \cap handled[m] = {} THEN {} ELSE {m})
    /\ Move(p, [poll[p] EXCEPT !.phase = "store"])
    /\ UNCHANGED <<rows, claimed, now, running, due, disturbed>>

\* Mutant: the cursor advances all the same.
InvokeFailsAdvancing(p) ==
    /\ poll[p].phase = "invoke"
    /\ "invoke" \in Faults \/ ("report" \in Faults /\ poll[p].set.reports)
    /\ Move(p, [poll[p] EXCEPT !.phase = "store"])
    /\ Disturb({poll[p].of})
    /\ UNCHANGED <<rows, claimed, now, running, due, handled, redelivered>>

\* An error, or a batchItemFailures that names a record: the poll ends here.
InvokeFails(p) ==
    /\ poll[p].phase = "invoke"
    /\ "invoke" \in Faults \/ ("report" \in Faults /\ poll[p].set.reports)
    /\ Stop(p)
    /\ Disturb({poll[p].of})
    /\ UNCHANGED <<stream, mappings, created, claimed, now, running, due, handled, redelivered>>
    /\ WriteIterators(iterators)

\* Mutant: a poll that found nothing leaves the cursor alone.
StoreCursorOfPages(p) ==
    /\ poll[p].phase = "store"
    /\ LET m == poll[p].of
       IN mappings' = IF mappings[m] = None \/ poll[p].page = {} THEN mappings
                      ELSE [mappings EXCEPT ![m].cursor = poll[p].next]
    /\ Stop(p)
    /\ UNCHANGED <<stream, created, claimed, now, running, due, history>>
    /\ WriteIterators(iterators)

\* setESMSourceCursor, by uuid, whatever has become of the row.
StoreCursor(p) ==
    /\ poll[p].phase = "store"
    /\ LET m == poll[p].of
       IN mappings' = IF mappings[m] = None THEN mappings
                      ELSE [mappings EXCEPT ![m].cursor = poll[p].next]
    /\ Stop(p)
    /\ UNCHANGED <<stream, created, claimed, now, running, due, history>>
    /\ WriteIterators(iterators)

-----------------------------------------------------------------------------
(* What goes wrong, and time.                                              *)

\* A statement of the poll fails; also a function that cannot be resolved, or
\* a role that no longer may read the source.
StatementFails(p) ==
    /\ "statement" \in Faults
    /\ poll[p] # Idle
    /\ Stop(p)
    /\ Disturb({poll[p].of})
    /\ UNCHANGED <<stream, mappings, created, claimed, now, running, due, handled, redelivered>>
    /\ WriteIterators(iterators)

\* The process ends and starts again.  Nothing starts the poller but the next
\* CreateEventSourceMapping.
Restart ==
    /\ "restart" \in Faults
    /\ running' = FALSE
    /\ due' = {}
    /\ poll' = [p \in Pollers |-> Idle]
    /\ claimed' = [w \in Writers |-> -1]
    /\ Disturb({m \in Mappings : Polling(m) # {}})
    /\ UNCHANGED <<stream, mappings, created, now, handled, redelivered>>
    /\ WriteIterators(iterators)

Tick ==
    /\ now < MaxTime
    /\ now' = now + 1
    /\ UNCHANGED <<rows, claimed, running, due, poll, history>>

\* What p does once a poll has begun.
Proceed(p) ==
    \/ LoadCreated(p) \/ OpenIterator(p) \/ FindIterator(p) \/ IteratorExpired(p)
    \/ ReadPage(p) \/ InvokeSucceeds(p) \/ InvokeFails(p) \/ StoreCursor(p)

Next ==
    \/ \E w \in Writers : Claim(w) \/ Append(w)
    \/ \E m \in Mappings : \/ CreateEventSourceMapping(m)
                           \/ UpdateEventSourceMapping(m)
                           \/ DeleteEventSourceMapping(m)
    \/ RefuseCreate
    \/ ListEnabled \/ LoadDue
    \/ \E p \in Pollers : Proceed(p) \/ StatementFails(p)
    \/ Restart \/ Tick

Spec == Init /\ [][Next]_vars

\* The goroutine of the poller and those of requests are scheduled, and a
\* function that is invoked again and again succeeds at last.
Fairness ==
    /\ WF_vars(ListEnabled) /\ WF_vars(LoadDue)
    /\ \A p \in Pollers : WF_vars(Proceed(p)) /\ SF_vars(InvokeSucceeds(p))

FairSpec == Spec /\ Fairness

-----------------------------------------------------------------------------
(* What the mappings promise.                                              *)

\* Writers that race may give two records one ordinal.
Alone(r) == \A s \in stream : s.ord = r.ord => s = r

\* "Advances the source on success" (PollEventSourceMappingOnce): whatever
\* fails, restarts, overlaps or is updated meanwhile, every record behind the
\* position a mapping will go on from was given to its function or filtered
\* out, unless it shares its ordinal with another record.
NothingSkipped ==
    \A m \in Mappings :
        mappings[m] # None /\ mappings[m].cursor # None /\ iterators[mappings[m].cursor] # None =>
            \A r \in stream :
                r.ord < iterators[mappings[m].cursor].next /\ Alone(r) => r \in handled[m]

\* A record reaches the function twice only after one of the mapping's polls
\* failed, overlapped another or came too late (pollDynamoEventSourceMappingOnce).
RedeliveredOnlyWhenDisturbed == redelivered \subseteq disturbed

Behind(m) == {r \in stream : Alone(r) /\ r \notin handled[m]}

\* An enabled mapping that is not disturbed catches up with its stream again
\* and again, in a process that was asked to poll.
CatchesUp ==
    \A m \in Mappings :
        []<>(Behind(m) = {} \/ ~Enabled(m) \/ m \in disturbed \/ ~running)

=============================================================================
