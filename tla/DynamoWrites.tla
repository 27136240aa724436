----------------------------- MODULE DynamoWrites -----------------------------
(***************************************************************************)
(* Writes to the items of a DynamoDB table whose stream is enabled: the    *)
(* single-item handlers (PutItem, DeleteItem, UpdateItem) and              *)
(* TransactWriteItems with its ClientRequestToken.                         *)
(*                                                                         *)
(* Requests are served by concurrent goroutines and one SQL statement is   *)
(* one step.  Only the transaction of TransactWriteItems makes several     *)
(* statements one step.  A single-item write checks its condition, reads   *)
(* the old image, writes the item and appends the change record in         *)
(* statements of their own; a transaction looks its token up before it     *)
(* begins, and appends its records and stores the token after it commits.  *)
(*                                                                         *)
(* An item is the set of its non-key attributes: Put replaces it, Update   *)
(* adds to it.  Encryption at rest, item TTL and the indexes are left out. *)
(***************************************************************************)
EXTENDS DynamoStream, Sequences

CONSTANTS
    Clients,        \* goroutines serving requests
    Keys,           \* primary keys
    Attrs,          \* attribute names
    NoItem,         \* the absence of an item
    Tokens,         \* client request tokens
    NoToken,        \* a request without one; also the absence of a row
    Singles,        \* the actions single-item requests may ask for
    Bodies,         \* the action lists transactions may ask for
    TTL,            \* labTransactClientTokenTTL, in ticks
    MaxTime,        \* bound: the last tick
    MaxRequests     \* bound: requests begun

Images == {NoItem} \cup SUBSET Attrs
Conditions == {"none", "exists", "absent"}
Action == [kind : {"Put", "Delete", "Update"},
           key : Keys, attrs : SUBSET Attrs, cond : Conditions]

\* What a request asks for: the keys its ConditionChecks name, and its writes
\* in order.  Any failed check or condition cancels the whole list, so where
\* the checks stand among the writes makes no difference.
Body == [checks : SUBSET Keys, writes : Seq(Action)]

KeysOf(body) == body.checks \cup {body.writes[i].key : i \in DOMAIN body.writes}

\* validateTransactNoDuplicateKeys: a list that names a key twice is canceled
\* before anything is read.
DistinctKeys(body) ==
    /\ \A i, j \in DOMAIN body.writes : i # j => body.writes[i].key # body.writes[j].key
    /\ \A i \in DOMAIN body.writes : body.writes[i].key \notin body.checks

ASSUME NoItemAssumption == \A s \in SUBSET Attrs : s # NoItem
ASSUME TokenAssumption == NoToken \notin Tokens /\ Tokens \cap Keys = {}
ASSUME RowAssumption == NoToken \notin [body : Body, at : Nat]
ASSUME RequestAssumption ==
    /\ Singles \subseteq Action
    /\ \A b \in Bodies : b \in Body /\ DistinctKeys(b)
ASSUME TimeAssumption == TTL \in Nat

VARIABLES
    items,      \* the dynamodb_items table
    stream,     \* the dynamodb_stream_records table
    tokens,     \* the dynamodb_transact_tokens table
    now,        \* the clock
    op,         \* op[c]: the request c serves, or answered last
    started,    \* requests begun
    commits,    \* history: the requests whose write took effect
    written,    \* history: the changes made to items
    tangled,    \* history: keys and tokens whose requests overlapped
    lost        \* history: requests that failed after their write took effect

vars == <<items, stream, tokens, now, op, started, commits, written, tangled, lost>>

-----------------------------------------------------------------------------
(* What an action does to the item it names.                               *)

Holds(cond, item) ==
    CASE cond = "none"   -> TRUE
      [] cond = "exists" -> item # NoItem
      [] cond = "absent" -> item = NoItem

Effect(a, item) ==
    CASE a.kind = "Put"    -> a.attrs
      [] a.kind = "Update" -> (IF item = NoItem THEN {} ELSE item) \cup a.attrs
      [] a.kind = "Delete" -> NoItem

EventName(a, old) ==
    IF a.kind = "Delete" THEN "REMOVE" ELSE IF old = NoItem THEN "INSERT" ELSE "MODIFY"

\* The change record of action a of request n.
Change(n, a, old, new) ==
    [by |-> n, key |-> a.key, event |-> EventName(a, old), old |-> old, new |-> new]

Names(o) == KeysOf(o.body) \cup ({o.tok} \cap Tokens)

-----------------------------------------------------------------------------
(* Requests.                                                               *)

Phases == {"idle", "check", "load", "read", "write", "token", "sweep", "apply",
           "ord", "append", "store"}
Outcomes == {"none", "ok", "replayed", "mismatch", "canceled", "failed"}

Changes == [by : Nat, key : Keys, event : {"INSERT", "MODIFY", "REMOVE"},
            old : Images, new : Images]
Op == [phase : Phases, outcome : Outcomes, n : Nat, body : Body,
       tok : Tokens \cup {NoToken}, old : Images, new : Images,
       owed : Seq(Changes), ord : Nat]
Record == [ord : Nat, change : Changes]
Token == [body : Body, at : Nat]
Commit == [n : Nat, body : Body, tok : Tokens \cup {NoToken}, at : Nat]

TypeOK ==
    /\ items \in [Keys -> Images]
    /\ stream \subseteq Record /\ IsFiniteSet(stream)
    /\ tokens \in [Tokens -> Token \cup {NoToken}]
    /\ now \in Nat
    /\ op \in [Clients -> Op]
    /\ started \in Nat
    /\ commits \subseteq Commit
    /\ written \subseteq Changes
    /\ tangled \subseteq Keys \cup Tokens
    /\ lost \subseteq Nat

Request(phase, outcome, n, body, tok, new) ==
    [phase |-> phase, outcome |-> outcome, n |-> n, body |-> body, tok |-> tok,
     old |-> NoItem, new |-> new, owed |-> <<>>, ord |-> 0]
NoBody == [checks |-> {}, writes |-> <<>>]

Init ==
    /\ items = [k \in Keys |-> NoItem]
    /\ stream = {}
    /\ tokens = [t \in Tokens |-> NoToken]
    /\ now = 0
    /\ op = [c \in Clients |-> Request("idle", "none", 0, NoBody, NoToken, NoItem)]
    /\ started = 0
    /\ commits = {}
    /\ written = {}
    /\ tangled = {}
    /\ lost = {}

history == <<commits, written, tangled, lost>>

Running(c) == op[c].phase # "idle"
Goto(c, phase) == op' = [op EXCEPT ![c].phase = phase]
Answer(c, outcome) ==
    op' = [op EXCEPT ![c] = Request("idle", outcome, @.n, @.body, @.tok, NoItem)]

Begin(c, body, tok, new, phase) ==
    LET o == Request(phase, "none", started, body, tok, new)
    IN /\ ~Running(c)
       /\ started < MaxRequests
       /\ started' = started + 1
       /\ op' = [op EXCEPT ![c] = o]
       /\ tangled' = tangled \cup {x \in Names(o) : \E d \in Clients : Running(d) /\ x \in Names(op[d])}
       /\ UNCHANGED <<items, stream, tokens, now, commits, written, lost>>

\* The write of c's request takes effect, and owes these change records.
Committed(c, owed) ==
    /\ commits' = commits \cup {[n |-> op[c].n, body |-> op[c].body, tok |-> op[c].tok, at |-> now]}
    /\ written' = written \cup {owed[i] : i \in DOMAIN owed}

\* What is left of c's request once the changes in owed are all it owes.
Proceed(c, owed) ==
    IF owed = <<>> /\ op[c].tok = NoToken
      THEN Answer(c, "ok")
      ELSE op' = [op EXCEPT ![c].owed = owed,
                            ![c].phase = IF owed = <<>> THEN "store" ELSE "ord"]

-----------------------------------------------------------------------------
(* dynamoPutItem, dynamoDeleteItem, dynamoUpdateItem.                      *)

FirstPhase(a) ==
    IF a.kind = "Update" THEN "load" ELSE IF a.cond = "none" THEN "read" ELSE "check"

BeginSingle(c) ==
    \E a \in Singles : Begin(c, [checks |-> {}, writes |-> <<a>>], NoToken, Effect(a, NoItem), FirstPhase(a))

\* dynamoCheckCondition: loads the item and evaluates the condition on it.
CheckCondition(c) ==
    /\ op[c].phase = "check"
    /\ LET a == op[c].body.writes[1]
       IN IF Holds(a.cond, items[a.key]) THEN Goto(c, "read") ELSE Answer(c, "canceled")
    /\ UNCHANGED <<items, stream, tokens, now, started, history>>

\* UpdateItem loads the item once for its condition and the expression.
LoadForUpdate(c) ==
    /\ op[c].phase = "load"
    /\ LET a == op[c].body.writes[1]
       IN IF Holds(a.cond, items[a.key])
            THEN op' = [op EXCEPT ![c].phase = "read", ![c].new = Effect(a, items[a.key])]
            ELSE Answer(c, "canceled")
    /\ UNCHANGED <<items, stream, tokens, now, started, history>>

\* The old image, loaded because the stream is enabled.
ReadOld(c) ==
    /\ op[c].phase = "read"
    /\ op' = [op EXCEPT ![c].phase = "write", ![c].old = items[op[c].body.writes[1].key]]
    /\ UNCHANGED <<items, stream, tokens, now, started, history>>

\* PutItemBytesIndexed or DeleteItem.
WriteItem(c) ==
    /\ op[c].phase = "write"
    /\ LET o == op[c]
           a == o.body.writes[1]
           owed == <<Change(o.n, a, o.old, o.new)>>
       IN /\ items' = [items EXCEPT ![a.key] = o.new]
          /\ Committed(c, owed)
          /\ Proceed(c, owed)
    /\ UNCHANGED <<stream, tokens, now, started, tangled, lost>>

-----------------------------------------------------------------------------
(* AppendDynamoStreamRecord, once for every change the request owes.       *)

\* Broken: the ordinal is the highest one, not the next.
ReadMaxOrd(c) ==
    /\ op[c].phase = "ord"
    /\ op' = [op EXCEPT ![c].phase = "append", ![c].ord = MaxOrd(stream)]
    /\ UNCHANGED <<items, stream, tokens, now, started, history>>

ReadOrd(c) ==
    /\ op[c].phase = "ord"
    /\ op' = [op EXCEPT ![c].phase = "append", ![c].ord = NextOrd(stream)]
    /\ UNCHANGED <<items, stream, tokens, now, started, history>>

\* Broken: only the first change of a transaction is recorded.
AppendFirstOnly(c) ==
    /\ op[c].phase = "append"
    /\ stream' = stream \cup {[ord |-> op[c].ord, change |-> Head(op[c].owed)]}
    /\ Proceed(c, <<>>)
    /\ UNCHANGED <<items, tokens, now, started, history>>

AppendRecord(c) ==
    /\ op[c].phase = "append"
    /\ stream' = stream \cup {[ord |-> op[c].ord, change |-> Head(op[c].owed)]}
    /\ Proceed(c, Tail(op[c].owed))
    /\ UNCHANGED <<items, tokens, now, started, history>>

\* The request ends in an error, whatever it has done stays done: any
\* statement may fail, the goroutine may die with the process, and an append
\* fails when another took the same ordinal in the same millisecond.
Fail(c) ==
    /\ Running(c)
    /\ Answer(c, "failed")
    /\ lost' = lost \cup {x.n : x \in {y \in commits : y.n = op[c].n}}
    /\ UNCHANGED <<items, stream, tokens, now, started, commits, written, tangled>>

-----------------------------------------------------------------------------
(* TransactWriteItems.                                                     *)

BeginTransact(c) ==
    \E b \in Bodies, t \in Tokens \cup {NoToken} :
        Begin(c, b, t, NoItem, IF t = NoToken THEN "apply" ELSE "token")

\* Broken: the window closes a tick early.
ExpiredEarly(row) == now - row.at >= TTL

Expired(row) == now - row.at > TTL

\* Broken: a replay is not compared with the request it repeats.
CheckTokenOnly(c) ==
    /\ op[c].phase = "token"
    /\ LET row == tokens[op[c].tok]
       IN CASE row = NoToken -> Goto(c, "apply")
            [] row # NoToken /\ Expired(row) -> Goto(c, "sweep")
            [] row # NoToken /\ ~Expired(row) -> Answer(c, "replayed")
    /\ UNCHANGED <<items, stream, tokens, now, started, history>>

\* checkTransactClientToken, up to the statement that deletes an old row.
CheckToken(c) ==
    /\ op[c].phase = "token"
    /\ LET row == tokens[op[c].tok]
       IN IF row = NoToken THEN Goto(c, "apply")
          ELSE IF Expired(row) THEN Goto(c, "sweep")
          ELSE Answer(c, IF row.body = op[c].body THEN "replayed" ELSE "mismatch")
    /\ UNCHANGED <<items, stream, tokens, now, started, history>>

\* The DELETE names the token only: it removes whatever row is there by now.
\* Its own failure is ignored.
SweepToken(c) ==
    /\ op[c].phase = "sweep"
    /\ tokens' \in {tokens, [tokens EXCEPT ![op[c].tok] = NoToken]}
    /\ Goto(c, "apply")
    /\ UNCHANGED <<items, stream, now, started, history>>

\* The changes of these writes applied to the items as they are.
ChangesOf(n, writes) ==
    [i \in DOMAIN writes |->
        LET a == writes[i] IN Change(n, a, items[a.key], Effect(a, items[a.key]))]

\* From BEGIN to COMMIT.
Apply(c) ==
    /\ op[c].phase = "apply"
    /\ LET o == op[c]
           owed == ChangesOf(o.n, o.body.writes)
           canApply ==
             /\ \A k \in o.body.checks : items[k] # NoItem
             /\ \A a \in {o.body.writes[i] : i \in DOMAIN o.body.writes} : Holds(a.cond, items[a.key])
       IN IF canApply
            THEN /\ items' = [k \in Keys |->
                       IF \E i \in DOMAIN owed : owed[i].key = k
                         THEN (CHOOSE ch \in {owed[i] : i \in DOMAIN owed} : ch.key = k).new
                         ELSE items[k]]
                 /\ Committed(c, owed)
                 /\ Proceed(c, owed)
            ELSE /\ Answer(c, "canceled")
                 /\ UNCHANGED <<items, commits, written>>
    /\ UNCHANGED <<stream, tokens, now, started, tangled, lost>>

\* storeTransactClientToken: an upsert, whoever stored the row before.
StoreToken(c) ==
    /\ op[c].phase = "store"
    /\ tokens' = [tokens EXCEPT ![op[c].tok] = [body |-> op[c].body, at |-> now]]
    /\ Answer(c, "ok")
    /\ UNCHANGED <<items, stream, now, started, history>>

Tick ==
    /\ now < MaxTime
    /\ now' = now + 1
    /\ UNCHANGED <<items, stream, tokens, op, started, history>>

Step(c) ==
    \/ BeginSingle(c) \/ CheckCondition(c) \/ LoadForUpdate(c) \/ ReadOld(c) \/ WriteItem(c)
    \/ ReadOrd(c) \/ AppendRecord(c)
    \/ BeginTransact(c) \/ CheckToken(c) \/ SweepToken(c) \/ Apply(c) \/ StoreToken(c)
    \/ Fail(c)

Next == Tick \/ \E c \in Clients : Step(c)

Spec == Init /\ [][Next]_vars

-----------------------------------------------------------------------------
(* What the writes promise.                                                *)

Within(x, y) == x.at <= y.at + TTL /\ y.at <= x.at + TTL

\* A name whose requests came one after the other, none failing half-way.
Orderly(name) ==
    /\ name \notin tangled
    /\ \A x \in commits : x.n \in lost =>
         name \notin {x.tok} \cup KeysOf(x.body)

\* A caller that sends the requests of one token one after the other, and has
\* none fail after it committed, applies it at most once within the window,
\* whatever other requests run (checkTransactClientToken,
\* storeTransactClientToken).
SequentialTokenOnce ==
    \A x, y \in commits :
        x.n # y.n /\ x.tok = y.tok /\ x.tok # NoToken /\ Orderly(x.tok) => ~Within(x, y)

\* A request answered as a replay repeats one that did commit these very
\* actions, even where tokens are swept, overwritten and stored late.
ReplayOfCommitted ==
    \A c \in Clients : op[c].outcome = "replayed" =>
        \E x \in commits : x.tok = op[c].tok /\ x.body = op[c].body

Owed(c, w) == Running(c) /\ \E i \in DOMAIN op[c].owed : op[c].owed[i] = w
Recorded(w) == \E r \in stream : r.change = w

\* Every change made to an item has its record on the stream, or is still
\* owed one by a running request and has none yet, or its request failed
\* after the write; and the stream holds no other record (cancelled
\* transactions leave none).
ChangesAccounted ==
    /\ \A w \in written : Recorded(w) \/ w.by \in lost \/ \E c \in Clients : Owed(c, w)
    /\ \A c \in Clients, w \in written : Owed(c, w) => ~Recorded(w)
    /\ \A r \in stream : r.change \in written

Of(k) == {r \in stream : r.change.key = k}

\* The image a reader of the stream holds of k after these records.
Replay(records) ==
    IF records = {} THEN NoItem
    ELSE (CHOOSE r \in records : r.ord = MaxOrd(records)).change.new

\* Where the writers of a key came one after the other, the stream read in
\* the order of its ordinals is the history of the item: every old image is
\* the image before it, and the last one is the item itself.
StreamReplaysItem ==
    \A k \in Keys : Orderly(k) /\ (\A c \in Clients : Running(c) => k \notin Names(op[c])) =>
        /\ \A r, s \in Of(k) : r.ord = s.ord => r = s
        /\ \A r \in Of(k) : r.change.old = Replay({s \in Of(k) : s.ord < r.ord})
        /\ items[k] = Replay(Of(k))

=============================================================================
