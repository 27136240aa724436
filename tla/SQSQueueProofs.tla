--------------------------- MODULE SQSQueueProofs ---------------------------
(***************************************************************************)
(* Proofs about SQSQueue for every number of clients, queues and messages. *)
(***************************************************************************)
EXTENDS SQSQueue, FiniteSetTheorems, TLAPS

\* A nonempty finite set of numbers has a largest element, so the SELECT MAX(..)
\* of nextSequenceNumberTx is defined.
LEMMA LargestExists ==
  ASSUME NEW S \in SUBSET Nat, IsFiniteSet(S), S # {}
  PROVE  \E n \in S : \A k \in S : k <= n
<1> DEFINE Above(n) == {k \in S : k > n}
           Tops == {Above(n) : n \in S}
<1>1. Tops \subseteq SUBSET S /\ Tops # {}
  OBVIOUS
<1>2. PICK T \in Tops : \A U \in Tops : <<U, T>> \notin StrictSubsetOrdering(S)
  <2> HIDE DEF Tops
  <2>1. Tops \subseteq FiniteSubsetsOf(S)
    BY <1>1, FS_FiniteSubsetsOfFinite
  <2> QED BY <1>1, <2>1, FS_StrictSubsetOrderingWellFounded, WFMin
<1>3. PICK n \in S : T = Above(n)
  BY <1>2
<1>4. ASSUME NEW k \in S, k > n PROVE FALSE
  <2>1. k \in Nat /\ n \in Nat /\ S \subseteq Nat
    OBVIOUS
  <2>2. \A j \in Nat : j > k => j > n
    BY <1>4, <2>1
  <2>3. k \in T
    BY <1>3, <1>4
  <2>4. k \notin Above(k)
    BY <2>1
  <2>5. Above(k) \subseteq T
    BY <1>3, <2>1, <2>2
  <2>6. <<Above(k), T>> \in StrictSubsetOrdering(S)
    BY <1>3, <2>3, <2>4, <2>5 DEF StrictSubsetOrdering
  <2> QED BY <1>2, <2>6
<1> QED BY <1>4

\* What MaxOf returns on a finite set of numbers.
LEMMA MaxOfIsLargest ==
  ASSUME NEW S \in SUBSET Nat, IsFiniteSet(S)
  PROVE  MaxOf(S) \in Nat /\ \A k \in S : k <= MaxOf(S)
<1>1. CASE S = {}
  BY <1>1 DEF MaxOf
<1>2. CASE S # {}
  BY <1>2, LargestExists DEF MaxOf
<1> QED BY <1>1, <1>2

\* nextSequenceNumberTx returns a number above every live one of the group.
LEMMA NextSequenceIsNew ==
  ASSUME messages \subseteq Rows, IsFiniteSet(messages), NEW q, NEW g
  PROVE  /\ NextSequence(q, g) \in Nat
         /\ \A m \in messages : m.queue = q /\ m.group = g => m.seq < NextSequence(q, g)
<1> DEFINE R == {n \in messages : n.queue = q /\ n.group = g}
           S == {m.seq : m \in R}
<1>1. IsFiniteSet(R)
  BY FS_Subset
<1>2. IsFiniteSet(S)
  <2> DEFINE f == [m \in R |-> m.seq]
  <2>1. f \in Surjection(R, S)
    BY DEF Surjection
  <2> HIDE DEF R, S, f
  <2> QED BY <1>1, <2>1, FS_Surjection
<1>3. S \in SUBSET Nat
  BY DEF Rows
<1>4. MaxOf(S) \in Nat /\ \A k \in S : k <= MaxOf(S)
  <2> HIDE DEF S
  <2> QED BY <1>2, <1>3, MaxOfIsLargest
<1>5. \A m \in messages : m.queue = q /\ m.group = g => m.seq \in S /\ m.seq \in Nat
  BY DEF Rows
<1>6. NextSequence(q, g) = 1 + MaxOf(S)
  BY DEF NextSequence
<1> QED
  <2> HIDE DEF S
  <2> QED BY <1>3, <1>4, <1>5, <1>6

-----------------------------------------------------------------------------
\* The record a client's operation is, by its kind.
LEMMA OperationKinds ==
  ASSUME TypeOK, NEW c \in Clients
  PROVE  /\ op[c].kind = "setting" => op[c] \in SettingOps
         /\ op[c].kind \in {"deletingQueue", "purging"} => op[c] \in DroppingOps
         /\ op[c].kind \in {"snapshot", "sending"} => op[c] \in SendingOps
         /\ op[c].kind = "receiving" => op[c] \in ReceivingOps
<1>1. op[c] \in Operations
  BY DEF TypeOK
<1>2. CASE op[c] = Idle
  BY <1>2 DEF Idle
<1>3. CASE op[c] \in SettingOps
  BY <1>3 DEF SettingOps
<1>4. CASE op[c] \in DroppingOps
  BY <1>4 DEF DroppingOps
<1>5. CASE op[c] \in SendingOps
  BY <1>5 DEF SendingOps
<1>6. CASE op[c] \in ReceivingOps
  BY <1>6 DEF ReceivingOps
<1> QED BY <1>1, <1>2, <1>3, <1>4, <1>5, <1>6 DEF Operations

\* A handler that returns leaves a well-typed table of operations.
LEMMA FinishTyped ==
  ASSUME TypeOK, NEW c \in Clients, Finish(c)
  PROVE  op' \in [Clients -> Operations]
BY DEF TypeOK, Finish, Operations

\* Merging an update into a row gives a row.
LEMMA MergeTyped ==
  ASSUME NEW a \in AttributeRecords, NEW q \in Queues, NEW u \in Updates[q]
  PROVE  Merge(a, u) \in AttributeRecords
<1>1. u.values \in AttributeRecords /\ u.names \subseteq AttributeNames
  BY QueueAssumption
<1> QED BY <1>1 DEF Merge, AttributeRecords

\* visible_after is a time, or empty.
LEMMA VisibleAfterTyped ==
  ASSUME NEW a \in AttributeRecords, NEW r \in Requests, clock \in Nat
  PROVE  VisibleAfter(a, r) \in Nat
BY QueueAssumption DEF VisibleAfter, Capped, AttributeRecords

\* The deduplication id of a send is one of the tokens.
LEMMA DedupTyped ==
  ASSUME NEW a, NEW r \in Requests
  PROVE  DedupOf(a, r) \in Tokens
BY DEF DedupOf, Tokens

\* What a receiver selects: visible rows of its queue, and finitely many.
LEMMA SelectionFacts ==
  ASSUME IsFiniteSet(messages), NEW q, NEW now, NEW max, NEW S \in Selections(q, now, max)
  PROVE  /\ S \subseteq messages
         /\ IsFiniteSet(S)
         /\ \A m \in S : m.queue = q /\ m.visibleAfter <= now
         /\ S \subseteq Candidates(q, now)
<1>1. S \subseteq Candidates(q, now)
  BY DEF Selections
<1>2. Candidates(q, now) \subseteq Visible(q, now)
  BY DEF Candidates, Heads
<1>3. S \subseteq messages /\ \A m \in S : m.queue = q /\ m.visibleAfter <= now
  BY <1>1, <1>2 DEF Visible, RowsOf
<1> QED BY <1>1, <1>3, FS_Subset

\* A claimed row is a row, and its lease a lease.
LEMMA ClaimedTyped ==
  ASSUME NEW m \in Rows, NEW until \in Nat
  PROVE  /\ Claimed(m, until) \in Rows
         /\ Lease(m, until) \in [origin : Nat, id : Nat, queue : Queues, handle : Nat, until : Nat]
<1> DEFINE h == [m EXCEPT !.handle = m.receiveCount + 1]
           r == [h EXCEPT !.receiveCount = m.receiveCount + 1]
<1>3. h \in Rows
  BY DEF Rows
<1>4. r \in Rows
  BY <1>3 DEF Rows
<1>5. Claimed(m, until) = [r EXCEPT !.visibleAfter = until]
  BY DEF Claimed, Rows
<1>1. Claimed(m, until) \in Rows
  <2> HIDE DEF r
  <2> QED BY <1>4, <1>5 DEF Rows
<1>2. Lease(m, until) \in [origin : Nat, id : Nat, queue : Queues, handle : Nat, until : Nat]
  BY DEF Lease, Rows
<1> QED BY <1>1, <1>2

\* The row redriveMessageTx inserts: its id is new, its origin the source row's.
LEMMA RedrivenTyped ==
  ASSUME TypeOK, NEW q, NEW Dead, Dead \subseteq messages, NEW dlq \in Queues,
         NEW order \in Orders(q, Dead), NEW m \in Dead
  PROVE  /\ Redriven(dlq, m, order) \in Rows
         /\ Redriven(dlq, m, order).id \in (lastId + 1)..(lastId + Cardinality(Dead))
         /\ Redriven(dlq, m, order).origin = m.origin
         /\ Redriven(dlq, m, order).handle = 0
<1>1. m \in Rows /\ IsFiniteSet(Dead) /\ IsFiniteSet(messages) /\ messages \subseteq Rows
  BY FS_Subset DEF TypeOK
<1>2. order \in [Dead -> 1..Cardinality(Dead)] /\ Cardinality(Dead) \in Nat
  BY <1>1, FS_CardinalityType DEF Orders
<1>3. order[m] \in 1..Cardinality(Dead)
  BY <1>2
<1> DEFINE g == DlqGroup(dlq, m)
           earlier == {n \in DOMAIN order : DlqGroup(dlq, n) = g /\ order[n] < order[m]}
<1>4. g \in Groups
  BY <1>1 DEF DlqGroup, Groups, Rows
<1>5. Cardinality(earlier) \in Nat
  <2>1. earlier \subseteq Dead
    BY <1>2
  <2>2. IsFiniteSet(earlier)
    BY <1>1, <2>1, FS_Subset
  <2> QED BY <2>2, FS_CardinalityType
<1>6. NextSequence(dlq, g) \in Nat
  BY <1>1, NextSequenceIsNew
<1>7. (IF dlq \in FifoQueues /\ m.dedup = NoDedup THEN m.id ELSE m.dedup) \in Tokens
  BY <1>1 DEF Tokens, Rows
<1>8. (IF dlq \in FifoQueues THEN NextSequence(dlq, g) + Cardinality(earlier) ELSE 0) \in Nat
  BY <1>5, <1>6
<1>9. lastId \in Nat /\ clock \in Nat
  BY DEF TypeOK
<1>10. m.origin \in Nat
  BY <1>1 DEF Rows
<1>11. Redriven(dlq, m, order) =
        [id |-> lastId + order[m], origin |-> m.origin, queue |-> dlq, group |-> g,
         dedup |-> IF dlq \in FifoQueues /\ m.dedup = NoDedup THEN m.id ELSE m.dedup,
         seq |-> IF dlq \in FifoQueues THEN NextSequence(dlq, g) + Cardinality(earlier) ELSE 0,
         created |-> clock, visibleAfter |-> 0, handle |-> 0, receiveCount |-> 0]
  BY DEF Redriven
<1>12. lastId + order[m] \in (lastId + 1)..(lastId + Cardinality(Dead)) /\ lastId + order[m] \in Nat
  BY <1>2, <1>3, <1>9
<1> QED
  <2> HIDE DEF g, earlier
  <2> QED BY <1>4, <1>7, <1>8, <1>9, <1>10, <1>11, <1>12 DEF Rows

-----------------------------------------------------------------------------
\* A send's INSERT keeps the tables well typed.
LEMMA SendInsertTyped ==
  ASSUME TypeOK, NEW c \in Clients, SendInsert(c)
  PROVE  TypeOK'
<1>1. op[c] \in SendingOps
  BY OperationKinds DEF SendInsert
<1>2. op' \in [Clients -> Operations]
  BY FinishTyped DEF SendInsert
<1>3. UNCHANGED <<queues, clock, removed, leases>>
  BY DEF SendInsert
<1>4. CASE UNCHANGED <<messages, lastId, accepted>>
  BY <1>2, <1>3, <1>4 DEF TypeOK
<1>5. CASE /\ lastId' = lastId + 1
           /\ messages' = messages \cup {SentRow(c)}
           /\ accepted' = accepted \cup {[origin |-> lastId + 1, at |-> clock]}
  <2> DEFINE r == op[c].request
             fifo == r.queue \in FifoQueues
  <2>1. /\ r \in Requests /\ r.queue \in Queues
        /\ op[c].dedup \in Tokens /\ op[c].created \in Nat /\ op[c].visibleAfter \in Nat
    BY <1>1, QueueAssumption DEF SendingOps
  <2>2. NextSequence(r.queue, r.group) \in Nat
    BY NextSequenceIsNew DEF TypeOK
  <2>3. (IF fifo THEN r.group ELSE NoGroup) \in Groups
    BY <2>1 DEF Groups
  <2>4. (IF fifo THEN op[c].dedup ELSE NoDedup) \in Tokens
    BY <2>1 DEF Tokens
  <2>5. (IF fifo THEN NextSequence(r.queue, r.group) ELSE 0) \in Nat
    BY <2>2
  <2>6. lastId \in Nat /\ clock \in Nat
    BY DEF TypeOK
  <2>7. SentRow(c) \in Rows
    <3> HIDE DEF fifo
    <3> QED BY <2>1, <2>3, <2>4, <2>5, <2>6 DEF Rows, SentRow, fifo
  <2>8. messages' \subseteq Rows /\ IsFiniteSet(messages')
    BY <1>5, <2>7, FS_AddElement DEF TypeOK
  <2>9. lastId' \in Nat /\ accepted' \subseteq [origin : Nat, at : Nat]
    BY <1>5, <2>6 DEF TypeOK
  <2> QED BY <1>2, <1>3, <2>8, <2>9 DEF TypeOK
<1> QED BY <1>4, <1>5 DEF SendInsert

\* A committed receive keeps the tables well typed.
LEMMA ReceiveCommitTyped ==
  ASSUME TypeOK, NEW c \in Clients, ReceiveCommit(c)
  PROVE  TypeOK'
<1>1. op[c] \in ReceivingOps
  BY OperationKinds DEF ReceiveCommit
<1>2. op' \in [Clients -> Operations]
  BY FinishTyped DEF ReceiveCommit
<1>3. UNCHANGED <<queues, clock, accepted, removed>>
  BY DEF ReceiveCommit
<1> DEFINE q     == op[c].queue
           attrs == op[c].attrs
           until == op[c].now + attrs.visibilityTimeout
           dlq   == attrs.redrive.target
<1>4. until \in Nat /\ attrs \in AttributeRecords
  BY <1>1 DEF ReceivingOps, AttributeRecords
<1> HIDE DEF until
<1>5. PICK S \in Selections(q, op[c].now, op[c].max) :
        LET Dead == {m \in S : Exhausted(attrs, m)}
            Live == S \ Dead
        IN  IF Dead # {} /\ ~RedriveAllowed(q, dlq)
            THEN UNCHANGED <<messages, lastId, leases>>
            ELSE \E order \in Orders(q, Dead) :
                   /\ messages' = (messages \ Replaced(Live, Dead))
                                    \cup {Claimed(m, until) : m \in Live}
                                    \cup {Redriven(dlq, m, order) : m \in Dead}
                   /\ lastId' = lastId + Cardinality(Dead)
                   /\ leases' = leases \cup {Lease(m, until) : m \in Live}
  BY DEF ReceiveCommit, until
<1> DEFINE Dead == {m \in S : Exhausted(attrs, m)}
           Live == S \ Dead
<1>6. CASE UNCHANGED <<messages, lastId, leases>>
  BY <1>2, <1>3, <1>6 DEF TypeOK
<1>7. ASSUME NEW order \in Orders(q, Dead),
             messages' = (messages \ Replaced(Live, Dead))
                            \cup {Claimed(m, until) : m \in Live}
                            \cup {Redriven(dlq, m, order) : m \in Dead},
             lastId' = lastId + Cardinality(Dead),
             leases' = leases \cup {Lease(m, until) : m \in Live}
      PROVE  TypeOK'
  <2>1. /\ S \subseteq messages /\ IsFiniteSet(S)
        /\ messages \subseteq Rows /\ IsFiniteSet(messages)
    BY SelectionFacts DEF TypeOK
  <2>2. /\ Dead \subseteq messages /\ Live \subseteq messages
        /\ IsFiniteSet(Dead) /\ IsFiniteSet(Live)
    BY <2>1, FS_Subset
  <2>3. \A m \in Live : Claimed(m, until) \in Rows
    BY <1>4, <2>1, <2>2, ClaimedTyped
  <2>4. \A m \in Live : Lease(m, until)
           \in [origin : Nat, id : Nat, queue : Queues, handle : Nat, until : Nat]
    BY <1>4, <2>1, <2>2, ClaimedTyped
  <2>5. \A m \in Dead : Redriven(dlq, m, order) \in Rows
    <3>1. ASSUME NEW m \in Dead PROVE dlq \in Queues
      BY <1>4 DEF Exhausted, AttributeRecords, RedrivePolicies
    <3> QED BY <2>2, <3>1, RedrivenTyped
  <2>6. messages' \subseteq Rows
    BY <1>7, <2>1, <2>3, <2>5
  <2>7. IsFiniteSet(messages')
    <3> DEFINE A == {Claimed(m, until) : m \in Live}
               B == {Redriven(dlq, m, order) : m \in Dead}
               fa == [m \in Live |-> Claimed(m, until)]
               fb == [m \in Dead |-> Redriven(dlq, m, order)]
    <3>1. fa \in Surjection(Live, A) /\ fb \in Surjection(Dead, B)
      BY DEF Surjection
    <3>2. IsFiniteSet(A) /\ IsFiniteSet(B)
      <4> HIDE DEF A, B, fa, fb, Dead, Live
      <4> QED BY <2>2, <3>1, FS_Surjection
    <3>3. IsFiniteSet(messages \ Replaced(Live, Dead))
      BY <2>1, FS_Subset
    <3>4. messages' = (messages \ Replaced(Live, Dead)) \cup A \cup B
      BY <1>7
    <3> HIDE DEF A, B
    <3> QED BY <3>2, <3>3, <3>4, FS_Union
  <2>8. Cardinality(Dead) \in Nat
    BY <2>2, FS_CardinalityType
  <2>9. lastId' \in Nat
    BY <1>7, <2>8 DEF TypeOK
  <2>10. leases' \subseteq [origin : Nat, id : Nat, queue : Queues, handle : Nat, until : Nat]
    BY <1>7, <2>4 DEF TypeOK
  <2> QED BY <1>2, <1>3, <2>6, <2>7, <2>9, <2>10 DEF TypeOK
<1> QED BY <1>5, <1>6, <1>7

\* Every step keeps the tables and operations well typed.
LEMMA TypeStep == TypeOK /\ [Next]_vars => TypeOK'
<1> SUFFICES ASSUME TypeOK, [Next]_vars PROVE TypeOK'
  OBVIOUS
<1>1. CASE UNCHANGED vars
  BY <1>1 DEF TypeOK, vars
<1>2. CASE Tick
  BY <1>2 DEF Tick, TypeOK
<1>3. ASSUME NEW c \in Clients, NEW q \in Queues, CreateQueue(c, q) PROVE TypeOK'
  <2>1. \A a \in Attributes[q] : a \in AttributeRecords
    BY QueueAssumption
  <2> QED BY <1>3, <2>1 DEF CreateQueue, TypeOK
<1>4. ASSUME NEW c \in Clients, NEW q \in Queues, SetQueueAttributesRead(c, q) PROVE TypeOK'
  <2>1. queues[q] \in AttributeRecords
    BY <1>4 DEF SetQueueAttributesRead, TypeOK
  <2>2. PICK u \in Updates[q] :
          op' = [op EXCEPT ![c] = [kind |-> "setting", queue |-> q, names |-> u.names,
                                   attrs |-> Merge(queues[q], u)]]
    BY <1>4 DEF SetQueueAttributesRead
  <2>3. Merge(queues[q], u) \in AttributeRecords /\ u.names \subseteq AttributeNames
    BY <2>1, MergeTyped, QueueAssumption
  <2>4. [kind |-> "setting", queue |-> q, names |-> u.names, attrs |-> Merge(queues[q], u)]
           \in SettingOps
    BY <2>3 DEF SettingOps
  <2>5. op' \in [Clients -> Operations]
    BY <2>2, <2>4 DEF TypeOK, Operations
  <2> QED BY <1>4, <2>5 DEF SetQueueAttributesRead, TypeOK
<1>5. ASSUME NEW c \in Clients, SetQueueAttributesWrite(c) PROVE TypeOK'
  <2>1. op[c] \in SettingOps
    BY <1>5, OperationKinds DEF SetQueueAttributesWrite
  <2>2. op' \in [Clients -> Operations]
    BY <1>5, FinishTyped DEF SetQueueAttributesWrite
  <2>3. queues' \in [Queues -> AttributeRecords \cup {NoQueue}]
    BY <1>5, <2>1 DEF SetQueueAttributesWrite, SettingOps, TypeOK
  <2> QED BY <1>5, <2>2, <2>3 DEF SetQueueAttributesWrite, TypeOK
<1>6. ASSUME NEW c \in Clients, NEW q \in Queues, NEW k \in {"deletingQueue", "purging"},
             DropBegin(c, q, k)
      PROVE  TypeOK'
  <2>1. [kind |-> k, queue |-> q] \in DroppingOps
    BY DEF DroppingOps
  <2>2. op' \in [Clients -> Operations]
    BY <1>6, <2>1 DEF DropBegin, TypeOK, Operations
  <2> QED BY <1>6, <2>2 DEF DropBegin, TypeOK
<1>7. ASSUME NEW q \in Queues, TypeOK, DeleteAllMessages(q)
      PROVE  messages' \subseteq Rows /\ IsFiniteSet(messages') /\ removed' \subseteq Nat
  <2>1. messages' \subseteq messages
    BY <1>7 DEF DeleteAllMessages
  <2>2. {m.origin : m \in RowsOf(q)} \subseteq Nat
    BY DEF TypeOK, RowsOf, Rows
  <2> QED BY <1>7, <2>1, <2>2, FS_Subset DEF DeleteAllMessages, TypeOK
<1>8. ASSUME NEW c \in Clients, DeleteQueue(c) PROVE TypeOK'
  <2>1. op[c] \in DroppingOps
    BY <1>8, OperationKinds DEF DeleteQueue
  <2>2. op' \in [Clients -> Operations]
    BY <1>8, FinishTyped DEF DeleteQueue
  <2>3. op[c].queue \in Queues
    BY <2>1 DEF DroppingOps
  <2>4. messages' \subseteq Rows /\ IsFiniteSet(messages') /\ removed' \subseteq Nat
    BY <1>7, <1>8, <2>3 DEF DeleteQueue
  <2> QED BY <1>8, <2>2, <2>3, <2>4 DEF DeleteQueue, TypeOK
<1>9. ASSUME NEW c \in Clients, PurgeQueue(c) PROVE TypeOK'
  <2>1. op[c] \in DroppingOps
    BY <1>9, OperationKinds DEF PurgeQueue
  <2>2. op' \in [Clients -> Operations]
    BY <1>9, FinishTyped DEF PurgeQueue
  <2>3. op[c].queue \in Queues
    BY <2>1 DEF DroppingOps
  <2>4. messages' \subseteq Rows /\ IsFiniteSet(messages') /\ removed' \subseteq Nat
    BY <1>7, <1>9, <2>3 DEF PurgeQueue
  <2> QED BY <1>9, <2>2, <2>4 DEF PurgeQueue, TypeOK
<1>10. ASSUME NEW c \in Clients, NEW r \in Requests, SendSnapshot(c, r) PROVE TypeOK'
  <2>1. queues[r.queue] \in AttributeRecords
    BY <1>10, QueueAssumption DEF SendSnapshot, TypeOK
  <2>2. /\ VisibleAfter(queues[r.queue], r) \in Nat
        /\ DedupOf(queues[r.queue], r) \in Tokens
        /\ queues[r.queue].contentDedup \in BOOLEAN
    BY <2>1, VisibleAfterTyped, DedupTyped DEF TypeOK, AttributeRecords
  <2>3. [kind |-> "snapshot", request |-> r, created |-> clock,
         contentDedup |-> queues[r.queue].contentDedup,
         dedup |-> DedupOf(queues[r.queue], r),
         visibleAfter |-> VisibleAfter(queues[r.queue], r)] \in SendingOps
    BY <2>2 DEF SendingOps, TypeOK
  <2>4. op' \in [Clients -> Operations]
    BY <1>10, <2>3 DEF SendSnapshot, TypeOK, Operations
  <2> QED BY <1>10, <2>4 DEF SendSnapshot, TypeOK
<1>11. ASSUME NEW c \in Clients, SendLock(c) PROVE TypeOK'
  <2>1. op[c] \in SendingOps
    BY <1>11, OperationKinds DEF SendLock
  <2> DEFINE r == op[c].request
             attrs == queues[r.queue]
             again == r.queue \in FifoQueues /\ attrs.contentDedup # op[c].contentDedup
  <2>2. CASE Finish(c)
    BY <1>11, <2>2, FinishTyped DEF SendLock, TypeOK
  <2>3. CASE /\ attrs # NoQueue
             /\ op' = [op EXCEPT ![c] =
                        [op[c] EXCEPT !.kind = "sending",
                                  !.dedup = IF again THEN DedupOf(attrs, r) ELSE op[c].dedup,
                                  !.visibleAfter = IF again THEN VisibleAfter(attrs, r) ELSE op[c].visibleAfter]]
    <3>1. r \in Requests /\ attrs \in AttributeRecords
      BY <2>1, <2>3, QueueAssumption DEF SendingOps, TypeOK
    <3>2. VisibleAfter(attrs, r) \in Nat /\ DedupOf(attrs, r) \in Tokens
      BY <3>1, VisibleAfterTyped, DedupTyped DEF TypeOK
    <3> DEFINE d == IF again THEN DedupOf(attrs, r) ELSE op[c].dedup
               v == IF again THEN VisibleAfter(attrs, r) ELSE op[c].visibleAfter
               new == [[[op[c] EXCEPT !.kind = "sending"] EXCEPT !.dedup = d]
                           EXCEPT !.visibleAfter = v]
    <3>3. d \in Tokens /\ v \in Nat
      BY <2>1, <3>2 DEF SendingOps
    <3>4. op' = [op EXCEPT ![c] = new]
      <4>1. [op[c] EXCEPT !.kind = "sending", !.dedup = d, !.visibleAfter = v] = new
        OBVIOUS
      <4> QED BY <2>3, <4>1
    <3>5. new \in SendingOps
      <4> HIDE DEF d, v
      <4>1. [op[c] EXCEPT !.kind = "sending"] \in SendingOps
        BY <2>1 DEF SendingOps
      <4>2. [[op[c] EXCEPT !.kind = "sending"] EXCEPT !.dedup = d] \in SendingOps
        BY <3>3, <4>1 DEF SendingOps
      <4> QED BY <3>3, <4>2 DEF SendingOps
    <3>6. op' \in [Clients -> Operations]
      <4> HIDE DEF new
      <4> QED BY <3>4, <3>5 DEF TypeOK, Operations
    <3> QED BY <1>11, <3>6 DEF SendLock, TypeOK
  <2> QED BY <1>11, <2>2, <2>3 DEF SendLock
<1>12. ASSUME NEW c \in Clients, SendInsert(c) PROVE TypeOK'
  BY <1>12, SendInsertTyped
<1>13. ASSUME NEW c \in Clients, NEW q \in Queues, ReceiveLock(c, q) PROVE TypeOK'
  <2>1. queues[q] \in AttributeRecords
    BY <1>13 DEF ReceiveLock, TypeOK
  <2>2. PICK n \in 1..MaxReceive :
          op' = [op EXCEPT ![c] = [kind |-> "receiving", queue |-> q, attrs |-> queues[q],
                                   now |-> clock, max |-> n]]
    BY <1>13 DEF ReceiveLock
  <2>3. [kind |-> "receiving", queue |-> q, attrs |-> queues[q], now |-> clock, max |-> n]
           \in ReceivingOps
    BY <2>1 DEF ReceivingOps, TypeOK
  <2>4. op' \in [Clients -> Operations]
    BY <2>2, <2>3 DEF TypeOK, Operations
  <2> QED BY <1>13, <2>4 DEF ReceiveLock, TypeOK
<1>14. ASSUME NEW c \in Clients, ReceiveCommit(c) PROVE TypeOK'
  BY <1>14, ReceiveCommitTyped
<1>15. ASSUME NEW c \in Clients, NEW l \in leases, DeleteMessage(c, l) PROVE TypeOK'
  <2>1. HandleRows(l) \subseteq messages /\ messages' \subseteq messages
    BY <1>15 DEF DeleteMessage, HandleRows
  <2>2. {m.origin : m \in HandleRows(l)} \subseteq Nat
    BY <2>1 DEF TypeOK, Rows
  <2>3. messages' \subseteq Rows /\ IsFiniteSet(messages')
    BY <2>1, FS_Subset DEF TypeOK
  <2> QED BY <1>15, <2>2, <2>3 DEF DeleteMessage, TypeOK
<1>16. ASSUME NEW c \in Clients, NEW l \in leases, ChangeMessageVisibility(c, l) PROVE TypeOK'
  <2>1. PICK v \in Visibilities :
          /\ messages' = (messages \ HandleRows(l))
                           \cup {[m EXCEPT !.visibleAfter = clock + v] : m \in HandleRows(l)}
          /\ leases' = (leases \ {l}) \cup {[l EXCEPT !.until = clock + v]}
    BY <1>16 DEF ChangeMessageVisibility
  <2>2. clock + v \in Nat
    BY QueueAssumption DEF TypeOK
  <2>3. HandleRows(l) \subseteq messages /\ messages \subseteq Rows /\ IsFiniteSet(messages)
    BY DEF HandleRows, TypeOK
  <2> DEFINE B == {[m EXCEPT !.visibleAfter = clock + v] : m \in HandleRows(l)}
             f == [m \in HandleRows(l) |-> [m EXCEPT !.visibleAfter = clock + v]]
  <2>4. B \subseteq Rows
    BY <2>2, <2>3 DEF Rows
  <2>5. f \in Surjection(HandleRows(l), B)
    BY DEF Surjection
  <2>6. IsFiniteSet(B)
    <3>1. IsFiniteSet(HandleRows(l))
      BY <2>3, FS_Subset
    <3> HIDE DEF B, f
    <3> QED BY <3>1, <2>5, FS_Surjection
  <2>7. IsFiniteSet(messages \ HandleRows(l))
    BY <2>3, FS_Subset
  <2>8. messages' = (messages \ HandleRows(l)) \cup B
    BY <2>1
  <2>9. messages' \subseteq Rows /\ IsFiniteSet(messages')
    <3> HIDE DEF B
    <3> QED BY <2>3, <2>4, <2>6, <2>7, <2>8, FS_Union
  <2>10. leases' \subseteq [origin : Nat, id : Nat, queue : Queues, handle : Nat, until : Nat]
    BY <2>1, <2>2 DEF TypeOK
  <2> QED BY <1>16, <2>9, <2>10 DEF ChangeMessageVisibility, TypeOK
<1>17. ASSUME NEW c \in Clients, Abort(c) PROVE TypeOK'
  BY <1>17, FinishTyped DEF Abort, TypeOK
<1> QED
  BY <1>1, <1>2, <1>3, <1>4, <1>5, <1>6, <1>8, <1>9, <1>10, <1>11, <1>12, <1>13, <1>14,
     <1>15, <1>16, <1>17 DEF Next

\* Every variable keeps the type of the columns and locals it stands for.
THEOREM TypeCorrect == Spec => []TypeOK
<1>1. Init => TypeOK
  <2>1. IsFiniteSet({})
    BY FS_EmptySet
  <2> QED BY <2>1 DEF Init, TypeOK, Operations
<1> QED BY <1>1, TypeStep, PTL DEF Spec

-----------------------------------------------------------------------------
(***************************************************************************)
(* Exclusive delivery.  The strengthening ties every receipt handle ever   *)
(* given out to the row of the same origin: either the handle's timeout is *)
(* over, or it is the row's current handle with the row's deadline.        *)
(***************************************************************************)

\* Ids and origins handed out so far.
KnownIds ==
    /\ \A m \in messages : m.id <= lastId /\ m.origin <= lastId
    /\ \A l \in leases : l.id <= lastId /\ l.origin <= lastId

\* One row per message id and per sent message.
UniqueRows ==
    \A m, n \in messages : m.id = n.id \/ m.origin = n.origin => m = n

\* One lease per receipt handle, never ahead of its row's receive count.
UniqueHandles ==
    /\ \A k, l \in leases : k.id = l.id /\ k.handle = l.handle => k = l
    /\ \A l \in leases, m \in messages :
         l.id = m.id => l.handle <= m.receiveCount /\ l.origin = m.origin

\* A handle is over, or current.
OverOrCurrent ==
    \A l \in leases, m \in messages :
        l.origin = m.origin
          => \/ l.until <= clock
             \/ l.id = m.id /\ l.handle = m.handle /\ l.until = m.visibleAfter

\* A receiver's clock reading is not in the future.
PastReadings == \A c \in Clients : op[c].kind = "receiving" => op[c].now <= clock

DeliveryInv ==
    /\ KnownIds
    /\ UniqueRows
    /\ UniqueHandles
    /\ OverOrCurrent
    /\ PastReadings
    /\ ExclusiveDelivery

\* A handler that returns leaves the other receivers' clock readings alone.
LEMMA FinishReadings ==
  ASSUME TypeOK, PastReadings, NEW c \in Clients, Finish(c), clock' = clock
  PROVE  PastReadings'
BY DEF TypeOK, PastReadings, Finish, Idle

\* Steps that touch neither rows nor leases.
LEMMA QuietStep ==
  ASSUME DeliveryInv, UNCHANGED <<messages, clock, lastId, leases>>, PastReadings'
  PROVE  DeliveryInv'
BY DEF DeliveryInv, KnownIds, UniqueRows, UniqueHandles, OverOrCurrent, ExclusiveDelivery

\* Steps that only remove rows and leases.
LEMMA RemovingStep ==
  ASSUME DeliveryInv, messages' \subseteq messages, leases' \subseteq leases,
         UNCHANGED <<clock, lastId>>, PastReadings'
  PROVE  DeliveryInv'
BY DEF DeliveryInv, KnownIds, UniqueRows, UniqueHandles, OverOrCurrent, ExclusiveDelivery

\* Time passing ends leases and starts none.
LEMMA TickDelivery ==
  ASSUME TypeOK, DeliveryInv, Tick
  PROVE  DeliveryInv'
<1>1. clock \in Nat /\ clock' = clock + 1 /\ \A l \in leases : l.until \in Nat
  BY DEF Tick, TypeOK
<1>2. KnownIds' /\ UniqueRows' /\ UniqueHandles'
  BY DEF DeliveryInv, Tick, KnownIds, UniqueRows, UniqueHandles
<1>3. OverOrCurrent'
  BY <1>1 DEF DeliveryInv, Tick, OverOrCurrent
<1>4. PastReadings'
  <2>1. \A c \in Clients : op[c].kind = "receiving" => op[c].now \in Nat
    BY OperationKinds DEF ReceivingOps
  <2> QED BY <1>1, <2>1 DEF DeliveryInv, Tick, PastReadings
<1>5. ExclusiveDelivery'
  BY <1>1 DEF DeliveryInv, Tick, ExclusiveDelivery
<1> QED BY <1>2, <1>3, <1>4, <1>5 DEF DeliveryInv

\* A send inserts a row no lease is of.
LEMMA SendInsertDelivery ==
  ASSUME TypeOK, DeliveryInv, NEW c \in Clients, SendInsert(c)
  PROVE  DeliveryInv'
<1>1. PastReadings' /\ UNCHANGED <<clock, leases>>
  BY FinishReadings DEF SendInsert, DeliveryInv
<1>2. CASE UNCHANGED <<messages, lastId>>
  BY <1>1, <1>2, QuietStep
<1>3. CASE lastId' = lastId + 1 /\ messages' = messages \cup {SentRow(c)}
  <2> DEFINE row == SentRow(c)
  <2>1. row.id = lastId + 1 /\ row.origin = lastId + 1
    BY DEF SentRow
  <2> HIDE DEF row
  <2>2. /\ lastId \in Nat
        /\ \A m \in messages : m.id \in Nat /\ m.origin \in Nat
        /\ \A l \in leases : l.id \in Nat /\ l.origin \in Nat
    BY DEF TypeOK, Rows
  <2>3. messages' = messages \cup {row}
    BY <1>3 DEF row
  <2>4. KnownIds'
    BY <1>1, <1>3, <2>1, <2>2, <2>3 DEF DeliveryInv, KnownIds
  <2>5. /\ \A m \in messages : m.id # row.id /\ m.origin # row.origin
        /\ \A l \in leases : l.id # row.id /\ l.origin # row.origin
    BY <2>1, <2>2 DEF DeliveryInv, KnownIds
  <2>6. UniqueRows' /\ UniqueHandles' /\ OverOrCurrent'
    BY <1>1, <2>3, <2>5 DEF DeliveryInv, UniqueRows, UniqueHandles, OverOrCurrent
  <2>7. ExclusiveDelivery'
    BY <1>1 DEF DeliveryInv, ExclusiveDelivery
  <2> QED BY <1>1, <2>4, <2>6, <2>7 DEF DeliveryInv
<1> QED BY <1>2, <1>3 DEF SendInsert

\* The fields the delivery invariant looks at, in a claimed row and its lease.
LEMMA ClaimedFields ==
  ASSUME NEW m \in Rows, NEW until
  PROVE  /\ Claimed(m, until).id = m.id
         /\ Claimed(m, until).origin = m.origin
         /\ Claimed(m, until).handle = m.receiveCount + 1
         /\ Claimed(m, until).receiveCount = m.receiveCount + 1
         /\ Claimed(m, until).visibleAfter = until
         /\ Lease(m, until).id = m.id
         /\ Lease(m, until).origin = m.origin
         /\ Lease(m, until).handle = m.receiveCount + 1
         /\ Lease(m, until).until = until
BY DEF Claimed, Lease, Rows

\* A receive selects only rows whose handles are all over.
LEMMA ReceiveCommitDelivery ==
  ASSUME TypeOK, DeliveryInv, NEW c \in Clients, ReceiveCommit(c)
  PROVE  DeliveryInv'
<1>1. op[c] \in ReceivingOps
  BY OperationKinds DEF ReceiveCommit
<1>2. PastReadings' /\ clock' = clock
  BY FinishReadings DEF ReceiveCommit, DeliveryInv
<1> DEFINE q     == op[c].queue
           now   == op[c].now
           attrs == op[c].attrs
           until == now + attrs.visibilityTimeout
           dlq   == attrs.redrive.target
<1>3. until \in Nat /\ attrs \in AttributeRecords /\ now \in Nat /\ now <= clock
  BY <1>1 DEF ReceivingOps, AttributeRecords, ReceiveCommit, DeliveryInv, PastReadings
<1> HIDE DEF until
<1>4. PICK S \in Selections(q, now, op[c].max) :
        LET Dead == {m \in S : Exhausted(attrs, m)}
            Live == S \ Dead
        IN  IF Dead # {} /\ ~RedriveAllowed(q, dlq)
            THEN UNCHANGED <<messages, lastId, leases>>
            ELSE \E order \in Orders(q, Dead) :
                   /\ messages' = (messages \ Replaced(Live, Dead))
                                    \cup {Claimed(m, until) : m \in Live}
                                    \cup {Redriven(dlq, m, order) : m \in Dead}
                   /\ lastId' = lastId + Cardinality(Dead)
                   /\ leases' = leases \cup {Lease(m, until) : m \in Live}
  BY DEF ReceiveCommit, until
<1> DEFINE Dead == {m \in S : Exhausted(attrs, m)}
           Live == S \ Dead
<1>5. CASE UNCHANGED <<messages, lastId, leases>>
  BY <1>2, <1>5, QuietStep
<1>6. ASSUME NEW order \in Orders(q, Dead),
             messages' = (messages \ Replaced(Live, Dead))
                            \cup {Claimed(m, until) : m \in Live}
                            \cup {Redriven(dlq, m, order) : m \in Dead},
             lastId' = lastId + Cardinality(Dead),
             leases' = leases \cup {Lease(m, until) : m \in Live}
      PROVE  DeliveryInv'
  <2>1. /\ S \subseteq messages /\ IsFiniteSet(S) /\ messages \subseteq Rows
        /\ \A m \in S : m.visibleAfter <= now
    BY SelectionFacts DEF TypeOK
  <2>2. Dead \subseteq messages /\ Live \subseteq messages /\ Live \cap Dead = {} /\ S = Live \cup Dead
    BY <2>1
  <2>3. Cardinality(Dead) \in Nat
    BY <2>1, FS_Subset, FS_CardinalityType
  <2>4. \A m \in Dead : /\ Redriven(dlq, m, order).id \in (lastId + 1)..(lastId + Cardinality(Dead))
                        /\ Redriven(dlq, m, order).id = lastId + order[m]
                        /\ Redriven(dlq, m, order).origin = m.origin
                        /\ Redriven(dlq, m, order).handle = 0
    <3>1. ASSUME NEW m \in Dead PROVE dlq \in Queues
      BY <1>3 DEF Exhausted, AttributeRecords, RedrivePolicies
    <3>2. \A m \in Dead : Redriven(dlq, m, order).id = lastId + order[m]
      BY DEF Redriven
    <3> QED BY <2>2, <3>1, <3>2, RedrivenTyped
  <2>5. \A m, n \in Dead : lastId + order[m] = lastId + order[n] => m = n
    <3>1. order \in [Dead -> 1..Cardinality(Dead)] /\ lastId \in Nat
      BY DEF Orders, TypeOK
    <3>2. \A m, n \in Dead : order[m] = order[n] => m = n
      BY DEF Orders
    <3>3. \A m \in Dead : order[m] \in Nat
      BY <2>3, <3>1
    <3> HIDE DEF Dead
    <3> QED BY <3>1, <3>2, <3>3
  <2>6. \A m \in Live : /\ Claimed(m, until).id = m.id
                        /\ Claimed(m, until).origin = m.origin
                        /\ Claimed(m, until).handle = m.receiveCount + 1
                        /\ Claimed(m, until).receiveCount = m.receiveCount + 1
                        /\ Claimed(m, until).visibleAfter = until
                        /\ Lease(m, until).id = m.id
                        /\ Lease(m, until).origin = m.origin
                        /\ Lease(m, until).handle = m.receiveCount + 1
                        /\ Lease(m, until).until = until
    BY <2>1, <2>2, ClaimedFields
  <2>7. \A n \in messages' : \E m \in messages :
           \/ n = m /\ m \notin S
           \/ m \in Live /\ n = Claimed(m, until)
           \/ m \in Dead /\ n = Redriven(dlq, m, order)
    BY <1>6, <2>2 DEF Replaced
  <2>8. /\ lastId \in Nat /\ clock \in Nat
        /\ \A m \in messages : /\ m.id \in Nat /\ m.origin \in Nat /\ m.handle \in Nat
                               /\ m.receiveCount \in Nat /\ m.visibleAfter \in Nat
        /\ \A l \in leases : /\ l.id \in Nat /\ l.origin \in Nat /\ l.handle \in Nat
                             /\ l.until \in Nat
    BY DEF TypeOK, Rows
  \* The handles of a selected row's message are over.
  <2>9. \A m \in S, l \in leases : l.origin = m.origin => l.until <= clock
    BY <1>3, <2>1, <2>8 DEF DeliveryInv, OverOrCurrent
  <2> HIDE DEF Dead, Live
  <2>10. KnownIds'
    <3>1. \A n \in messages' : n.id <= lastId' /\ n.origin <= lastId'
      BY <1>6, <2>3, <2>4, <2>6, <2>7, <2>8 DEF DeliveryInv, KnownIds
    <3>2. \A l \in leases' : l.id <= lastId' /\ l.origin <= lastId'
      BY <1>6, <2>2, <2>3, <2>6, <2>8 DEF DeliveryInv, KnownIds
    <3> QED BY <3>1, <3>2 DEF KnownIds
  <2>11. UniqueRows'
    <3> SUFFICES ASSUME NEW n1 \in messages', NEW n2 \in messages',
                        n1.id = n2.id \/ n1.origin = n2.origin
                 PROVE  n1 = n2
      BY DEF UniqueRows
    <3>1. PICK m1 \in messages : \/ n1 = m1 /\ m1 \notin S
                                 \/ m1 \in Live /\ n1 = Claimed(m1, until)
                                 \/ m1 \in Dead /\ n1 = Redriven(dlq, m1, order)
      BY <2>7
    <3>2. PICK m2 \in messages : \/ n2 = m2 /\ m2 \notin S
                                 \/ m2 \in Live /\ n2 = Claimed(m2, until)
                                 \/ m2 \in Dead /\ n2 = Redriven(dlq, m2, order)
      BY <2>7
    <3>3. n1.origin = m1.origin /\ n2.origin = m2.origin
      BY <3>1, <3>2, <2>4, <2>6
    <3>4. m1 = m2
      <4>1. CASE n1.origin = n2.origin
        BY <4>1, <3>3 DEF DeliveryInv, UniqueRows
      <4>2. CASE n1.id = n2.id
        <5>1. /\ m1 \notin Dead => n1.id = m1.id
              /\ m2 \notin Dead => n2.id = m2.id
          BY <3>1, <3>2, <2>6
        <5>2. /\ m1 \in Dead => n1.id = lastId + order[m1] /\ n1.id > lastId
              /\ m2 \in Dead => n2.id = lastId + order[m2] /\ n2.id > lastId
          BY <3>1, <3>2, <2>2, <2>3, <2>4, <2>8
        <5>3. m1.id <= lastId /\ m2.id <= lastId
          BY DEF DeliveryInv, KnownIds
        <5>4. m1 \in Dead <=> m2 \in Dead
          BY <4>2, <5>1, <5>2, <5>3, <2>8
        <5> QED BY <4>2, <5>1, <5>2, <5>4, <2>5 DEF DeliveryInv, UniqueRows
      <4> QED BY <4>1, <4>2
    <3> QED BY <3>1, <3>2, <3>4, <2>2
  <2>12. UniqueHandles'
    <3>1. ASSUME NEW k \in leases', NEW l \in leases', k.id = l.id, k.handle = l.handle
          PROVE  k = l
      <4>1. ASSUME NEW x \in leases, NEW m \in Live, x.id = m.id, x.handle = m.receiveCount + 1
            PROVE  FALSE
        BY <4>1, <2>2, <2>8 DEF DeliveryInv, UniqueHandles
      <4>2. ASSUME NEW m \in Live, NEW n \in Live, m.id = n.id PROVE m = n
        BY <4>2, <2>2 DEF DeliveryInv, UniqueRows
      <4>3. \A x \in leases' : x \in leases \/ \E m \in Live : x = Lease(m, until)
        BY <1>6
      <4> QED BY <3>1, <4>1, <4>2, <4>3, <2>6 DEF DeliveryInv, UniqueHandles
    <3>2. ASSUME NEW l \in leases', NEW n \in messages', l.id = n.id
          PROVE  l.handle <= n.receiveCount /\ l.origin = n.origin
      <4>1. PICK m \in messages : \/ n = m /\ m \notin S
                                  \/ m \in Live /\ n = Claimed(m, until)
                                  \/ m \in Dead /\ n = Redriven(dlq, m, order)
        BY <2>7
      <4>2. l \in leases \/ \E x \in Live : l = Lease(x, until)
        BY <1>6
      <4>3. l.id <= lastId
        BY <4>2, <2>2, <2>6 DEF DeliveryInv, KnownIds
      <4>4. m \notin Dead
        BY <3>2, <4>1, <4>3, <2>2, <2>3, <2>4, <2>8
      <4>5. n.id = m.id /\ n.origin = m.origin
        BY <4>1, <4>4, <2>6
      <4>6. CASE l \in leases
        <5>1. l.handle <= m.receiveCount /\ l.origin = m.origin
          BY <3>2, <4>5, <4>6 DEF DeliveryInv, UniqueHandles
        <5>2. n.receiveCount = m.receiveCount \/ n.receiveCount = m.receiveCount + 1
          BY <4>1, <4>4, <2>6
        <5> QED BY <4>5, <4>6, <5>1, <5>2, <2>8
      <4>7. CASE \E x \in Live : l = Lease(x, until)
        <5>1. PICK x \in Live : l = Lease(x, until)
          BY <4>7
        <5>2. x = m
          BY <3>2, <4>5, <5>1, <2>2, <2>6 DEF DeliveryInv, UniqueRows
        <5>3. n = Claimed(m, until)
          BY <4>1, <4>4, <5>1, <5>2, <2>2
        <5> QED BY <5>1, <5>2, <5>3, <2>2, <2>6, <2>8
      <4> QED BY <4>2, <4>6, <4>7
    <3> QED BY <3>1, <3>2 DEF UniqueHandles
  <2>13. OverOrCurrent'
    <3> SUFFICES ASSUME NEW l \in leases', NEW n \in messages', l.origin = n.origin
                 PROVE  \/ l.until <= clock
                        \/ l.id = n.id /\ l.handle = n.handle /\ l.until = n.visibleAfter
      BY <1>2 DEF OverOrCurrent
    <3>1. PICK m \in messages : \/ n = m /\ m \notin S
                                \/ m \in Live /\ n = Claimed(m, until)
                                \/ m \in Dead /\ n = Redriven(dlq, m, order)
      BY <2>7
    <3>2. n.origin = m.origin
      BY <3>1, <2>4, <2>6
    <3>3. l \in leases \/ \E x \in Live : l = Lease(x, until)
      BY <1>6
    <3>4. CASE l \in leases
      <4>1. CASE m \in S
        BY <3>2, <3>4, <4>1, <2>9
      <4>2. CASE m \notin S
        BY <3>1, <3>4, <4>2, <2>2 DEF DeliveryInv, OverOrCurrent
      <4> QED BY <4>1, <4>2
    <3>5. CASE \E x \in Live : l = Lease(x, until)
      <4>1. PICK x \in Live : l = Lease(x, until)
        BY <3>5
      <4>2. x = m
        BY <3>2, <4>1, <2>2, <2>6 DEF DeliveryInv, UniqueRows
      <4>3. n = Claimed(m, until)
        BY <3>1, <4>1, <4>2, <2>2
      <4> QED BY <4>1, <4>2, <4>3, <2>6
    <3> QED BY <3>3, <3>4, <3>5
  <2>14. ExclusiveDelivery'
    <3> SUFFICES ASSUME NEW k \in leases', NEW l \in leases', k.origin = l.origin,
                        k.until > clock, l.until > clock
                 PROVE  k.id = l.id /\ k.handle = l.handle
      BY <1>2 DEF ExclusiveDelivery
    <3>1. \A x \in leases' : x \in leases \/ \E m \in Live : x = Lease(m, until)
      BY <1>6
    <3>2. ASSUME NEW x \in leases, NEW m \in Live, x.origin = m.origin
          PROVE  x.until <= clock
      BY <3>2, <2>2, <2>9
    <3>3. CASE k \in leases /\ l \in leases
      BY <3>3 DEF DeliveryInv, ExclusiveDelivery
    <3>4. CASE k \in leases /\ l \notin leases
      BY <3>1, <3>2, <3>4, <2>6, <2>8
    <3>5. CASE k \notin leases /\ l \in leases
      BY <3>1, <3>2, <3>5, <2>6, <2>8
    <3>6. CASE k \notin leases /\ l \notin leases
      BY <3>1, <3>6, <2>2, <2>6 DEF DeliveryInv, UniqueRows
    <3> QED BY <3>3, <3>4, <3>5, <3>6
  <2> QED BY <1>2, <2>10, <2>11, <2>12, <2>13, <2>14 DEF DeliveryInv
<1> QED BY <1>4, <1>5, <1>6

\* A visibility change moves the deadline of the current handle only.
LEMMA ChangeVisibilityDelivery ==
  ASSUME TypeOK, DeliveryInv, NEW c \in Clients, NEW l \in leases, ChangeMessageVisibility(c, l)
  PROVE  DeliveryInv'
<1>1. PICK v \in Visibilities :
        /\ messages' = (messages \ HandleRows(l))
                         \cup {[m EXCEPT !.visibleAfter = clock + v] : m \in HandleRows(l)}
        /\ leases' = (leases \ {l}) \cup {[l EXCEPT !.until = clock + v]}
  BY DEF ChangeMessageVisibility
<1>2. UNCHANGED <<clock, lastId, op>>
  BY DEF ChangeMessageVisibility
<1>3. PICK r \in HandleRows(l) : TRUE
  BY DEF ChangeMessageVisibility
<1>4. r \in messages /\ r.id = l.id /\ r.handle = l.handle /\ r.origin = l.origin
  BY <1>3 DEF HandleRows, DeliveryInv, UniqueHandles
<1>5. HandleRows(l) = {r}
  BY <1>3, <1>4 DEF HandleRows, DeliveryInv, UniqueRows
<1> DEFINE r2 == [r EXCEPT !.visibleAfter = clock + v]
           l2 == [l EXCEPT !.until = clock + v]
<1>6. messages' = (messages \ {r}) \cup {r2} /\ leases' = (leases \ {l}) \cup {l2}
  BY <1>1, <1>5
<1>7. /\ r2.id = r.id /\ r2.origin = r.origin /\ r2.handle = r.handle
      /\ r2.receiveCount = r.receiveCount /\ r2.visibleAfter = clock + v
  BY <1>4 DEF TypeOK, Rows
<1>8. l2.id = l.id /\ l2.origin = l.origin /\ l2.handle = l.handle /\ l2.until = clock + v
  BY DEF TypeOK
<1> HIDE DEF r2, l2
\* Every other handle of the same message is over.
<1>9. \A k \in leases \ {l} : k.origin = l.origin => k.until <= clock
  BY <1>4 DEF DeliveryInv, OverOrCurrent, UniqueHandles
<1>10. KnownIds'
  BY <1>2, <1>4, <1>6, <1>7, <1>8 DEF DeliveryInv, KnownIds
<1>11. UniqueRows'
  BY <1>4, <1>6, <1>7 DEF DeliveryInv, UniqueRows
<1>12. UniqueHandles'
  BY <1>4, <1>6, <1>7, <1>8 DEF DeliveryInv, UniqueHandles
<1>13. OverOrCurrent'
  <2> SUFFICES ASSUME NEW k \in leases', NEW n \in messages', k.origin = n.origin
               PROVE  \/ k.until <= clock
                      \/ k.id = n.id /\ k.handle = n.handle /\ k.until = n.visibleAfter
    BY <1>2 DEF OverOrCurrent
  <2>1. CASE k = l2 /\ n = r2
    BY <2>1, <1>4, <1>7, <1>8
  <2>2. CASE k = l2 /\ n # r2
    BY <2>2, <1>4, <1>6, <1>8 DEF DeliveryInv, UniqueRows
  <2>3. CASE k # l2 /\ n = r2
    BY <2>3, <1>4, <1>6, <1>7, <1>9
  <2>4. CASE k # l2 /\ n # r2
    BY <2>4, <1>6 DEF DeliveryInv, OverOrCurrent
  <2> QED BY <2>1, <2>2, <2>3, <2>4
<1>14. PastReadings'
  BY <1>2 DEF DeliveryInv, PastReadings
<1>15. ExclusiveDelivery'
  <2>1. \A k \in leases : k.until \in Nat /\ clock \in Nat
    BY DEF TypeOK
  <2> QED BY <1>2, <1>6, <1>8, <1>9, <2>1 DEF DeliveryInv, ExclusiveDelivery
<1> QED BY <1>10, <1>11, <1>12, <1>13, <1>14, <1>15 DEF DeliveryInv

\* Every step keeps the delivery invariant.
LEMMA DeliveryStep == TypeOK /\ DeliveryInv /\ [Next]_vars => DeliveryInv'
<1> SUFFICES ASSUME TypeOK, DeliveryInv, [Next]_vars PROVE DeliveryInv'
  OBVIOUS
<1>1. CASE UNCHANGED vars
  <2>1. PastReadings'
    BY <1>1 DEF vars, DeliveryInv, PastReadings
  <2> QED BY <1>1, <2>1, QuietStep DEF vars
<1>2. CASE Tick
  BY <1>2, TickDelivery
\* An operation that starts, other than a receive, reads no clock.
<1>3. ASSUME NEW c \in Clients, NEW x, x.kind # "receiving" \/ x.now = clock,
             op' = [op EXCEPT ![c] = x], clock' = clock
      PROVE  PastReadings'
  <2>1. op'[c] = x /\ \A d \in Clients \ {c} : op'[d] = op[d]
    BY <1>3 DEF TypeOK
  <2>2. clock \in Nat
    BY DEF TypeOK
  <2> QED BY <1>3, <2>1, <2>2 DEF DeliveryInv, PastReadings
<1>4. ASSUME NEW c \in Clients, NEW q \in Queues, CreateQueue(c, q) PROVE DeliveryInv'
  <2>1. PastReadings'
    BY <1>4 DEF CreateQueue, DeliveryInv, PastReadings
  <2> QED BY <1>4, <2>1, QuietStep DEF CreateQueue
<1>5. ASSUME NEW c \in Clients, NEW q \in Queues, SetQueueAttributesRead(c, q) PROVE DeliveryInv'
  <2>1. PastReadings'
    BY <1>3, <1>5 DEF SetQueueAttributesRead
  <2> QED BY <1>5, <2>1, QuietStep DEF SetQueueAttributesRead
<1>6. ASSUME NEW c \in Clients, SetQueueAttributesWrite(c) PROVE DeliveryInv'
  <2>1. PastReadings'
    BY <1>6, FinishReadings DEF SetQueueAttributesWrite, DeliveryInv
  <2> QED BY <1>6, <2>1, QuietStep DEF SetQueueAttributesWrite
<1>7. ASSUME NEW c \in Clients, NEW q \in Queues, NEW k \in {"deletingQueue", "purging"},
             DropBegin(c, q, k)
      PROVE  DeliveryInv'
  <2>1. PastReadings'
    BY <1>3, <1>7 DEF DropBegin
  <2> QED BY <1>7, <2>1, QuietStep DEF DropBegin
<1>8. ASSUME NEW c \in Clients, DeleteQueue(c) \/ PurgeQueue(c) PROVE DeliveryInv'
  <2>1. PastReadings'
    BY <1>8, FinishReadings DEF DeleteQueue, PurgeQueue, DeliveryInv
  <2>2. messages' \subseteq messages /\ UNCHANGED <<clock, lastId, leases>>
    BY <1>8 DEF DeleteQueue, PurgeQueue, DeleteAllMessages
  <2> QED BY <2>1, <2>2, RemovingStep
<1>9. ASSUME NEW c \in Clients, NEW r \in Requests, SendSnapshot(c, r) PROVE DeliveryInv'
  <2>1. PastReadings'
    BY <1>3, <1>9 DEF SendSnapshot
  <2> QED BY <1>9, <2>1, QuietStep DEF SendSnapshot
<1>10. ASSUME NEW c \in Clients, SendLock(c) PROVE DeliveryInv'
  <2>1. CASE Finish(c)
    <3>1. PastReadings'
      BY <1>10, <2>1, FinishReadings DEF SendLock, DeliveryInv
    <3> QED BY <1>10, <3>1, QuietStep DEF SendLock
  <2>2. CASE \E d, v : op' = [op EXCEPT ![c] = [op[c] EXCEPT !.kind = "sending", !.dedup = d,
                                                             !.visibleAfter = v]]
    <3>1. PICK d, v : op' = [op EXCEPT ![c] = [op[c] EXCEPT !.kind = "sending", !.dedup = d,
                                                            !.visibleAfter = v]]
      BY <2>2
    <3>2. op[c] \in SendingOps
      BY <1>10, OperationKinds DEF SendLock
    <3>3. [op[c] EXCEPT !.kind = "sending", !.dedup = d, !.visibleAfter = v].kind = "sending"
      BY <3>2 DEF SendingOps
    <3>4. PastReadings'
      BY <1>3, <1>10, <3>1, <3>3 DEF SendLock
    <3> QED BY <1>10, <3>4, QuietStep DEF SendLock
  <2> QED BY <1>10, <2>1, <2>2 DEF SendLock
<1>11. ASSUME NEW c \in Clients, SendInsert(c) PROVE DeliveryInv'
  BY <1>11, SendInsertDelivery
<1>12. ASSUME NEW c \in Clients, NEW q \in Queues, ReceiveLock(c, q) PROVE DeliveryInv'
  <2>1. PastReadings'
    BY <1>3, <1>12 DEF ReceiveLock
  <2> QED BY <1>12, <2>1, QuietStep DEF ReceiveLock
<1>13. ASSUME NEW c \in Clients, ReceiveCommit(c) PROVE DeliveryInv'
  BY <1>13, ReceiveCommitDelivery
<1>14. ASSUME NEW c \in Clients, NEW l \in leases, DeleteMessage(c, l) PROVE DeliveryInv'
  <2>1. PastReadings'
    BY <1>14 DEF DeleteMessage, DeliveryInv, PastReadings
  <2> QED BY <1>14, <2>1, RemovingStep DEF DeleteMessage
<1>15. ASSUME NEW c \in Clients, NEW l \in leases, ChangeMessageVisibility(c, l) PROVE DeliveryInv'
  BY <1>15, ChangeVisibilityDelivery
<1>16. ASSUME NEW c \in Clients, Abort(c) PROVE DeliveryInv'
  <2>1. PastReadings'
    BY <1>16, FinishReadings DEF Abort, DeliveryInv
  <2> QED BY <1>16, <2>1, QuietStep DEF Abort
<1> QED
  BY <1>1, <1>2, <1>4, <1>5, <1>6, <1>7, <1>8, <1>9, <1>10, <1>11, <1>12, <1>13, <1>14,
     <1>15, <1>16 DEF Next

\* The delivery invariant holds throughout.
LEMMA DeliveryInvariant == Spec => []DeliveryInv
<1>1. Init => DeliveryInv
  BY DEF Init, DeliveryInv, KnownIds, UniqueRows, UniqueHandles, OverOrCurrent, PastReadings,
         ExclusiveDelivery, Idle
<1> QED BY <1>1, TypeCorrect, DeliveryStep, PTL DEF Spec

\* Of all the receipt handles ever given out for one sent message, redrives
\* included, at most one is inside its visibility timeout ("concurrent receivers
\* cannot deliver the same message twice", ReceiveMessages).
THEOREM ExclusiveDeliveryHolds == Spec => []ExclusiveDelivery
BY DeliveryInvariant, PTL DEF DeliveryInv

-----------------------------------------------------------------------------
(***************************************************************************)
(* What the steps do to rows, leases and ids, for the invariants below.    *)
(***************************************************************************)

\* Steps that touch no row, lease, id or record of what was accepted or removed.
Untouched == UNCHANGED <<messages, lastId, accepted, removed, leases>>

\* Steps that take rows away, record their origins as removed, and take leases away.
Dropped ==
    /\ messages' \subseteq messages
    /\ removed' = removed \cup {m.origin : m \in messages \ messages'}
    /\ leases' \subseteq leases
    /\ UNCHANGED <<lastId, accepted>>

\* The exhausted rows among those a receiver selects.
DeadOf(c, S) == {m \in S : Exhausted(op[c].attrs, m)}

Until(c) == op[c].now + op[c].attrs.visibilityTimeout

\* A receive that commits the selection S, meeting its exhausted rows in that order.
Commits(c, S, order) ==
    /\ S \in Selections(op[c].queue, op[c].now, op[c].max)
    /\ order \in Orders(op[c].queue, DeadOf(c, S))
    /\ messages' = (messages \ S)
                     \cup {Claimed(m, Until(c)) : m \in S \ DeadOf(c, S)}
                     \cup {Redriven(op[c].attrs.redrive.target, m, order) : m \in DeadOf(c, S)}
    /\ lastId' = lastId + Cardinality(DeadOf(c, S))
    /\ leases' = leases \cup {Lease(m, Until(c)) : m \in S \ DeadOf(c, S)}
    /\ UNCHANGED <<clock, accepted, removed>>

\* Every step leaves the rows alone, only removes some, or is one of three operations.
LEMMA StepCases ==
  ASSUME [Next]_vars
  PROVE  \/ Untouched
         \/ Dropped
         \/ \E c \in Clients : SendInsert(c)
         \/ \E c \in Clients : ReceiveCommit(c)
         \/ \E c \in Clients, l \in leases : ChangeMessageVisibility(c, l)
<1>1. CASE UNCHANGED vars
  BY <1>1 DEF vars, Untouched
<1>2. CASE Tick
  BY <1>2 DEF Tick, Untouched
<1>3. ASSUME NEW c \in Clients, NEW q \in Queues,
             \/ CreateQueue(c, q) \/ SetQueueAttributesRead(c, q) \/ ReceiveLock(c, q)
             \/ DropBegin(c, q, "deletingQueue") \/ DropBegin(c, q, "purging")
      PROVE  Untouched
  BY <1>3 DEF CreateQueue, SetQueueAttributesRead, DropBegin, ReceiveLock, Untouched
<1>4. ASSUME NEW c \in Clients,
             \/ SetQueueAttributesWrite(c) \/ SendLock(c) \/ Abort(c)
             \/ \E r \in Requests : SendSnapshot(c, r)
      PROVE  Untouched
  BY <1>4 DEF SendSnapshot, SetQueueAttributesWrite, SendLock, Abort, Untouched
<1>5. ASSUME NEW c \in Clients, DeleteQueue(c) \/ PurgeQueue(c) PROVE Dropped
  <2>1. DeleteAllMessages(op[c].queue) /\ UNCHANGED <<lastId, accepted, leases>>
    BY <1>5 DEF DeleteQueue, PurgeQueue
  <2>2. messages \ messages' = RowsOf(op[c].queue) /\ messages' \subseteq messages
    BY <2>1 DEF DeleteAllMessages, RowsOf
  <2> QED BY <2>1, <2>2 DEF DeleteAllMessages, Dropped
<1>6. ASSUME NEW c \in Clients, NEW l \in leases, DeleteMessage(c, l) PROVE Dropped
  <2>1. messages \ messages' = HandleRows(l) /\ messages' \subseteq messages
    BY <1>6 DEF DeleteMessage, HandleRows
  <2> QED BY <1>6, <2>1 DEF DeleteMessage, Dropped
<1> QED BY <1>1, <1>2, <1>3, <1>4, <1>5, <1>6 DEF Next

\* A receive commits a selection, or changes nothing but its own operation.
LEMMA ReceiveCases ==
  ASSUME NEW c \in Clients, ReceiveCommit(c)
  PROVE  Untouched \/ \E S, order : Commits(c, S, order)
<1> DEFINE dlq == op[c].attrs.redrive.target
<1>1. PICK S \in Selections(op[c].queue, op[c].now, op[c].max) :
        LET Dead == DeadOf(c, S)
            Live == S \ Dead
        IN  IF Dead # {} /\ ~RedriveAllowed(op[c].queue, dlq)
            THEN UNCHANGED <<messages, lastId, leases>>
            ELSE \E order \in Orders(op[c].queue, Dead) :
                   /\ messages' = (messages \ Replaced(Live, Dead))
                                    \cup {Claimed(m, Until(c)) : m \in Live}
                                    \cup {Redriven(dlq, m, order) : m \in Dead}
                   /\ lastId' = lastId + Cardinality(Dead)
                   /\ leases' = leases \cup {Lease(m, Until(c)) : m \in Live}
  BY DEF ReceiveCommit, DeadOf, Until
<1>2. UNCHANGED <<clock, accepted, removed>>
  BY DEF ReceiveCommit
<1>3. Replaced(S \ DeadOf(c, S), DeadOf(c, S)) = S
  BY DEF Replaced, DeadOf
<1> QED BY <1>1, <1>2, <1>3 DEF Untouched, Commits

\* The selection of a receive that commits: finitely many live rows of the receiver's queue.
LEMMA CommittedSelection ==
  ASSUME TypeOK, NEW c \in Clients, ReceiveCommit(c), NEW S, NEW order, Commits(c, S, order)
  PROVE  /\ op[c] \in ReceivingOps
         /\ S \subseteq messages /\ S \subseteq Candidates(op[c].queue, op[c].now)
         /\ \A m \in S : m.queue = op[c].queue /\ m.visibleAfter <= op[c].now
         /\ DeadOf(c, S) \subseteq S /\ IsFiniteSet(DeadOf(c, S))
         /\ Cardinality(DeadOf(c, S)) \in Nat /\ lastId' \in Nat /\ lastId' >= lastId
         /\ \A m \in DeadOf(c, S) : /\ order[m] \in Nat \ {0}
                                    /\ op[c].attrs.redrive \in RedrivePolicies \ {NoRedrive}
                                    /\ op[c].attrs.redrive.target \in Queues
<1>1. op[c] \in ReceivingOps
  BY OperationKinds DEF ReceiveCommit
<1>2. /\ S \subseteq messages /\ IsFiniteSet(S) /\ S \subseteq Candidates(op[c].queue, op[c].now)
      /\ \A m \in S : m.queue = op[c].queue /\ m.visibleAfter <= op[c].now
  BY SelectionFacts DEF TypeOK, Commits
<1>3. DeadOf(c, S) \subseteq S
  BY DEF DeadOf
<1>4. IsFiniteSet(DeadOf(c, S)) /\ Cardinality(DeadOf(c, S)) \in Nat
  BY <1>2, <1>3, FS_Subset, FS_CardinalityType
<1>5. lastId' \in Nat /\ lastId' >= lastId
  BY <1>4 DEF TypeOK, Commits
<1>6. \A m \in DeadOf(c, S) : order[m] \in Nat \ {0}
  <2>1. order \in [DeadOf(c, S) -> 1..Cardinality(DeadOf(c, S))]
    BY DEF Commits, Orders
  <2> QED BY <1>4, <2>1
<1>7. ASSUME NEW m \in DeadOf(c, S)
      PROVE  /\ op[c].attrs.redrive \in RedrivePolicies \ {NoRedrive}
             /\ op[c].attrs.redrive.target \in Queues
  BY <1>1, <1>7 DEF DeadOf, Exhausted, ReceivingOps, AttributeRecords, RedrivePolicies
<1> QED BY <1>1, <1>2, <1>3, <1>4, <1>5, <1>6, <1>7

\* Where a row comes from when a receive commits: it was not selected, is a claimed
\* row, or is the replacement of an exhausted one; and every row has such a successor.
LEMMA CommittedRows ==
  ASSUME TypeOK, NEW c \in Clients, ReceiveCommit(c), NEW S, NEW order, Commits(c, S, order)
  PROVE  /\ \A n \in messages' : \E m \in messages :
               \/ n = m /\ m \notin S
               \/ m \in S \ DeadOf(c, S) /\ n = Claimed(m, Until(c))
               \/ m \in DeadOf(c, S) /\ n = Redriven(op[c].attrs.redrive.target, m, order)
         /\ \A m \in messages : \E n \in messages' : n.origin = m.origin
         /\ \A n \in messages' : \E m \in messages : n.origin = m.origin
<1>1. S \subseteq messages /\ messages \subseteq Rows /\ DeadOf(c, S) \subseteq S
  BY CommittedSelection DEF TypeOK
<1>2. \A n \in messages' : \E m \in messages :
           \/ n = m /\ m \notin S
           \/ m \in S \ DeadOf(c, S) /\ n = Claimed(m, Until(c))
           \/ m \in DeadOf(c, S) /\ n = Redriven(op[c].attrs.redrive.target, m, order)
  BY <1>1 DEF Commits
<1>3. /\ \A m \in S : Claimed(m, Until(c)).origin = m.origin
      /\ \A m : Redriven(op[c].attrs.redrive.target, m, order).origin = m.origin
  BY <1>1, ClaimedFields DEF Redriven
<1>4. ASSUME NEW m \in messages PROVE \E n \in messages' : n.origin = m.origin
  <2>1. CASE m \notin S
    BY <2>1 DEF Commits
  <2>2. CASE m \in S \ DeadOf(c, S)
    BY <1>3, <2>2 DEF Commits
  <2>3. CASE m \in DeadOf(c, S)
    BY <1>3, <2>3 DEF Commits
  <2> QED BY <2>1, <2>2, <2>3
<1> QED BY <1>1, <1>2, <1>3, <1>4

\* A visibility change moves the deadline of the one row of its handle, and of the
\* lease, and changes nothing else of either.
LEMMA ChangedRows ==
  ASSUME TypeOK, NEW c \in Clients, NEW l \in leases, ChangeMessageVisibility(c, l)
  PROVE  /\ \A n \in messages' : \E m \in messages :
               /\ n.id = m.id /\ n.origin = m.origin /\ n.queue = m.queue /\ n.group = m.group
               /\ n.dedup = m.dedup /\ n.seq = m.seq /\ n.created = m.created
               /\ n.handle = m.handle
               /\ n = m \/ (m.id = l.id /\ m.queue = l.queue /\ m.handle = l.handle)
         /\ \A m \in messages : \E n \in messages' : n.origin = m.origin
         /\ \A k \in leases' : \E j \in leases :
               k.id = j.id /\ k.queue = j.queue /\ k.handle = j.handle
<1>1. PICK v \in Visibilities :
        /\ messages' = (messages \ HandleRows(l))
                         \cup {[m EXCEPT !.visibleAfter = clock + v] : m \in HandleRows(l)}
        /\ leases' = (leases \ {l}) \cup {[l EXCEPT !.until = clock + v]}
  BY DEF ChangeMessageVisibility
<1> DEFINE moved(m) == [m EXCEPT !.visibleAfter = clock + v]
<1>2. \A m \in messages :
         /\ moved(m).id = m.id /\ moved(m).origin = m.origin /\ moved(m).queue = m.queue
         /\ moved(m).group = m.group /\ moved(m).dedup = m.dedup /\ moved(m).seq = m.seq
         /\ moved(m).created = m.created /\ moved(m).handle = m.handle
  BY DEF TypeOK, Rows
<1>3. /\ HandleRows(l) \subseteq messages
      /\ \A m \in HandleRows(l) : m.id = l.id /\ m.queue = l.queue /\ m.handle = l.handle
  BY DEF HandleRows
<1>4. messages' = (messages \ HandleRows(l)) \cup {moved(m) : m \in HandleRows(l)}
  BY <1>1
<1> HIDE DEF moved
<1>5. ASSUME NEW n \in messages'
      PROVE  \E m \in messages :
               /\ n.id = m.id /\ n.origin = m.origin /\ n.queue = m.queue /\ n.group = m.group
               /\ n.dedup = m.dedup /\ n.seq = m.seq /\ n.created = m.created
               /\ n.handle = m.handle
               /\ n = m \/ (m.id = l.id /\ m.queue = l.queue /\ m.handle = l.handle)
  <2>1. CASE n \in messages
    <3> WITNESS n \in messages
    <3> QED OBVIOUS
  <2>2. CASE n \notin messages
    <3>1. PICK m \in HandleRows(l) : n = moved(m)
      BY <1>4, <2>2
    <3>2. m \in messages
      BY <1>3
    <3> WITNESS m \in messages
    <3> QED BY <1>2, <1>3, <3>1, <3>2
  <2> QED BY <2>1, <2>2
<1>6. ASSUME NEW m \in messages PROVE \E n \in messages' : n.origin = m.origin
  <2>1. CASE m \in HandleRows(l)
    BY <1>2, <1>4, <2>1
  <2>2. CASE m \notin HandleRows(l)
    BY <1>4, <2>2
  <2> QED BY <2>1, <2>2
<1>7. ASSUME NEW k \in leases'
      PROVE  \E j \in leases : k.id = j.id /\ k.queue = j.queue /\ k.handle = j.handle
  <2>1. LET k2 == [l EXCEPT !.until = clock + v]
        IN  k2.id = l.id /\ k2.queue = l.queue /\ k2.handle = l.handle
    BY DEF TypeOK
  <2> QED BY <1>1, <2>1
<1> QED BY <1>5, <1>6, <1>7

\* What a step does to a queue's row: it leaves or drops it, creates it with attributes
\* CreateQueue may store, or writes what a SetQueueAttributes had merged.
LEMMA QueueStep ==
  ASSUME TypeOK, [Next]_vars, NEW q \in Queues
  PROVE  \/ queues'[q] = queues[q]
         \/ queues'[q] = NoQueue
         \/ queues'[q] \in Attributes[q]
         \/ \E c \in Clients : op[c].kind = "setting" /\ op[c].queue = q /\ queues'[q] = op[c].attrs
<1>1. CASE UNCHANGED queues
  BY <1>1
<1>2. ASSUME NEW c \in Clients, NEW p \in Queues, CreateQueue(c, p)
      PROVE  queues'[q] = queues[q] \/ queues'[q] \in Attributes[q]
  BY <1>2 DEF CreateQueue, TypeOK
<1>3. ASSUME NEW c \in Clients, SetQueueAttributesWrite(c)
      PROVE  \/ queues'[q] = queues[q]
             \/ op[c].kind = "setting" /\ op[c].queue = q /\ queues'[q] = op[c].attrs
  BY <1>3 DEF SetQueueAttributesWrite, TypeOK
<1>4. ASSUME NEW c \in Clients, DeleteQueue(c) PROVE queues'[q] = queues[q] \/ queues'[q] = NoQueue
  BY <1>4 DEF DeleteQueue, TypeOK
<1>5. ASSUME NEW c \in Clients, NEW p \in Queues,
             \/ SetQueueAttributesRead(c, p) \/ DropBegin(c, p, "deletingQueue")
             \/ DropBegin(c, p, "purging") \/ ReceiveLock(c, p)
      PROVE  UNCHANGED queues
  BY <1>5 DEF SetQueueAttributesRead, DropBegin, ReceiveLock
<1>6. ASSUME NEW c \in Clients,
             \/ PurgeQueue(c) \/ SendLock(c) \/ SendInsert(c) \/ ReceiveCommit(c) \/ Abort(c)
             \/ \E r \in Requests : SendSnapshot(c, r)
             \/ \E l \in leases : DeleteMessage(c, l) \/ ChangeMessageVisibility(c, l)
      PROVE  UNCHANGED queues
  BY <1>6 DEF PurgeQueue, SendLock, SendInsert, ReceiveCommit, Abort, SendSnapshot,
              DeleteMessage, ChangeMessageVisibility
<1>7. Tick \/ UNCHANGED vars => UNCHANGED queues
  BY DEF Tick, vars
<1> QED
  BY <1>1, <1>2, <1>3, <1>4, <1>5, <1>6, <1>7 DEF Next

\* What a step does to a client's operation: it keeps, ends or starts it, or takes a
\* send past sqsMu.
LEMMA OperationStep ==
  ASSUME TypeOK, [Next]_vars, NEW c \in Clients
  PROVE  \/ op'[c] = op[c]
         \/ op'[c] = Idle
         \/ op'[c].kind \in {"deletingQueue", "purging"}
         \/ \E q \in Queues : \E u \in Updates[q] :
               /\ queues[q] # NoQueue
               /\ op'[c] = [kind |-> "setting", queue |-> q, names |-> u.names,
                            attrs |-> Merge(queues[q], u)]
         \/ \E q \in Queues, n \in 1..MaxReceive :
               /\ queues[q] # NoQueue
               /\ op'[c] = [kind |-> "receiving", queue |-> q, attrs |-> queues[q],
                            now |-> clock, max |-> n]
         \/ \E r \in Requests :
               /\ queues[r.queue] # NoQueue /\ FieldsPresent(queues[r.queue], r)
               /\ op'[c].kind = "snapshot" /\ op'[c].request = r
               /\ op'[c].visibleAfter = VisibleAfter(queues[r.queue], r)
         \/ /\ op[c].kind = "snapshot" /\ op'[c].kind = "sending"
            /\ op'[c].request = op[c].request
            /\ \/ op'[c].visibleAfter = op[c].visibleAfter
               \/ /\ queues[op[c].request.queue] # NoQueue
                  /\ op'[c].visibleAfter = VisibleAfter(queues[op[c].request.queue], op[c].request)
<1>1. \A d \in Clients : \A x : op' = [op EXCEPT ![d] = x] => op'[c] = op[c] \/ (c = d /\ op'[c] = x)
  BY DEF TypeOK
<1>2. CASE UNCHANGED op
  BY <1>2
<1>3. ASSUME NEW d \in Clients, Finish(d) PROVE op'[c] = op[c] \/ op'[c] = Idle
  BY <1>1, <1>3 DEF Finish
<1>4. ASSUME NEW d \in Clients, NEW q \in Queues, SetQueueAttributesRead(d, q)
      PROVE  \/ op'[c] = op[c]
             \/ \E u \in Updates[q] :
                  /\ queues[q] # NoQueue
                  /\ op'[c] = [kind |-> "setting", queue |-> q, names |-> u.names,
                               attrs |-> Merge(queues[q], u)]
  BY <1>1, <1>4 DEF SetQueueAttributesRead
<1>5. ASSUME NEW d \in Clients, NEW q \in Queues, NEW k \in {"deletingQueue", "purging"},
             DropBegin(d, q, k)
      PROVE  op'[c] = op[c] \/ op'[c].kind \in {"deletingQueue", "purging"}
  BY <1>1, <1>5 DEF DropBegin
<1>6. ASSUME NEW d \in Clients, NEW q \in Queues, ReceiveLock(d, q)
      PROVE  \/ op'[c] = op[c]
             \/ \E n \in 1..MaxReceive :
                  /\ queues[q] # NoQueue
                  /\ op'[c] = [kind |-> "receiving", queue |-> q, attrs |-> queues[q],
                               now |-> clock, max |-> n]
  BY <1>1, <1>6 DEF ReceiveLock
<1>7. ASSUME NEW d \in Clients, NEW r \in Requests, SendSnapshot(d, r)
      PROVE  \/ op'[c] = op[c]
             \/ /\ queues[r.queue] # NoQueue /\ FieldsPresent(queues[r.queue], r)
                /\ op'[c].kind = "snapshot" /\ op'[c].request = r
                /\ op'[c].visibleAfter = VisibleAfter(queues[r.queue], r)
  BY <1>1, <1>7 DEF SendSnapshot
<1>8. ASSUME NEW d \in Clients, SendLock(d)
      PROVE  \/ op'[c] = op[c]
             \/ op'[c] = Idle
             \/ /\ op[c].kind = "snapshot" /\ op'[c].kind = "sending"
                /\ op'[c].request = op[c].request
                /\ \/ op'[c].visibleAfter = op[c].visibleAfter
                   \/ /\ queues[op[c].request.queue] # NoQueue
                      /\ op'[c].visibleAfter = VisibleAfter(queues[op[c].request.queue], op[c].request)
  <2> DEFINE r == op[d].request
             attrs == queues[r.queue]
             again == r.queue \in FifoQueues /\ attrs.contentDedup # op[d].contentDedup
             dd == IF again THEN DedupOf(attrs, r) ELSE op[d].dedup
             v == IF again THEN VisibleAfter(attrs, r) ELSE op[d].visibleAfter
             new == [op[d] EXCEPT !.kind = "sending", !.dedup = dd, !.visibleAfter = v]
  <2>1. CASE Finish(d)
    BY <1>3, <2>1
  <2>2. CASE attrs # NoQueue /\ op' = [op EXCEPT ![d] = new]
    <3>1. op[d] \in SendingOps
      BY <1>8, OperationKinds DEF SendLock
    <3>2. new.kind = "sending" /\ new.request = r /\ new.visibleAfter = v
      <4> HIDE DEF dd, v
      <4> QED BY <3>1 DEF SendingOps
    <3>3. op'[c] = op[c] \/ (c = d /\ op'[c] = new)
      BY <1>1, <2>2
    <3> HIDE DEF new
    <3> QED BY <1>8, <2>2, <3>2, <3>3 DEF SendLock
  <2> QED BY <1>8, <2>1, <2>2 DEF SendLock
<1>9. ASSUME NEW d \in Clients,
             \/ SetQueueAttributesWrite(d) \/ DeleteQueue(d) \/ PurgeQueue(d) \/ SendInsert(d)
             \/ ReceiveCommit(d) \/ Abort(d)
      PROVE  op'[c] = op[c] \/ op'[c] = Idle
  BY <1>3, <1>9 DEF SetQueueAttributesWrite, DeleteQueue, PurgeQueue, SendInsert, ReceiveCommit, Abort
<1>10. ASSUME NEW d \in Clients, NEW q \in Queues, CreateQueue(d, q) PROVE UNCHANGED op
  BY <1>10 DEF CreateQueue
<1>11. ASSUME NEW d \in Clients, NEW l \in leases,
              DeleteMessage(d, l) \/ ChangeMessageVisibility(d, l)
       PROVE  UNCHANGED op
  BY <1>11 DEF DeleteMessage, ChangeMessageVisibility
<1>12. Tick \/ UNCHANGED vars => UNCHANGED op
  BY DEF Tick, vars
<1>13. CASE \E d \in Clients : \E q \in Queues :
              \/ CreateQueue(d, q) \/ SetQueueAttributesRead(d, q)
              \/ DropBegin(d, q, "deletingQueue") \/ DropBegin(d, q, "purging")
              \/ ReceiveLock(d, q)
  BY <1>2, <1>4, <1>5, <1>6, <1>10, <1>13
<1>14. CASE \E d \in Clients : \E r \in Requests : SendSnapshot(d, r)
  BY <1>7, <1>14
<1>15. CASE \E d \in Clients : SendLock(d)
  BY <1>8, <1>15
<1> QED
  BY <1>2, <1>9, <1>11, <1>12, <1>13, <1>14, <1>15 DEF Next

\* An operation that a step starts as a SetQueueAttributes, a receive or a send.
LEMMA StartedOperation ==
  ASSUME TypeOK, [Next]_vars, NEW c \in Clients, op'[c] # op[c]
  PROVE  /\ op'[c].kind = "setting" =>
               \E q \in Queues : \E u \in Updates[q] :
                  queues[q] # NoQueue /\ op'[c].queue = q /\ op'[c].attrs = Merge(queues[q], u)
         /\ op'[c].kind = "receiving" =>
               \E q \in Queues :
                  queues[q] # NoQueue /\ op'[c].queue = q /\ op'[c].attrs = queues[q]
         /\ op'[c].kind \in {"snapshot", "sending"} =>
               \/ \E r \in Requests :
                    /\ queues[r.queue] # NoQueue /\ FieldsPresent(queues[r.queue], r)
                    /\ op'[c].request = r
                    /\ op'[c].visibleAfter = VisibleAfter(queues[r.queue], r)
               \/ /\ op[c].kind = "snapshot" /\ op'[c].request = op[c].request
                  /\ \/ op'[c].visibleAfter = op[c].visibleAfter
                     \/ /\ queues[op[c].request.queue] # NoQueue
                        /\ op'[c].visibleAfter
                             = VisibleAfter(queues[op[c].request.queue], op[c].request)
<1>1. CASE op'[c] = Idle \/ op'[c].kind \in {"deletingQueue", "purging"}
  BY <1>1 DEF Idle
<1>2. CASE \E q \in Queues : \E u \in Updates[q] :
              /\ queues[q] # NoQueue
              /\ op'[c] = [kind |-> "setting", queue |-> q, names |-> u.names,
                           attrs |-> Merge(queues[q], u)]
  <2>1. PICK q \in Queues : \E u \in Updates[q] :
              /\ queues[q] # NoQueue
              /\ op'[c] = [kind |-> "setting", queue |-> q, names |-> u.names,
                           attrs |-> Merge(queues[q], u)]
    BY <1>2
  <2>2. PICK u \in Updates[q] :
           op'[c].kind = "setting" /\ op'[c].queue = q /\ op'[c].attrs = Merge(queues[q], u)
    BY <2>1
  <2> QED BY <2>1, <2>2
<1>3. CASE \E q \in Queues, n \in 1..MaxReceive :
              /\ queues[q] # NoQueue
              /\ op'[c] = [kind |-> "receiving", queue |-> q, attrs |-> queues[q],
                           now |-> clock, max |-> n]
  <2>1. PICK q \in Queues : queues[q] # NoQueue /\ \E n : op'[c] =
              [kind |-> "receiving", queue |-> q, attrs |-> queues[q], now |-> clock, max |-> n]
    BY <1>3
  <2>2. op'[c].kind = "receiving" /\ op'[c].queue = q /\ op'[c].attrs = queues[q]
    BY <2>1
  <2> QED BY <2>1, <2>2
<1>4. CASE \E r \in Requests :
              /\ queues[r.queue] # NoQueue /\ FieldsPresent(queues[r.queue], r)
              /\ op'[c].kind = "snapshot" /\ op'[c].request = r
              /\ op'[c].visibleAfter = VisibleAfter(queues[r.queue], r)
  BY <1>4
<1>5. CASE /\ op[c].kind = "snapshot" /\ op'[c].kind = "sending"
           /\ op'[c].request = op[c].request
           /\ \/ op'[c].visibleAfter = op[c].visibleAfter
              \/ /\ queues[op[c].request.queue] # NoQueue
                 /\ op'[c].visibleAfter = VisibleAfter(queues[op[c].request.queue], op[c].request)
  BY <1>5
<1> QED BY <1>1, <1>2, <1>3, <1>4, <1>5, OperationStep

-----------------------------------------------------------------------------
(***************************************************************************)
(* Nothing lost or duplicated.                                             *)
(***************************************************************************)

\* The ids handed out so far number the accepted and the removed messages; every row
\* is of an accepted message that was not removed; every other accepted message has one.
Booked ==
    /\ \A a \in accepted : a.origin <= lastId
    /\ \A o \in removed : o <= lastId
    /\ \A m \in messages : m.origin \notin removed /\ \E a \in accepted : a.origin = m.origin
    /\ \A a \in accepted : a.origin \in removed \/ \E m \in messages : m.origin = a.origin

\* What was accepted, removed and is still in a row keeps tallying.
LEMMA BookedStep == TypeOK /\ DeliveryInv /\ Booked /\ [Next]_vars => Booked'
<1> SUFFICES ASSUME TypeOK, DeliveryInv, Booked, [Next]_vars PROVE Booked'
  OBVIOUS
<1>1. /\ lastId \in Nat /\ \A m \in messages : m.origin \in Nat
      /\ \A a \in accepted : a.origin \in Nat
      /\ \A o \in removed : o \in Nat
  BY DEF TypeOK, Rows
<1>2. CASE Untouched
  BY <1>2 DEF Booked, Untouched
\* One row per origin, so that an origin removed has no other row.
<1>3. CASE Dropped
  <2>1. \A m \in messages' : m.origin \notin removed'
    BY <1>3 DEF Dropped, Booked, DeliveryInv, UniqueRows
  <2>2. \A o \in removed' : o <= lastId'
    BY <1>3 DEF Dropped, Booked, DeliveryInv, KnownIds
  <2>3. \A a \in accepted' : a.origin \in removed' \/ \E m \in messages' : m.origin = a.origin
    BY <1>3 DEF Dropped, Booked
  <2> QED BY <1>3, <2>1, <2>2, <2>3 DEF Dropped, Booked
<1>4. ASSUME NEW c \in Clients, SendInsert(c) PROVE Booked'
  <2>1. CASE UNCHANGED <<messages, lastId, accepted>>
    BY <1>4, <2>1 DEF SendInsert, Booked
  <2>2. CASE /\ lastId' = lastId + 1
             /\ messages' = messages \cup {SentRow(c)}
             /\ accepted' = accepted \cup {[origin |-> lastId + 1, at |-> clock]}
    <3>1. SentRow(c).origin = lastId + 1 /\ removed' = removed
      BY <1>4 DEF SentRow, SendInsert
    <3>2. lastId + 1 \notin removed /\ lastId <= lastId' /\ lastId' \in Nat
      BY <1>1, <2>2 DEF Booked
    <3>3. \A n \in Nat : n <= lastId => n <= lastId'
      BY <1>1, <2>2
    <3>4. /\ \A a \in accepted' : a.origin <= lastId'
          /\ \A o \in removed' : o <= lastId'
      BY <1>1, <2>2, <3>1, <3>3 DEF Booked
    <3>5. \A m \in messages' : m.origin \notin removed' /\ \E a \in accepted' : a.origin = m.origin
      <4> DEFINE new == [origin |-> lastId + 1, at |-> clock]
      <4>1. new \in accepted' /\ new.origin = lastId + 1
        BY <2>2
      <4> HIDE DEF new
      <4> QED BY <2>2, <3>1, <3>2, <4>1 DEF Booked
    <3>6. \A a \in accepted' : a.origin \in removed' \/ \E m \in messages' : m.origin = a.origin
      <4>1. \A a \in accepted' : a \in accepted \/ a.origin = lastId + 1
        BY <2>2
      <4> QED BY <2>2, <3>1, <4>1 DEF Booked
    <3> QED BY <3>4, <3>5, <3>6 DEF Booked
  <2> QED BY <1>4, <2>1, <2>2 DEF SendInsert
\* The rows a receive replaces and those it puts in their place have the same origins.
<1>5. ASSUME NEW c \in Clients, ReceiveCommit(c) PROVE Booked'
  <2>1. CASE \E S, order : Commits(c, S, order)
    <3>1. PICK S, order : Commits(c, S, order)
      BY <2>1
    <3>2. UNCHANGED <<accepted, removed>> /\ lastId' \in Nat /\ lastId' >= lastId
      BY <1>5, <3>1, CommittedSelection DEF Commits
    <3>3. /\ \A m \in messages : \E n \in messages' : n.origin = m.origin
          /\ \A n \in messages' : \E m \in messages : n.origin = m.origin
      BY <1>5, <3>1, CommittedRows
    <3>4. \A n \in Nat : n <= lastId => n <= lastId'
      BY <1>1, <3>2
    <3> QED BY <1>1, <3>2, <3>3, <3>4 DEF Booked
  <2> QED BY <1>2, <1>5, <2>1, ReceiveCases
<1>6. ASSUME NEW c \in Clients, NEW l \in leases, ChangeMessageVisibility(c, l) PROVE Booked'
  <2>1. /\ \A n \in messages' : \E m \in messages : n.origin = m.origin
        /\ \A m \in messages : \E n \in messages' : n.origin = m.origin
    BY <1>6, ChangedRows
  <2>2. UNCHANGED <<lastId, accepted, removed>>
    BY <1>6 DEF ChangeMessageVisibility
  <2> QED BY <2>1, <2>2 DEF Booked
<1> QED BY <1>2, <1>3, <1>4, <1>5, <1>6, StepCases

\* The tally of accepted and removed messages and rows holds throughout.
LEMMA BookedInvariant == Spec => []Booked
<1>1. Init => Booked
  BY DEF Init, Booked
<1> QED BY <1>1, TypeCorrect, DeliveryInvariant, BookedStep, PTL DEF Spec

\* A message that was accepted is in exactly one row, of one queue, until a client
\* deletes it or purges or deletes its queue, and in none afterwards: the redrive of
\* ReceiveMessages neither drops nor copies it, and a delete with a late handle, a
\* rollback or a queue deleted under a receive does not bring it back.
THEOREM NothingLostOrDuplicatedHolds == Spec => []NothingLostOrDuplicated
<1>1. TypeOK /\ DeliveryInv /\ Booked => NothingLostOrDuplicated
  <2> SUFFICES ASSUME TypeOK, DeliveryInv, Booked, NEW a \in accepted
               PROVE  Cardinality({m \in messages : m.origin = a.origin})
                        = IF a.origin \in removed THEN 0 ELSE 1
    BY DEF NothingLostOrDuplicated, Booked
  <2>1. CASE a.origin \in removed
    <3>1. {m \in messages : m.origin = a.origin} = {}
      BY <2>1 DEF Booked
    <3> QED BY <2>1, <3>1, FS_EmptySet
  <2>2. CASE a.origin \notin removed
    <3>1. PICK m \in messages : m.origin = a.origin
      BY <2>2 DEF Booked
    <3>2. {n \in messages : n.origin = a.origin} = {m}
      BY <3>1 DEF DeliveryInv, UniqueRows
    <3> QED BY <2>2, <3>2, FS_Singleton
  <2> QED BY <2>1, <2>2
<1> QED BY <1>1, TypeCorrect, DeliveryInvariant, BookedInvariant, PTL

-----------------------------------------------------------------------------
(***************************************************************************)
(* Deduplication.                                                          *)
(***************************************************************************)

\* The fields of a row that only its INSERT sets, in the rows a receive leaves.
LEMMA CommittedStatic ==
  ASSUME TypeOK, DeliveryInv, NEW c \in Clients, ReceiveCommit(c), NEW S, NEW order,
         Commits(c, S, order), NEW n \in messages'
  PROVE  \/ n.id # n.origin
         \/ \E m \in messages : /\ n.id = m.id /\ n.origin = m.origin /\ n.queue = m.queue
                                /\ n.dedup = m.dedup /\ n.created = m.created
<1>1. PICK m \in messages :
         \/ n = m /\ m \notin S
         \/ m \in S \ DeadOf(c, S) /\ n = Claimed(m, Until(c))
         \/ m \in DeadOf(c, S) /\ n = Redriven(op[c].attrs.redrive.target, m, order)
  BY CommittedRows
<1>2. CASE n = m
  BY <1>2
<1>3. CASE n = Claimed(m, Until(c))
  BY <1>3 DEF Claimed, TypeOK, Rows
<1>4. CASE m \in DeadOf(c, S) /\ n = Redriven(op[c].attrs.redrive.target, m, order)
  <2>1. n.id = lastId + order[m] /\ n.origin = m.origin
    BY <1>4 DEF Redriven
  <2>2. order[m] \in Nat \ {0} /\ lastId \in Nat
    BY <1>4, CommittedSelection DEF TypeOK
  <2>3. m.origin <= lastId /\ m.origin \in Nat
    BY DEF DeliveryInv, KnownIds, TypeOK, Rows
  <2> QED BY <2>1, <2>2, <2>3
<1> QED BY <1>1, <1>2, <1>3, <1>4

\* Only a send makes a row whose id is its origin, and it has looked for duplicates.
LEMMA DeduplicationStep ==
  TypeOK /\ DeliveryInv /\ Booked /\ DeduplicatedInWindow /\ [Next]_vars => DeduplicatedInWindow'
<1> SUFFICES ASSUME TypeOK, DeliveryInv, Booked, DeduplicatedInWindow, [Next]_vars
             PROVE  DeduplicatedInWindow'
  OBVIOUS
<1>1. CASE Untouched
  BY <1>1 DEF Untouched, DeduplicatedInWindow
<1>2. CASE Dropped
  BY <1>2 DEF Dropped, DeduplicatedInWindow
<1>3. ASSUME NEW c \in Clients, SendInsert(c) PROVE DeduplicatedInWindow'
  <2>1. CASE UNCHANGED <<messages, accepted>>
    BY <2>1 DEF DeduplicatedInWindow
  <2>2. CASE /\ ~ (op[c].request.queue \in FifoQueues /\ Duplicate(op[c].request.queue, op[c].dedup))
             /\ messages' = messages \cup {SentRow(c)}
             /\ accepted' = accepted \cup {[origin |-> lastId + 1, at |-> clock]}
    <3> DEFINE row == SentRow(c)
    <3>1. /\ row.id = lastId + 1 /\ row.origin = lastId + 1 /\ row.queue = op[c].request.queue
          /\ row.queue \in FifoQueues => row.dedup = op[c].dedup
      BY DEF SentRow
    <3> HIDE DEF row
    <3>2. messages' = messages \cup {row}
      BY <2>2 DEF row
    <3>3. /\ lastId \in Nat /\ clock \in Nat
          /\ \A m \in messages : m.id \in Nat /\ m.origin \in Nat /\ m.created \in Nat
          /\ \A a \in accepted : a.origin \in Nat
      BY DEF TypeOK, Rows
    <3>4. /\ \A m \in messages : m.id <= lastId /\ m.origin <= lastId
          /\ \A a \in accepted : a.origin <= lastId
      BY DEF DeliveryInv, KnownIds, Booked
    <3> SUFFICES ASSUME NEW m \in messages', NEW n \in messages', NEW a \in accepted',
                        m.queue = n.queue, m.queue \in FifoQueues, m.dedup = n.dedup,
                        m.id = m.origin, n.id = n.origin, m.id < n.id, a.origin = n.origin
                 PROVE  m.created + DedupWindow < a.at
      BY DEF DeduplicatedInWindow
    <3>5. m \in messages
      BY <3>1, <3>2, <3>3, <3>4
    <3>6. CASE n \in messages
      <4>1. a \in accepted
        BY <2>2, <3>3, <3>4, <3>6
      <4> QED BY <3>5, <3>6, <4>1 DEF DeduplicatedInWindow
    <3>7. CASE n = row
      <4>1. a.at = clock
        BY <2>2, <3>1, <3>3, <3>4, <3>7
      <4>2. ~ Duplicate(row.queue, row.dedup)
        BY <2>2, <3>1, <3>7
      <4>3. ~ (m.created >= clock - DedupWindow)
        BY <3>5, <3>7, <4>2 DEF Duplicate
      <4> QED BY <3>3, <3>5, <4>1, <4>3, QueueAssumption
    <3> QED BY <3>2, <3>6, <3>7
  <2> QED BY <1>3, <2>1, <2>2 DEF SendInsert
<1>4. ASSUME NEW c \in Clients, ReceiveCommit(c) PROVE DeduplicatedInWindow'
  <2>1. CASE \E S, order : Commits(c, S, order)
    <3>1. PICK S, order : Commits(c, S, order)
      BY <2>1
    <3>2. \A n \in messages' : n.id = n.origin =>
             \E m \in messages : /\ n.id = m.id /\ n.origin = m.origin /\ n.queue = m.queue
                                 /\ n.dedup = m.dedup /\ n.created = m.created
      BY <1>4, <3>1, CommittedStatic
    <3>3. accepted' = accepted
      BY <3>1 DEF Commits
    <3> SUFFICES ASSUME NEW m \in messages', NEW n \in messages', NEW a \in accepted,
                        m.queue = n.queue, m.queue \in FifoQueues, m.dedup = n.dedup,
                        m.id = m.origin, n.id = n.origin, m.id < n.id, a.origin = n.origin
                 PROVE  m.created + DedupWindow < a.at
      BY <3>3 DEF DeduplicatedInWindow
    <3>4. PICK m1 \in messages : /\ m.id = m1.id /\ m.origin = m1.origin /\ m.queue = m1.queue
                                 /\ m.dedup = m1.dedup /\ m.created = m1.created
      BY <3>2
    <3>5. PICK n1 \in messages : /\ n.id = n1.id /\ n.origin = n1.origin /\ n.queue = n1.queue
                                 /\ n.dedup = n1.dedup
      BY <3>2
    <3> QED BY <3>4, <3>5 DEF DeduplicatedInWindow
  <2> QED BY <1>1, <1>4, <2>1, ReceiveCases
<1>5. ASSUME NEW c \in Clients, NEW l \in leases, ChangeMessageVisibility(c, l)
      PROVE  DeduplicatedInWindow'
  <2>1. \A n \in messages' : \E m \in messages :
             /\ n.id = m.id /\ n.origin = m.origin /\ n.queue = m.queue
             /\ n.dedup = m.dedup /\ n.created = m.created
    BY <1>5, ChangedRows
  <2>2. accepted' = accepted
    BY <1>5 DEF ChangeMessageVisibility
  <2> QED BY <2>1, <2>2 DEF DeduplicatedInWindow
<1> QED BY <1>1, <1>2, <1>3, <1>4, <1>5, StepCases

\* While a message sent to a FIFO queue is there, a second one of its deduplication id
\* is accepted only after the window of the first, although the id is derived before
\* sqsMu is taken and the queue's content-based deduplication may flip in between.
THEOREM DeduplicatedInWindowHolds == Spec => []DeduplicatedInWindow
<1>1. Init => DeduplicatedInWindow
  BY DEF Init, DeduplicatedInWindow
<1> QED BY <1>1, TypeCorrect, DeliveryInvariant, BookedInvariant, DeduplicationStep, PTL DEF Spec

-----------------------------------------------------------------------------
(***************************************************************************)
(* Deliveries of a queue with a redrive policy.                            *)
(***************************************************************************)

\* The attributes redrive within every number of receives q is sure to redrive within.
Redriving(q, attrs) ==
    \A k \in Nat : AlwaysRedrives(q, k) => attrs.redrive # NoRedrive /\ attrs.redrive.max <= k

\* The policies a queue has, and a receiver has read, are policies the queue may have.
PoliciesKept ==
    /\ \A q \in Queues : queues[q] # NoQueue => Redriving(q, queues[q])
    /\ \A c \in Clients :
         /\ op[c].kind = "setting" => Updates[op[c].queue] # {}
         /\ op[c].kind = "receiving" => Redriving(op[c].queue, op[c].attrs)

\* The handles of a message are numbered from 1, of its queue, and no higher than the
\* number of receives the queue is sure to redrive within.
Counted ==
    /\ \A l \in leases : l.handle >= 1
    /\ \A l \in leases, k \in Nat : AlwaysRedrives(l.queue, k) => l.handle <= k
    /\ \A k, l \in leases : k.id = l.id => k.queue = l.queue
    /\ \A l \in leases, m \in messages : l.id = m.id => l.queue = m.queue

\* No request changes the policy of a queue that has no updates, or of a receive.
LEMMA PoliciesStep == TypeOK /\ PoliciesKept /\ [Next]_vars => PoliciesKept'
<1> SUFFICES ASSUME TypeOK, PoliciesKept, [Next]_vars PROVE PoliciesKept'
  OBVIOUS
<1>1. ASSUME NEW q \in Queues, queues'[q] # NoQueue PROVE Redriving(q, queues'[q])
  <2>1. CASE queues'[q] = queues[q]
    BY <1>1, <2>1 DEF PoliciesKept
  <2>2. CASE queues'[q] \in Attributes[q]
    BY <2>2 DEF Redriving, AlwaysRedrives
  <2>3. CASE \E c \in Clients : op[c].kind = "setting" /\ op[c].queue = q
    BY <2>3 DEF PoliciesKept, Redriving, AlwaysRedrives
  <2> QED BY <1>1, <2>1, <2>2, <2>3, QueueStep
<1>2. ASSUME NEW c \in Clients
      PROVE  /\ op'[c].kind = "setting" => Updates[op'[c].queue] # {}
             /\ op'[c].kind = "receiving" => Redriving(op'[c].queue, op'[c].attrs)
  <2>1. CASE op'[c] = op[c]
    BY <2>1 DEF PoliciesKept
  <2>2. CASE op'[c].kind = "setting" /\ op'[c] # op[c]
    BY <2>2, StartedOperation
  <2>3. CASE op'[c].kind = "receiving" /\ op'[c] # op[c]
    <3>1. PICK q \in Queues : queues[q] # NoQueue /\ op'[c].queue = q /\ op'[c].attrs = queues[q]
      BY <2>3, StartedOperation
    <3> QED BY <2>3, <3>1 DEF PoliciesKept
  <2> QED BY <2>1, <2>2, <2>3
<1> QED BY <1>1, <1>2 DEF PoliciesKept

\* A receive hands out the next handle of a message, and none past the policy.
LEMMA CountedStep == TypeOK /\ DeliveryInv /\ PoliciesKept /\ Counted /\ [Next]_vars => Counted'
<1> SUFFICES ASSUME TypeOK, DeliveryInv, PoliciesKept, Counted, [Next]_vars PROVE Counted'
  OBVIOUS
<1>1. CASE Untouched
  BY <1>1 DEF Untouched, Counted
<1>2. CASE Dropped
  BY <1>2 DEF Dropped, Counted
<1>3. ASSUME NEW c \in Clients, SendInsert(c) PROVE Counted'
  <2>1. CASE UNCHANGED messages
    BY <1>3, <2>1 DEF SendInsert, Counted
  <2>2. CASE messages' = messages \cup {SentRow(c)}
    <3>1. SentRow(c).id = lastId + 1
      BY DEF SentRow
    <3>2. \A l \in leases : l.id # SentRow(c).id
      BY <3>1 DEF DeliveryInv, KnownIds, TypeOK
    <3> QED BY <1>3, <2>2, <3>2 DEF SendInsert, Counted
  <2> QED BY <1>3, <2>1, <2>2 DEF SendInsert
<1>4. ASSUME NEW c \in Clients, ReceiveCommit(c) PROVE Counted'
  <2>1. CASE \E S, order : Commits(c, S, order)
    <3>1. PICK S, order : Commits(c, S, order)
      BY <2>1
    <3> DEFINE Live == S \ DeadOf(c, S)
    <3>2. /\ op[c] \in ReceivingOps /\ S \subseteq messages /\ messages \subseteq Rows
          /\ \A m \in S : m.queue = op[c].queue
      BY <1>4, <3>1, CommittedSelection DEF TypeOK
    <3>3. \A m \in Live : /\ Lease(m, Until(c)).id = m.id
                          /\ Lease(m, Until(c)).queue = m.queue
                          /\ Lease(m, Until(c)).handle = m.receiveCount + 1
                          /\ m.receiveCount \in Nat /\ m \in messages
      BY <3>2 DEF Lease, Rows
    <3>4. \A l \in leases' : l \in leases \/ \E m \in Live : l = Lease(m, Until(c))
      BY <3>1 DEF Commits
    \* A row that is claimed had receives left under the policy the receiver read.
    <3>5. ASSUME NEW m \in Live, NEW k \in Nat, AlwaysRedrives(m.queue, k)
          PROVE  m.receiveCount + 1 <= k
      <4>1. op[c].attrs.redrive # NoRedrive /\ op[c].attrs.redrive.max <= k
        BY <1>4, <3>2, <3>5 DEF PoliciesKept, Redriving, ReceiveCommit
      <4>2. op[c].attrs.redrive.max \in Nat
        BY <3>2, <4>1 DEF ReceivingOps, AttributeRecords, RedrivePolicies
      <4>3. ~ (m.receiveCount + 1 > op[c].attrs.redrive.max)
        BY <4>1 DEF DeadOf, Exhausted
      <4> QED BY <3>3, <4>1, <4>2, <4>3
    <3>6. ASSUME NEW n \in messages', n.id <= lastId
          PROVE  \E m \in messages : n.id = m.id /\ n.queue = m.queue
      <4>1. PICK m \in messages :
               \/ n = m /\ m \notin S
               \/ m \in Live /\ n = Claimed(m, Until(c))
               \/ m \in DeadOf(c, S) /\ n = Redriven(op[c].attrs.redrive.target, m, order)
        BY <1>4, <3>1, CommittedRows
      <4>2. CASE n = m
        BY <4>2
      <4>3. CASE n = Claimed(m, Until(c))
        BY <4>3 DEF Claimed, TypeOK, Rows
      <4>4. CASE m \in DeadOf(c, S) /\ n = Redriven(op[c].attrs.redrive.target, m, order)
        <5>1. n.id = lastId + order[m]
          BY <4>4 DEF Redriven
        <5>2. order[m] \in Nat \ {0} /\ lastId \in Nat
          BY <1>4, <3>1, <4>4, CommittedSelection DEF TypeOK
        <5> QED BY <3>6, <5>1, <5>2
      <4> QED BY <4>1, <4>2, <4>3, <4>4
    <3>7. \A l \in leases' : l.id <= lastId
      BY <3>3, <3>4 DEF DeliveryInv, KnownIds
    <3> HIDE DEF Live
    <3>8. \A l \in leases' : l.handle >= 1
      BY <3>3, <3>4 DEF Counted
    <3>9. \A l \in leases', k \in Nat : AlwaysRedrives(l.queue, k) => l.handle <= k
      BY <3>3, <3>4, <3>5 DEF Counted
    <3>10. ASSUME NEW k \in leases', NEW l \in leases', k.id = l.id PROVE k.queue = l.queue
      <4>1. \A x \in leases' : x \in leases \/ \E m \in messages : x.id = m.id /\ x.queue = m.queue
        BY <3>3, <3>4
      <4> QED BY <3>10, <4>1 DEF Counted, DeliveryInv, UniqueRows
    <3>11. ASSUME NEW l \in leases', NEW n \in messages', l.id = n.id PROVE l.queue = n.queue
      <4>1. \A x \in leases' : x \in leases \/ \E m \in messages : x.id = m.id /\ x.queue = m.queue
        BY <3>3, <3>4
      <4>2. PICK m \in messages : n.id = m.id /\ n.queue = m.queue
        BY <3>6, <3>7, <3>11
      <4> QED BY <3>11, <4>1, <4>2 DEF Counted, DeliveryInv, UniqueRows
    <3> QED BY <3>8, <3>9, <3>10, <3>11 DEF Counted
  <2> QED BY <1>1, <1>4, <2>1, ReceiveCases
<1>5. ASSUME NEW c \in Clients, NEW l \in leases, ChangeMessageVisibility(c, l) PROVE Counted'
  <2>1. \A n \in messages' : \E m \in messages : n.id = m.id /\ n.queue = m.queue
    BY <1>5, ChangedRows
  <2>2. \A k \in leases' : \E j \in leases :
             k.id = j.id /\ k.queue = j.queue /\ k.handle = j.handle
    BY <1>5, ChangedRows
  <2> QED BY <2>1, <2>2 DEF Counted
<1> QED BY <1>1, <1>2, <1>3, <1>4, <1>5, StepCases

\* Handles are numbered within the policy throughout.
LEMMA CountedInvariant == Spec => [](PoliciesKept /\ Counted)
<1>1. Init => PoliciesKept /\ Counted
  BY DEF Init, PoliciesKept, Counted, Idle
<1> QED BY <1>1, TypeCorrect, DeliveryInvariant, PoliciesStep, CountedStep, PTL DEF Spec

\* A message of a queue whose every policy redrives within k receives is handed out at
\* most k times, whichever receivers race, whatever visibility changes and rollbacks
\* happen, and however often the queue is deleted and created again under a receive.
THEOREM DeliveriesBoundedHolds == Spec => []DeliveriesBounded
<1>1. TypeOK /\ DeliveryInv /\ Counted => DeliveriesBounded
  <2> SUFFICES ASSUME TypeOK, DeliveryInv, Counted, NEW l \in leases, NEW k \in 1..MaxReceiveCount,
                      AlwaysRedrives(l.queue, k)
               PROVE  Cardinality({n \in leases : n.id = l.id}) <= k
    BY DEF DeliveriesBounded
  <2> DEFINE Handles == {n \in leases : n.id = l.id}
             number  == [n \in Handles |-> n.handle]
  <2>1. k \in Nat
    BY QueueAssumption
  <2>2. \A n \in Handles : n.handle \in 1..k
    <3>1. \A n \in Handles : n.handle \in Nat /\ n.handle >= 1 /\ n.queue = l.queue
      BY DEF TypeOK, Counted
    <3>2. \A n \in Handles : n.handle <= k
      BY <2>1, <3>1 DEF Counted
    <3> QED BY <2>1, <3>1, <3>2
  <2>3. \A m, n \in Handles : m.handle = n.handle => m = n
    BY DEF DeliveryInv, UniqueHandles
  <2>4. number \in Injection(Handles, 1..k)
    BY <2>2, <2>3 DEF Injection, IsInjective
  <2>5. IsFiniteSet(1..k) /\ Cardinality(1..k) = k
    BY <2>1, FS_Interval
  <2>6. Cardinality(Handles) <= Cardinality(1..k)
    <3> HIDE DEF Handles, number
    <3> QED BY <2>4, <2>5, FS_Injection
  <2> QED BY <2>5, <2>6
<1> QED BY <1>1, TypeCorrect, DeliveryInvariant, CountedInvariant, PTL

-----------------------------------------------------------------------------
(***************************************************************************)
(* Order within the groups of a FIFO queue.                                *)
(***************************************************************************)

\* Live sequence numbers of a group are distinct.
SequencesDistinct ==
    \A m, n \in messages :
        m.queue = n.queue /\ m.queue \in FifoQueues /\ m.group = n.group /\ m.seq = n.seq
          => m = n

\* The row redriveMessageTx inserts in a FIFO queue: in its group it comes after every
\* live row, and after the rows the same receive inserted before it.
LEMMA RedrivenSequence ==
  ASSUME TypeOK, NEW c \in Clients, ReceiveCommit(c), NEW S, NEW order, Commits(c, S, order),
         NEW dlq \in FifoQueues, dlq = op[c].attrs.redrive.target, NEW m \in DeadOf(c, S)
  PROVE  /\ \A x \in messages :
               x.queue = dlq /\ x.group = DlqGroup(dlq, m) => x.seq < Redriven(dlq, m, order).seq
         /\ \A n \in DeadOf(c, S) :
               n # m /\ DlqGroup(dlq, n) = DlqGroup(dlq, m)
                 => Redriven(dlq, n, order).seq # Redriven(dlq, m, order).seq
<1> DEFINE g == DlqGroup(dlq, m)
           before(n) == {x \in DOMAIN order : DlqGroup(dlq, x) = g /\ order[x] < order[n]}
<1>1. /\ messages \subseteq Rows /\ IsFiniteSet(messages)
      /\ IsFiniteSet(DeadOf(c, S)) /\ DOMAIN order = DeadOf(c, S)
      /\ \A n \in DeadOf(c, S) : order[n] \in Nat
      /\ \A n \in DeadOf(c, S) : order[n] = order[m] => n = m
  BY CommittedSelection DEF TypeOK, Commits, Orders
<1>2. \A n \in DeadOf(c, S) : IsFiniteSet(before(n)) /\ Cardinality(before(n)) \in Nat
  <2> SUFFICES ASSUME NEW n \in DeadOf(c, S)
               PROVE  IsFiniteSet(before(n)) /\ Cardinality(before(n)) \in Nat
    OBVIOUS
  <2>1. before(n) \subseteq DeadOf(c, S)
    BY <1>1
  <2> HIDE DEF before
  <2> QED BY <1>1, <2>1, FS_Subset, FS_CardinalityType
<1>3. \A n \in DeadOf(c, S) : DlqGroup(dlq, n) = g =>
         Redriven(dlq, n, order).seq = NextSequence(dlq, g) + Cardinality(before(n))
  BY DEF Redriven
<1>4. /\ NextSequence(dlq, g) \in Nat
      /\ \A x \in messages : x.queue = dlq /\ x.group = g => x.seq < NextSequence(dlq, g)
  BY <1>1, NextSequenceIsNew
<1>5. ASSUME NEW x \in DeadOf(c, S), NEW y \in DeadOf(c, S), DlqGroup(dlq, x) = g,
             order[x] < order[y]
      PROVE  Cardinality(before(x)) < Cardinality(before(y))
  <2>1. before(x) \subseteq before(y)
    BY <1>1, <1>5
  <2>2. x \in before(y) /\ x \notin before(x)
    BY <1>1, <1>5
  <2> HIDE DEF before
  <2>3. /\ Cardinality(before(x)) <= Cardinality(before(y))
        /\ Cardinality(before(x)) # Cardinality(before(y))
    BY <1>2, <2>1, <2>2, FS_Subset
  <2> QED BY <1>2, <2>3
<1> HIDE DEF g, before
<1>6. ASSUME NEW x \in messages, x.queue = dlq, x.group = g
      PROVE  x.seq < Redriven(dlq, m, order).seq
  <2>1. x.seq \in Nat
    BY <1>1 DEF Rows
  <2> QED BY <1>2, <1>3, <1>4, <1>6, <2>1 DEF g
<1>7. ASSUME NEW n \in DeadOf(c, S), n # m, DlqGroup(dlq, n) = g
      PROVE  Redriven(dlq, n, order).seq # Redriven(dlq, m, order).seq
  <2>1. order[n] < order[m] \/ order[m] < order[n]
    BY <1>1, <1>7
  <2>2. Cardinality(before(n)) # Cardinality(before(m))
    BY <1>2, <1>5, <1>7, <2>1 DEF g
  <2>3. /\ Redriven(dlq, n, order).seq = NextSequence(dlq, g) + Cardinality(before(n))
        /\ Redriven(dlq, m, order).seq = NextSequence(dlq, g) + Cardinality(before(m))
    BY <1>3, <1>7 DEF g
  <2>4. Cardinality(before(n)) \in Nat /\ Cardinality(before(m)) \in Nat
    BY <1>2
  <2> QED BY <1>4, <2>2, <2>3, <2>4
<1> QED BY <1>6, <1>7 DEF g

\* A row a receive leaves, with the fields its place in a FIFO group depends on: it is a
\* row of before, claimed or not, or was redriven from one.
LEMMA CommittedPlaces ==
  ASSUME TypeOK, NEW c \in Clients, ReceiveCommit(c), NEW S, NEW order, Commits(c, S, order),
         NEW n \in messages'
  PROVE  \E m \in messages :
           /\ n.origin = m.origin
           /\ \/ /\ n.queue = m.queue /\ n.group = m.group /\ n.seq = m.seq
                 /\ \/ n = m /\ m \notin S
                    \/ n = Claimed(m, Until(c)) /\ m \in S \ DeadOf(c, S) /\ n.handle # 0
              \/ /\ m \in DeadOf(c, S)
                 /\ n = Redriven(op[c].attrs.redrive.target, m, order)
                 /\ n.queue = op[c].attrs.redrive.target /\ n.group = DlqGroup(n.queue, m)
                 /\ n.handle = 0 /\ n.visibleAfter = 0
<1>1. PICK m \in messages :
         \/ n = m /\ m \notin S
         \/ m \in S \ DeadOf(c, S) /\ n = Claimed(m, Until(c))
         \/ m \in DeadOf(c, S) /\ n = Redriven(op[c].attrs.redrive.target, m, order)
  BY CommittedRows
<1>2. m \in Rows
  BY DEF TypeOK
<1> WITNESS m \in messages
<1>3. CASE n = m /\ m \notin S
  BY <1>3
<1>4. CASE m \in S \ DeadOf(c, S) /\ n = Claimed(m, Until(c))
  <2>1. /\ n.origin = m.origin /\ n.queue = m.queue /\ n.group = m.group /\ n.seq = m.seq
        /\ n.handle = m.receiveCount + 1 /\ m.receiveCount \in Nat
    BY <1>2, <1>4 DEF Claimed, Rows
  <2> QED BY <1>4, <2>1
<1>5. CASE m \in DeadOf(c, S) /\ n = Redriven(op[c].attrs.redrive.target, m, order)
  BY <1>5 DEF Redriven
<1> QED BY <1>1, <1>3, <1>4, <1>5

\* Each insert in a FIFO group takes a sequence number no live row has.
LEMMA SequencesStep == TypeOK /\ DeliveryInv /\ SequencesDistinct /\ [Next]_vars => SequencesDistinct'
<1> SUFFICES ASSUME TypeOK, DeliveryInv, SequencesDistinct, [Next]_vars PROVE SequencesDistinct'
  OBVIOUS
<1>1. CASE Untouched
  BY <1>1 DEF Untouched, SequencesDistinct
<1>2. CASE Dropped
  BY <1>2 DEF Dropped, SequencesDistinct
<1>3. ASSUME NEW c \in Clients, SendInsert(c) PROVE SequencesDistinct'
  <2>1. CASE UNCHANGED messages
    BY <2>1 DEF SequencesDistinct
  <2>2. CASE messages' = messages \cup {SentRow(c)}
    <3> DEFINE row == SentRow(c)
    <3>1. \A x \in messages : row.queue \in FifoQueues /\ x.queue = row.queue /\ x.group = row.group
             => x.seq < row.seq
      BY NextSequenceIsNew DEF SentRow, TypeOK
    <3>2. \A x \in messages : x.seq \in Nat
      BY DEF TypeOK, Rows
    <3> HIDE DEF row
    <3>3. messages' = messages \cup {row}
      BY <2>2 DEF row
    <3> QED BY <3>1, <3>2, <3>3 DEF SequencesDistinct
  <2> QED BY <1>3, <2>1, <2>2 DEF SendInsert
<1>4. ASSUME NEW c \in Clients, ReceiveCommit(c) PROVE SequencesDistinct'
  <2>1. CASE \E S, order : Commits(c, S, order)
    <3>1. PICK S, order : Commits(c, S, order)
      BY <2>1
    <3> DEFINE dlq == op[c].attrs.redrive.target
               Stays(n, m) == \/ n = m /\ m \notin S
                              \/ n = Claimed(m, Until(c)) /\ m \in S \ DeadOf(c, S)
    <3> SUFFICES ASSUME NEW n1 \in messages', NEW n2 \in messages', n1.queue = n2.queue,
                        n1.queue \in FifoQueues, n1.group = n2.group, n1.seq = n2.seq
                 PROVE  n1 = n2
      BY DEF SequencesDistinct
    <3>2. PICK m1 \in messages :
             \/ n1.queue = m1.queue /\ n1.group = m1.group /\ n1.seq = m1.seq /\ Stays(n1, m1)
             \/ /\ m1 \in DeadOf(c, S) /\ n1 = Redriven(dlq, m1, order)
                /\ n1.queue = dlq /\ n1.group = DlqGroup(dlq, m1)
      BY <1>4, <3>1, CommittedPlaces
    <3>3. PICK m2 \in messages :
             \/ n2.queue = m2.queue /\ n2.group = m2.group /\ n2.seq = m2.seq /\ Stays(n2, m2)
             \/ /\ m2 \in DeadOf(c, S) /\ n2 = Redriven(dlq, m2, order)
                /\ n2.queue = dlq /\ n2.group = DlqGroup(dlq, m2)
      BY <1>4, <3>1, CommittedPlaces
    <3>4. \A m \in DeadOf(c, S), x \in messages :
             /\ dlq \in FifoQueues /\ x.queue = dlq /\ x.group = DlqGroup(dlq, m)
               => x.seq < Redriven(dlq, m, order).seq
      BY <1>4, <3>1, RedrivenSequence
    <3>5. \A m \in DeadOf(c, S), n \in DeadOf(c, S) :
             dlq \in FifoQueues /\ n # m /\ DlqGroup(dlq, n) = DlqGroup(dlq, m)
               => Redriven(dlq, n, order).seq # Redriven(dlq, m, order).seq
      BY <1>4, <3>1, RedrivenSequence
    <3>6. \A x \in messages : x.seq \in Nat
      BY DEF TypeOK, Rows
    <3> HIDE DEF dlq
    <3>7. CASE Stays(n1, m1) /\ Stays(n2, m2) /\ n1.queue = m1.queue /\ n1.group = m1.group /\ n1.seq = m1.seq
               /\ n2.queue = m2.queue /\ n2.group = m2.group /\ n2.seq = m2.seq
      <4>1. m1 = m2
        BY <3>7 DEF SequencesDistinct
      <4> QED BY <3>7, <4>1
    <3> HIDE DEF Stays
    <3>8. CASE m1 \in DeadOf(c, S) /\ n1 = Redriven(dlq, m1, order)
               /\ n1.queue = dlq /\ n1.group = DlqGroup(dlq, m1)
      BY <3>3, <3>4, <3>5, <3>6, <3>8
    <3>9. CASE m2 \in DeadOf(c, S) /\ n2 = Redriven(dlq, m2, order)
               /\ n2.queue = dlq /\ n2.group = DlqGroup(dlq, m2)
      BY <3>2, <3>4, <3>5, <3>6, <3>9
    <3> QED BY <3>2, <3>3, <3>7, <3>8, <3>9
  <2> QED BY <1>1, <1>4, <2>1, ReceiveCases
<1>5. ASSUME NEW c \in Clients, NEW l \in leases, ChangeMessageVisibility(c, l)
      PROVE  SequencesDistinct'
  <2> SUFFICES ASSUME NEW n1 \in messages', NEW n2 \in messages', n1.queue = n2.queue,
                      n1.queue \in FifoQueues, n1.group = n2.group, n1.seq = n2.seq
               PROVE  n1 = n2
    BY DEF SequencesDistinct
  <2>1. n1.id = n2.id
    <3>1. \A n \in messages' : \E m \in messages :
             n.id = m.id /\ n.queue = m.queue /\ n.group = m.group /\ n.seq = m.seq
      BY <1>5, ChangedRows
    <3> QED BY <3>1 DEF SequencesDistinct
  <2>2. UniqueRows'
    BY <1>5, ChangeVisibilityDelivery DEF DeliveryInv
  <2> QED BY <2>1, <2>2 DEF UniqueRows
<1> QED BY <1>1, <1>2, <1>3, <1>4, <1>5, StepCases

\* No message is delayed: no FIFO queue has a DelaySeconds, and no request to one.
NoDelays ==
    /\ \A q \in FifoQueues : /\ \A a \in Attributes[q] : a.delaySeconds = 0
                             /\ \A u \in Updates[q] : u.values.delaySeconds = 0
    /\ \A r \in Requests : r.queue \in FifoQueues => r.delay = 0

\* What NoDelays makes of the queues and of the operations in progress, and the group
\* every send to a FIFO queue has.
Undelayed ==
    /\ \A q \in FifoQueues : queues[q] # NoQueue => queues[q].delaySeconds = 0
    /\ \A c \in Clients :
         /\ op[c].kind = "setting" /\ op[c].queue \in FifoQueues => op[c].attrs.delaySeconds = 0
         /\ op[c].kind \in {"snapshot", "sending"} /\ op[c].request.queue \in FifoQueues
              => op[c].visibleAfter = 0 /\ op[c].request.group # NoGroup

\* A FIFO row that was never received is visible from the start, and has a group.
FreshVisible ==
    \A m \in messages :
        m.queue \in FifoQueues => m.group # NoGroup /\ (m.handle = 0 => m.visibleAfter = 0)

\* Without delays no operation in progress carries a visible_after for a FIFO queue.
LEMMA UndelayedStep == NoDelays /\ TypeOK /\ Undelayed /\ [Next]_vars => Undelayed'
<1> SUFFICES ASSUME NoDelays, TypeOK, Undelayed, [Next]_vars PROVE Undelayed'
  OBVIOUS
<1>1. ASSUME NEW q \in FifoQueues, queues'[q] # NoQueue PROVE queues'[q].delaySeconds = 0
  <2>1. q \in Queues
    BY QueueAssumption
  <2> QED BY <1>1, <2>1, QueueStep DEF NoDelays, Undelayed
<1>2. ASSUME NEW r \in Requests, queues[r.queue] # NoQueue, r.queue \in FifoQueues
      PROVE  VisibleAfter(queues[r.queue], r) = 0
  <2>1. queues[r.queue].delaySeconds = 0 /\ r.delay = 0
    BY <1>2 DEF Undelayed, NoDelays
  <2> QED BY <2>1, QueueAssumption DEF VisibleAfter, Capped
<1>3. ASSUME NEW c \in Clients, op'[c].kind = "setting", op'[c].queue \in FifoQueues
      PROVE  op'[c].attrs.delaySeconds = 0
  <2>1. CASE op'[c] = op[c]
    BY <1>3, <2>1 DEF Undelayed
  <2>2. CASE op'[c] # op[c]
    <3>1. PICK q \in Queues : \E u \in Updates[q] :
               queues[q] # NoQueue /\ op'[c].queue = q /\ op'[c].attrs = Merge(queues[q], u)
      BY <1>3, <2>2, StartedOperation
    <3>2. PICK u \in Updates[q] : op'[c].attrs = Merge(queues[q], u)
      BY <3>1
    <3>3. q \in FifoQueues /\ queues[q].delaySeconds = 0 /\ u.values.delaySeconds = 0
      BY <1>3, <3>1 DEF Undelayed, NoDelays
    <3> QED BY <3>2, <3>3 DEF Merge
  <2> QED BY <2>1, <2>2
<1>4. ASSUME NEW c \in Clients, op'[c].kind \in {"snapshot", "sending"},
             op'[c].request.queue \in FifoQueues
      PROVE  op'[c].visibleAfter = 0 /\ op'[c].request.group # NoGroup
  <2>1. CASE op'[c] = op[c]
    BY <1>4, <2>1 DEF Undelayed
  <2>2. CASE \E r \in Requests :
               /\ queues[r.queue] # NoQueue /\ FieldsPresent(queues[r.queue], r)
               /\ op'[c].request = r
               /\ op'[c].visibleAfter = VisibleAfter(queues[r.queue], r)
    BY <1>2, <1>4, <2>2 DEF FieldsPresent
  <2>3. CASE /\ op[c].kind = "snapshot" /\ op'[c].request = op[c].request
             /\ \/ op'[c].visibleAfter = op[c].visibleAfter
                \/ /\ queues[op[c].request.queue] # NoQueue
                   /\ op'[c].visibleAfter = VisibleAfter(queues[op[c].request.queue], op[c].request)
    <3>1. op[c].request \in Requests
      BY <2>3, OperationKinds DEF SendingOps
    <3> QED BY <1>2, <1>4, <2>3, <3>1 DEF Undelayed
  <2> QED BY <1>4, <2>1, <2>2, <2>3, StartedOperation
<1> QED BY <1>1, <1>3, <1>4 DEF Undelayed

\* Only a receive or a visibility change hides a FIFO row.
LEMMA FreshStep ==
  TypeOK /\ Undelayed /\ Counted /\ FreshVisible /\ [Next]_vars => FreshVisible'
<1> SUFFICES ASSUME TypeOK, Undelayed, Counted, FreshVisible, [Next]_vars PROVE FreshVisible'
  OBVIOUS
<1>1. CASE Untouched
  BY <1>1 DEF Untouched, FreshVisible
<1>2. CASE Dropped
  BY <1>2 DEF Dropped, FreshVisible
<1>3. ASSUME NEW c \in Clients, SendInsert(c) PROVE FreshVisible'
  <2>1. CASE UNCHANGED messages
    BY <2>1 DEF FreshVisible
  <2>2. CASE messages' = messages \cup {SentRow(c)}
    <3> DEFINE row == SentRow(c)
    <3>1. row.queue \in FifoQueues => row.group # NoGroup /\ row.visibleAfter = 0
      BY <1>3 DEF SentRow, SendInsert, Undelayed
    <3> HIDE DEF row
    <3>2. messages' = messages \cup {row}
      BY <2>2 DEF row
    <3> QED BY <3>1, <3>2 DEF FreshVisible
  <2> QED BY <1>3, <2>1, <2>2 DEF SendInsert
<1>4. ASSUME NEW c \in Clients, ReceiveCommit(c) PROVE FreshVisible'
  <2>1. CASE \E S, order : Commits(c, S, order)
    <3>1. PICK S, order : Commits(c, S, order)
      BY <2>1
    <3> SUFFICES ASSUME NEW n \in messages', n.queue \in FifoQueues
                 PROVE  n.group # NoGroup /\ (n.handle = 0 => n.visibleAfter = 0)
      BY DEF FreshVisible
    <3>2. PICK m \in messages :
           \/ /\ n.queue = m.queue /\ n.group = m.group
              /\ n = m \/ n.handle # 0
           \/ n.group = DlqGroup(n.queue, m) /\ n.visibleAfter = 0
      BY <1>4, <3>1, CommittedPlaces
    <3>3. DlqGroup(n.queue, m) # NoGroup
      BY QueueAssumption DEF DlqGroup
    <3> QED BY <3>2, <3>3 DEF FreshVisible
  <2> QED BY <1>1, <1>4, <2>1, ReceiveCases
<1>5. ASSUME NEW c \in Clients, NEW l \in leases, ChangeMessageVisibility(c, l)
      PROVE  FreshVisible'
  <2>1. l.handle # 0
    <3>1. l.handle >= 1 /\ l.handle \in Nat
      BY DEF Counted, TypeOK
    <3> QED BY <3>1
  <2>2. \A n \in messages' : \E m \in messages :
           n.queue = m.queue /\ n.group = m.group /\ n.handle = m.handle
             /\ (n = m \/ m.handle = l.handle)
    BY <1>5, ChangedRows
  <2> QED BY <2>1, <2>2 DEF FreshVisible
<1> QED BY <1>1, <1>2, <1>3, <1>4, <1>5, StepCases

\* What a receiver takes of a FIFO group is its first row: a row before it would be
\* visible, or in flight and block the group.
LEMMA SelectedFirst ==
  ASSUME TypeOK, FreshVisible, NEW c \in Clients, ReceiveCommit(c), NEW S, NEW order,
         Commits(c, S, order), NEW n \in S, NEW m \in messages,
         m.queue = n.queue, n.queue \in FifoQueues, m.group = n.group
  PROVE  n.seq <= m.seq
<1>1. n \in Heads(op[c].queue, op[c].now) /\ n.queue = op[c].queue
  BY CommittedSelection DEF Candidates
<1>2. CASE m.visibleAfter <= op[c].now
  BY <1>1, <1>2 DEF Heads, Visible, RowsOf
<1>3. CASE ~ (m.visibleAfter <= op[c].now)
  <2>1. m.visibleAfter \in Nat /\ op[c].now \in Nat
    BY CommittedSelection DEF TypeOK, Rows, ReceivingOps
  <2>2. m.visibleAfter > op[c].now /\ m.visibleAfter # 0
    BY <1>3, <2>1
  <2>3. m.handle # 0
    BY <2>2 DEF FreshVisible
  <2>4. m.group \in BlockedGroups(op[c].queue, op[c].now)
    BY <1>1, <2>2, <2>3 DEF BlockedGroups, RowsOf
  <2> QED BY <1>1, <2>4 DEF Heads
<1> QED BY <1>2, <1>3

\* A receive hands out no message that has an earlier one in its group.
LEMMA HeadStep ==
  TypeOK /\ FreshVisible /\ HeadOnlyReceived /\ [Next]_vars => HeadOnlyReceived'
<1> SUFFICES ASSUME TypeOK, FreshVisible, HeadOnlyReceived, [Next]_vars PROVE HeadOnlyReceived'
  OBVIOUS
<1>0. \A x \in messages : x.seq \in Nat
  BY DEF TypeOK, Rows
<1>1. CASE Untouched
  BY <1>1 DEF Untouched, HeadOnlyReceived
<1>2. CASE Dropped
  BY <1>2 DEF Dropped, HeadOnlyReceived
<1>3. ASSUME NEW c \in Clients, SendInsert(c) PROVE HeadOnlyReceived'
  <2>1. CASE UNCHANGED messages
    BY <2>1 DEF HeadOnlyReceived
  <2>2. CASE messages' = messages \cup {SentRow(c)}
    <3> DEFINE row == SentRow(c)
    <3>1. /\ row.handle = 0
          /\ \A x \in messages : row.queue \in FifoQueues /\ x.queue = row.queue /\ x.group = row.group
               => x.seq < row.seq
      BY NextSequenceIsNew DEF SentRow, TypeOK
    <3>2. row.seq \in Nat
      BY NextSequenceIsNew DEF SentRow, TypeOK
    <3> HIDE DEF row
    <3>3. messages' = messages \cup {row}
      BY <2>2 DEF row
    <3> QED BY <1>0, <3>1, <3>2, <3>3 DEF HeadOnlyReceived
  <2> QED BY <1>3, <2>1, <2>2 DEF SendInsert
<1>4. ASSUME NEW c \in Clients, ReceiveCommit(c) PROVE HeadOnlyReceived'
  <2>1. CASE \E S, order : Commits(c, S, order)
    <3>1. PICK S, order : Commits(c, S, order)
      BY <2>1
    <3> SUFFICES ASSUME NEW m \in messages', NEW n \in messages', m.queue = n.queue,
                        m.queue \in FifoQueues, m.group = n.group, m.seq < n.seq, n.handle # 0
                 PROVE  FALSE
      BY DEF HeadOnlyReceived
    <3>2. PICK n1 \in messages : /\ n.queue = n1.queue /\ n.group = n1.group /\ n.seq = n1.seq
                                 /\ n = n1 \/ n1 \in S
      BY <1>4, <3>1, CommittedPlaces
    <3>3. PICK m1 \in messages :
             \/ m.queue = m1.queue /\ m.group = m1.group /\ m.seq = m1.seq
             \/ /\ m1 \in DeadOf(c, S)
                /\ m = Redriven(op[c].attrs.redrive.target, m1, order)
                /\ m.queue = op[c].attrs.redrive.target /\ m.group = DlqGroup(m.queue, m1)
      BY <1>4, <3>1, CommittedPlaces
    <3>4. CASE m.queue = m1.queue /\ m.group = m1.group /\ m.seq = m1.seq
      <4>1. n1 \in S
        BY <3>2, <3>4 DEF HeadOnlyReceived
      <4>2. n1.seq <= m1.seq
        BY <1>4, <3>1, <3>2, <3>4, <4>1, SelectedFirst
      <4> QED BY <1>0, <3>2, <3>4, <4>2
    <3>5. CASE /\ m1 \in DeadOf(c, S)
               /\ m = Redriven(op[c].attrs.redrive.target, m1, order)
               /\ m.queue = op[c].attrs.redrive.target /\ m.group = DlqGroup(m.queue, m1)
      <4>1. n1.seq < m.seq
        BY <1>4, <3>1, <3>2, <3>5, RedrivenSequence
      <4>2. m.seq \in Nat
        BY TypeStep DEF TypeOK, Rows
      <4> QED BY <1>0, <3>2, <4>1, <4>2
    <3> QED BY <3>3, <3>4, <3>5
  <2> QED BY <1>1, <1>4, <2>1, ReceiveCases
<1>5. ASSUME NEW c \in Clients, NEW l \in leases, ChangeMessageVisibility(c, l)
      PROVE  HeadOnlyReceived'
  <2>1. \A n \in messages' : \E m \in messages :
           n.queue = m.queue /\ n.group = m.group /\ n.seq = m.seq /\ n.handle = m.handle
    BY <1>5, ChangedRows
  <2> QED BY <2>1 DEF HeadOnlyReceived
<1> QED BY <1>1, <1>2, <1>3, <1>4, <1>5, StepCases

\* Without delays, the order facts about FIFO groups hold throughout.
LEMMA GroupInvariant ==
  ASSUME NoDelays
  PROVE  Spec => [](SequencesDistinct /\ FreshVisible /\ HeadOnlyReceived)
<1>1. Init => SequencesDistinct /\ Undelayed /\ FreshVisible /\ HeadOnlyReceived
  BY QueueAssumption DEF Init, SequencesDistinct, Undelayed, FreshVisible, HeadOnlyReceived, Idle
<1>2. TypeOK /\ Undelayed /\ [Next]_vars => Undelayed'
  BY UndelayedStep
<1> QED
  BY <1>1, <1>2, TypeCorrect, DeliveryInvariant, CountedInvariant, SequencesStep, FreshStep,
     HeadStep, PTL DEF Spec

\* Where no message is delayed, only the first message of a FIFO group has ever been
\* received: a later one is not handed out, not even once, before the earlier ones are
\* deleted or redriven (receiveMessagesTx).
THEOREM HeadOnlyReceivedHolds ==
  ASSUME NoDelays
  PROVE  Spec => []HeadOnlyReceived
BY GroupInvariant, PTL

\* Where no message is delayed, at most one message of a FIFO group is in flight.
THEOREM OneInFlightPerGroupHolds ==
  ASSUME NoDelays
  PROVE  Spec => []OneInFlightPerGroup
<1>1. TypeOK /\ SequencesDistinct /\ HeadOnlyReceived => OneInFlightPerGroup
  BY DEF TypeOK, Rows, SequencesDistinct, HeadOnlyReceived, OneInFlightPerGroup
<1> QED BY <1>1, TypeCorrect, GroupInvariant, PTL

-----------------------------------------------------------------------------
(***************************************************************************)
(* Sequence numbers follow acceptance, in dead-letter queues too.          *)
(***************************************************************************)

\* The redrive policies a queue may have.
Policies(q) ==
    {a.redrive : a \in Attributes[q]}
      \cup {u.values.redrive : u \in {v \in Updates[q] : "redrive" \in v.names}}

Feeds(p, q) == \E r \in Policies(p) : r # NoRedrive /\ r.target = q

\* FIFO queues whose messages are sent to the first of a chain and redriven along it,
\* <<x, q>> \in Up when x comes before q: a dead-letter queue has one source, the
\* source is FIFO, and nothing is sent to it directly.
Chained(Up) ==
    /\ \A p \in Queues, q \in FifoQueues : Feeds(p, q) =>
         /\ p \in FifoQueues /\ <<p, q>> \in Up
         /\ \A x \in FifoQueues : <<x, q>> \in Up => x = p \/ <<x, p>> \in Up
    /\ \A x, p, q \in FifoQueues : <<x, p>> \in Up /\ <<p, q>> \in Up => <<x, q>> \in Up
    /\ \A q \in FifoQueues : <<q, q>> \notin Up
    /\ \A x \in FifoQueues, r \in Requests : <<x, r.queue>> \notin Up

DeadLetterChains == \E Up \in SUBSET (FifoQueues \X FifoQueues) : Chained(Up)

\* The policies queues have, writers have merged and receivers have read are Policies.
PoliciesKnown ==
    /\ \A q \in Queues : queues[q] # NoQueue => queues[q].redrive \in Policies(q)
    /\ \A c \in Clients :
         op[c].kind \in {"setting", "receiving"} => op[c].attrs.redrive \in Policies(op[c].queue)

\* What is still before a queue in its chain was accepted after all the queue has.
LaterUpstream(Up) ==
    \A m, n \in messages :
        /\ m.queue \in FifoQueues /\ n.queue \in FifoQueues /\ <<m.queue, n.queue>> \in Up
        /\ m.group = n.group
      => n.origin < m.origin

\* Policies come from CreateQueue or SetQueueAttributes only.
LEMMA PoliciesKnownStep == TypeOK /\ PoliciesKnown /\ [Next]_vars => PoliciesKnown'
<1> SUFFICES ASSUME TypeOK, PoliciesKnown, [Next]_vars PROVE PoliciesKnown'
  OBVIOUS
<1>1. ASSUME NEW q \in Queues, queues'[q] # NoQueue PROVE queues'[q].redrive \in Policies(q)
  BY <1>1, QueueStep DEF PoliciesKnown, Policies
<1>2. ASSUME NEW c \in Clients, op'[c].kind \in {"setting", "receiving"}
      PROVE  op'[c].attrs.redrive \in Policies(op'[c].queue)
  <2>1. CASE op'[c] = op[c]
    BY <1>2, <2>1 DEF PoliciesKnown
  <2>2. CASE op'[c] # op[c] /\ op'[c].kind = "setting"
    <3>1. PICK q \in Queues : \E u \in Updates[q] :
             queues[q] # NoQueue /\ op'[c].queue = q /\ op'[c].attrs = Merge(queues[q], u)
      BY <2>2, StartedOperation
    <3>2. PICK u \in Updates[q] : op'[c].attrs = Merge(queues[q], u)
      BY <3>1
    <3>3. \/ Merge(queues[q], u).redrive = queues[q].redrive
          \/ "redrive" \in u.names /\ Merge(queues[q], u).redrive = u.values.redrive
      BY DEF Merge
    <3>4. queues[q].redrive \in Policies(q)
      BY <3>1 DEF PoliciesKnown
    <3>5. "redrive" \in u.names => u.values.redrive \in Policies(q)
      BY DEF Policies
    <3> QED BY <3>1, <3>2, <3>3, <3>4, <3>5
  <2>3. CASE op'[c] # op[c] /\ op'[c].kind = "receiving"
    <3>1. PICK q \in Queues : queues[q] # NoQueue /\ op'[c].queue = q /\ op'[c].attrs = queues[q]
      BY <2>3, StartedOperation
    <3> QED BY <3>1 DEF PoliciesKnown
  <2> QED BY <1>2, <2>1, <2>2, <2>3
<1> QED BY <1>1, <1>2 DEF PoliciesKnown

\* A row redriven to a FIFO queue: its queue, group and source in the chain.
LEMMA RedrivenInChain ==
  ASSUME NEW Up, Chained(Up), TypeOK, PoliciesKnown, FreshVisible, NEW c \in Clients,
         ReceiveCommit(c), NEW S, NEW order, Commits(c, S, order), NEW m \in DeadOf(c, S),
         op[c].attrs.redrive.target \in FifoQueues
  PROVE  /\ Feeds(op[c].queue, op[c].attrs.redrive.target)
         /\ m \in messages /\ m \in S /\ m.queue = op[c].queue /\ m.queue \in FifoQueues
         /\ DlqGroup(op[c].attrs.redrive.target, m) = m.group
<1>1. /\ m \in messages /\ m \in S /\ m.queue = op[c].queue /\ op[c].queue \in Queues
      /\ op[c].attrs.redrive # NoRedrive
  BY CommittedSelection DEF ReceivingOps
<1>2. Feeds(op[c].queue, op[c].attrs.redrive.target)
  BY <1>1 DEF ReceiveCommit, PoliciesKnown, Feeds
<1>3. m.queue \in FifoQueues
  BY <1>1, <1>2 DEF Chained
<1> QED BY <1>1, <1>2, <1>3 DEF FreshVisible, DlqGroup

\* What a chain says of a source and its dead-letter queue.
LEMMA ChainedPair ==
  ASSUME NEW Up, Chained(Up), NEW p \in Queues, NEW q \in FifoQueues, Feeds(p, q)
  PROVE  /\ p \in FifoQueues /\ <<p, q>> \in Up
         /\ \A x \in FifoQueues : <<x, q>> \in Up => x = p \/ <<x, p>> \in Up
         /\ \A x \in FifoQueues : <<q, x>> \in Up => <<p, x>> \in Up
<1>1. /\ p \in FifoQueues /\ <<p, q>> \in Up
      /\ \A x \in FifoQueues : <<x, q>> \in Up => x = p \/ <<x, p>> \in Up
  BY DEF Chained
<1>2. \A x \in FifoQueues : <<q, x>> \in Up => <<p, x>> \in Up
  BY <1>1 DEF Chained
<1> QED BY <1>1, <1>2

\* A send adds the latest message to a queue nothing is upstream of.
LEMMA SentOrder ==
  ASSUME NEW Up, Chained(Up), TypeOK, DeliveryInv, SequenceFollowsAcceptance, LaterUpstream(Up),
         NEW c \in Clients, SendInsert(c)
  PROVE  SequenceFollowsAcceptance' /\ LaterUpstream(Up)'
<1>1. CASE UNCHANGED messages
  BY <1>1 DEF SequenceFollowsAcceptance, LaterUpstream
<1>2. CASE messages' = messages \cup {SentRow(c)}
  <2> DEFINE row == SentRow(c)
  <2>1. /\ row.origin = lastId + 1 /\ row.queue = op[c].request.queue
        /\ \A x \in messages : row.queue \in FifoQueues /\ x.queue = row.queue /\ x.group = row.group
             => x.seq < row.seq
    BY NextSequenceIsNew DEF SentRow, TypeOK
  <2>2. op[c].request \in Requests
    BY OperationKinds DEF SendInsert, SendingOps
  <2>3. \A x \in messages : x.origin < row.origin
    <3>1. lastId \in Nat /\ \A x \in messages : x.origin \in Nat /\ x.origin <= lastId
      BY DEF TypeOK, Rows, DeliveryInv, KnownIds
    <3> QED BY <2>1, <3>1
  <2>4. \A x \in FifoQueues : <<x, row.queue>> \notin Up
    BY <2>1, <2>2 DEF Chained
  <2>5. row.origin \in Nat /\ \A x \in messages : x.origin \in Nat
    BY <2>1 DEF TypeOK, Rows
  <2> HIDE DEF row
  <2>6. messages' = messages \cup {row}
    BY <1>2 DEF row
  <2>7. SequenceFollowsAcceptance'
    BY <2>1, <2>3, <2>5, <2>6 DEF SequenceFollowsAcceptance
  <2>8. LaterUpstream(Up)'
    BY <2>3, <2>4, <2>6 DEF LaterUpstream
  <2> QED BY <2>7, <2>8
<1> QED BY <1>1, <1>2 DEF SendInsert

\* A redrive moves the first message of a group behind all of the next queue in the chain.
LEMMA ReceivedOrder ==
  ASSUME NEW Up, Chained(Up), TypeOK, DeliveryInv, PoliciesKnown, FreshVisible,
         SequencesDistinct, SequenceFollowsAcceptance, LaterUpstream(Up),
         NEW c \in Clients, ReceiveCommit(c), NEW S, NEW order, Commits(c, S, order)
  PROVE  SequenceFollowsAcceptance' /\ LaterUpstream(Up)'
<1> DEFINE dlq == op[c].attrs.redrive.target
           Stays(n, m) == /\ n.queue = m.queue /\ n.group = m.group /\ n.seq = m.seq
                          /\ m \notin DeadOf(c, S)
           Moves(n, m) == /\ m \in DeadOf(c, S) /\ n = Redriven(dlq, m, order)
                          /\ n.queue = dlq /\ n.group = DlqGroup(dlq, m)
<1>1. ASSUME NEW n \in messages'
      PROVE  \E m \in messages : n.origin = m.origin /\ (Stays(n, m) \/ Moves(n, m))
  <2>1. DeadOf(c, S) \subseteq S
    BY DEF DeadOf
  <2> QED BY <2>1, CommittedPlaces
<1>2. \A x \in messages : x.seq \in Nat /\ x.origin \in Nat
  BY DEF TypeOK, Rows
\* A row redriven to a FIFO queue leaves the head of its group.
<1>3. ASSUME NEW m \in DeadOf(c, S), dlq \in FifoQueues
      PROVE  /\ Feeds(op[c].queue, dlq) /\ m \in messages
             /\ m.queue = op[c].queue /\ op[c].queue \in FifoQueues /\ op[c].queue \in Queues
             /\ DlqGroup(dlq, m) = m.group
             /\ \A x \in messages : x.queue = m.queue /\ x.group = m.group /\ x # m
                                      => m.seq < x.seq /\ m.origin < x.origin
  <2>1. /\ Feeds(op[c].queue, dlq) /\ m \in messages /\ m \in S
        /\ m.queue = op[c].queue /\ m.queue \in FifoQueues /\ DlqGroup(dlq, m) = m.group
    BY <1>3, RedrivenInChain
  <2>2. op[c].queue \in Queues
    BY CommittedSelection DEF ReceivingOps
  <2>3. ASSUME NEW x \in messages, x.queue = m.queue, x.group = m.group, x # m
        PROVE  m.seq < x.seq /\ m.origin < x.origin
    <3>1. m.seq <= x.seq
      BY <2>1, <2>3, SelectedFirst
    <3>2. m.seq # x.seq
      BY <2>1, <2>3 DEF SequencesDistinct
    <3>3. m.origin # x.origin
      BY <2>1, <2>3 DEF DeliveryInv, UniqueRows
    <3>4. ~ (x.origin < m.origin)
      BY <1>2, <2>1, <2>3, <3>1 DEF SequenceFollowsAcceptance
    <3> QED BY <1>2, <2>1, <3>1, <3>2, <3>3, <3>4
  <2> QED BY <2>1, <2>2, <2>3
\* The redriven row comes after all rows of its new group, and was accepted after them.
<1>4. ASSUME NEW m \in DeadOf(c, S), dlq \in FifoQueues, NEW x \in messages,
             x.queue = dlq, x.group = m.group
      PROVE  x.seq < Redriven(dlq, m, order).seq /\ x.origin < m.origin
  <2>1. /\ Feeds(op[c].queue, dlq) /\ m.queue = op[c].queue /\ op[c].queue \in FifoQueues
        /\ m \in messages /\ op[c].queue \in Queues /\ DlqGroup(dlq, m) = m.group
    BY <1>3, <1>4
  <2>2. <<op[c].queue, dlq>> \in Up
    BY <1>4, <2>1 DEF Chained
  <2>3. x.seq < Redriven(dlq, m, order).seq
    BY <1>4, <2>1, RedrivenSequence
  <2> QED BY <1>4, <2>1, <2>2, <2>3 DEF LaterUpstream
<1> HIDE DEF dlq
<1>5. SequenceFollowsAcceptance'
  <2> SUFFICES ASSUME NEW m \in messages', NEW n \in messages', m.queue = n.queue,
                      m.queue \in FifoQueues, m.group = n.group, m.origin < n.origin
               PROVE  m.seq < n.seq
    BY DEF SequenceFollowsAcceptance
  <2>1. PICK m1 \in messages : m.origin = m1.origin /\ (Stays(m, m1) \/ Moves(m, m1))
    BY <1>1
  <2>2. PICK n1 \in messages : n.origin = n1.origin /\ (Stays(n, n1) \/ Moves(n, n1))
    BY <1>1
  <2>3. CASE Stays(m, m1) /\ Stays(n, n1)
    BY <2>1, <2>2, <2>3 DEF SequenceFollowsAcceptance
  <2>4. CASE Stays(m, m1) /\ Moves(n, n1)
    <3>1. n1.group = n.group
      BY <1>3, <2>4
    <3> QED BY <1>4, <2>4, <3>1
  <2>5. CASE Moves(m, m1) /\ Stays(n, n1)
    <3>1. m1.group = m.group
      BY <1>3, <2>5
    <3>2. n1.origin < m1.origin
      BY <1>4, <2>5, <3>1
    <3> QED BY <1>2, <2>1, <2>2, <3>2
  <2>6. CASE Moves(m, m1) /\ Moves(n, n1)
    <3>1. m1.group = n1.group /\ m1.queue = n1.queue
      BY <1>3, <2>6
    <3>2. m1 # n1
      BY <1>2, <2>1, <2>2
    <3>3. m1.seq < n1.seq /\ n1.seq < m1.seq
      BY <1>3, <2>6, <3>1, <3>2
    <3> QED BY <1>2, <3>3
  <2> QED BY <2>1, <2>2, <2>3, <2>4, <2>5, <2>6
<1>6. LaterUpstream(Up)'
  <2> SUFFICES ASSUME NEW m \in messages', NEW n \in messages', m.queue \in FifoQueues,
                      n.queue \in FifoQueues, <<m.queue, n.queue>> \in Up, m.group = n.group
               PROVE  n.origin < m.origin
    BY DEF LaterUpstream
  <2>1. PICK m1 \in messages : m.origin = m1.origin /\ (Stays(m, m1) \/ Moves(m, m1))
    BY <1>1
  <2>2. PICK n1 \in messages : n.origin = n1.origin /\ (Stays(n, n1) \/ Moves(n, n1))
    BY <1>1
  <2>3. CASE Stays(m, m1) /\ Stays(n, n1)
    BY <2>1, <2>2, <2>3 DEF LaterUpstream
  <2>4. CASE Stays(m, m1) /\ Moves(n, n1)
    <3>1. /\ Feeds(op[c].queue, dlq) /\ n1.queue = op[c].queue /\ op[c].queue \in Queues
          /\ op[c].queue \in FifoQueues /\ n1.group = n.group /\ n.queue = dlq
      BY <1>3, <2>4
    <3>2. m1.queue = op[c].queue \/ <<m1.queue, op[c].queue>> \in Up
      BY <2>4, <3>1, ChainedPair
    <3>3. CASE m1.queue = op[c].queue
      <4>1. m1 # n1
        BY <2>4
      <4> QED BY <1>3, <2>1, <2>2, <2>4, <3>1, <3>3, <4>1
    <3>4. CASE <<m1.queue, op[c].queue>> \in Up
      BY <2>1, <2>2, <2>4, <3>1, <3>4 DEF LaterUpstream
    <3> QED BY <3>2, <3>3, <3>4
  <2>5. CASE Moves(m, m1) /\ Stays(n, n1)
    <3>1. /\ Feeds(op[c].queue, dlq) /\ m1.queue = op[c].queue /\ op[c].queue \in Queues
          /\ op[c].queue \in FifoQueues /\ m1.group = m.group /\ m.queue = dlq
      BY <1>3, <2>5
    <3>2. <<op[c].queue, n1.queue>> \in Up
      BY <2>5, <3>1, ChainedPair
    <3> QED BY <2>1, <2>2, <2>5, <3>1, <3>2 DEF LaterUpstream
  <2>6. CASE Moves(m, m1) /\ Moves(n, n1)
    BY <2>6 DEF Chained
  <2> QED BY <2>1, <2>2, <2>3, <2>4, <2>5, <2>6
<1> QED BY <1>5, <1>6

\* Every step keeps sequence numbers in the order of acceptance along the chain.
LEMMA OrderStep ==
  ASSUME NEW Up, Chained(Up)
  PROVE  TypeOK /\ DeliveryInv /\ PoliciesKnown /\ FreshVisible /\ SequencesDistinct
           /\ SequenceFollowsAcceptance /\ LaterUpstream(Up) /\ [Next]_vars
           => SequenceFollowsAcceptance' /\ LaterUpstream(Up)'
<1> SUFFICES ASSUME TypeOK, DeliveryInv, PoliciesKnown, FreshVisible, SequencesDistinct,
                    SequenceFollowsAcceptance, LaterUpstream(Up), [Next]_vars
             PROVE  SequenceFollowsAcceptance' /\ LaterUpstream(Up)'
  OBVIOUS
<1>1. CASE Untouched
  BY <1>1 DEF Untouched, SequenceFollowsAcceptance, LaterUpstream
<1>2. CASE Dropped
  BY <1>2 DEF Dropped, SequenceFollowsAcceptance, LaterUpstream
<1>3. ASSUME NEW c \in Clients, SendInsert(c)
      PROVE  SequenceFollowsAcceptance' /\ LaterUpstream(Up)'
  BY <1>3, SentOrder
<1>4. ASSUME NEW c \in Clients, ReceiveCommit(c)
      PROVE  SequenceFollowsAcceptance' /\ LaterUpstream(Up)'
  BY <1>1, <1>4, ReceiveCases, ReceivedOrder
<1>5. ASSUME NEW c \in Clients, NEW l \in leases, ChangeMessageVisibility(c, l)
      PROVE  SequenceFollowsAcceptance' /\ LaterUpstream(Up)'
  <2>1. \A n \in messages' : \E m \in messages :
           n.queue = m.queue /\ n.group = m.group /\ n.seq = m.seq /\ n.origin = m.origin
    BY <1>5, ChangedRows
  <2>2. SequenceFollowsAcceptance'
    BY <2>1 DEF SequenceFollowsAcceptance
  <2>3. LaterUpstream(Up)'
    BY <2>1 DEF LaterUpstream
  <2> QED BY <2>2, <2>3
<1> QED BY <1>1, <1>2, <1>3, <1>4, <1>5, StepCases

\* Where no message is delayed and dead-letter queues form chains, live sequence numbers
\* of a group follow the order in which the messages were accepted, although
\* nextSequenceNumberTx takes the maximum over live rows only and redriveMessageTx
\* numbers afresh.
THEOREM SequenceFollowsAcceptanceHolds ==
  ASSUME NoDelays, DeadLetterChains
  PROVE  Spec => []SequenceFollowsAcceptance
<1>1. PICK Up \in SUBSET (FifoQueues \X FifoQueues) : Chained(Up)
  BY DEF DeadLetterChains
<1>2. Init => PoliciesKnown /\ SequenceFollowsAcceptance /\ LaterUpstream(Up)
  BY DEF Init, PoliciesKnown, SequenceFollowsAcceptance, LaterUpstream, Idle
<1>3. TypeOK /\ DeliveryInv /\ PoliciesKnown /\ FreshVisible /\ SequencesDistinct
        /\ SequenceFollowsAcceptance /\ LaterUpstream(Up) /\ [Next]_vars
        => SequenceFollowsAcceptance' /\ LaterUpstream(Up)'
  BY <1>1, OrderStep
<1> QED
  BY <1>2, <1>3, TypeCorrect, DeliveryInvariant, GroupInvariant, PoliciesKnownStep, PTL DEF Spec

-----------------------------------------------------------------------------
(***************************************************************************)
(* A receipt handle in its timeout is in force.                            *)
(***************************************************************************)

\* The row of a handle inside its timeout: there is one, and it is invisible until then.
LEMMA LeasedRow ==
  ASSUME TypeOK, DeliveryInv, NEW k \in leases, k.until > clock, HandleRows(k) # {}
  PROVE  \E m \in messages : HandleRows(k) = {m} /\ m.visibleAfter = k.until /\ m.visibleAfter > clock
<1>1. PICK m \in HandleRows(k) : TRUE
  OBVIOUS
<1>2. m \in messages /\ m.id = k.id /\ m.origin = k.origin
  BY <1>1 DEF HandleRows, DeliveryInv, UniqueHandles
<1>3. HandleRows(k) = {m}
  BY <1>1, <1>2 DEF HandleRows, DeliveryInv, UniqueRows
<1>4. m.visibleAfter = k.until
  <2>1. k.until \in Nat /\ clock \in Nat
    BY DEF TypeOK
  <2>2. ~ (k.until <= clock)
    BY <2>1
  <2> QED BY <1>2, <2>2 DEF DeliveryInv, OverOrCurrent
<1> QED BY <1>2, <1>3, <1>4

\* Only a tick moves the clock, by one.
LEMMA ClockStep == Next => clock' = clock \/ clock' = clock + 1
<1>1. ASSUME NEW c \in Clients, NEW q \in Queues,
             \/ CreateQueue(c, q) \/ SetQueueAttributesRead(c, q) \/ DropBegin(c, q, "deletingQueue")
             \/ DropBegin(c, q, "purging") \/ ReceiveLock(c, q)
      PROVE  UNCHANGED clock
  BY <1>1 DEF CreateQueue, SetQueueAttributesRead, DropBegin, ReceiveLock
<1>2. ASSUME NEW c \in Clients,
             \/ SetQueueAttributesWrite(c) \/ DeleteQueue(c) \/ PurgeQueue(c) \/ SendLock(c)
             \/ SendInsert(c) \/ ReceiveCommit(c) \/ Abort(c)
      PROVE  UNCHANGED clock
  BY <1>2 DEF SetQueueAttributesWrite, DeleteQueue, PurgeQueue, SendLock, SendInsert, ReceiveCommit,
              Abort
<1>3. ASSUME NEW c \in Clients,
             \/ \E r \in Requests : SendSnapshot(c, r)
             \/ \E l \in leases : DeleteMessage(c, l) \/ ChangeMessageVisibility(c, l)
      PROVE  UNCHANGED clock
  BY <1>3 DEF SendSnapshot, DeleteMessage, ChangeMessageVisibility
<1>4. Tick => clock' = clock + 1
  BY DEF Tick
<1> QED
  BY <1>1, <1>2, <1>3, <1>4 DEF Next

\* Until its holder uses it, a receipt handle inside its visibility timeout stays in
\* force: no other receive, delete or visibility change, late handles included, moves
\* the message or its deadline; only purging or deleting the queue does.
THEOREM LeaseInForceHolds == Spec => LeaseInForce
<1> DEFINE Undisturbed(k) ==
             \/ \E m \in HandleRows(k)' : m.visibleAfter = k.until
             \/ \E c \in Clients : (DeleteQueue(c) \/ PurgeQueue(c)) /\ op[c].queue = k.queue
<1>1. TypeOK /\ DeliveryInv /\ [Next]_vars =>
         [\A k \in leases \cap leases' :
            k.until > clock' /\ HandleRows(k) # {}
              => \/ \E m \in HandleRows(k)' : m.visibleAfter = k.until
                 \/ \E c \in Clients : /\ DeleteQueue(c) \/ PurgeQueue(c)
                                       /\ op[c].queue = k.queue]_vars
  <2> SUFFICES ASSUME TypeOK, DeliveryInv, Next,
                      NEW k \in leases, k \in leases', k.until > clock', HandleRows(k) # {}
               PROVE  Undisturbed(k)
    OBVIOUS
  <2>1. k.until > clock
    <3>1. clock' = clock \/ clock' = clock + 1
      BY ClockStep
    <3>2. k.until \in Nat /\ clock \in Nat
      BY DEF TypeOK
    <3> QED BY <3>1, <3>2
  <2>2. PICK m \in messages : HandleRows(k) = {m} /\ m.visibleAfter = k.until /\ m.visibleAfter > clock
    BY <2>1, LeasedRow
  <2>3. m.queue = k.queue /\ m.id = k.id /\ m.handle = k.handle
    BY <2>2 DEF HandleRows
  <2>4. m \in messages' => Undisturbed(k)
    BY <2>2, <2>3 DEF HandleRows
  <2> HIDE DEF Undisturbed
  <2>5. CASE Untouched
    BY <2>2, <2>4, <2>5 DEF Untouched
  <2>6. ASSUME NEW c \in Clients, NEW l \in leases, DeleteMessage(c, l) PROVE m \in messages'
    <3>1. k # l
      BY <2>6 DEF DeleteMessage
    <3>2. m \notin HandleRows(l)
      BY <2>3, <3>1 DEF HandleRows, DeliveryInv, UniqueHandles
    <3> QED BY <2>2, <2>6, <3>2 DEF DeleteMessage
  <2>7. ASSUME NEW c \in Clients, DeleteQueue(c) \/ PurgeQueue(c) PROVE Undisturbed(k)
    <3>1. CASE op[c].queue = k.queue
      BY <2>7, <3>1 DEF Undisturbed
    <3>2. CASE op[c].queue # k.queue
      BY <2>2, <2>3, <2>4, <2>7, <3>2 DEF DeleteQueue, PurgeQueue, DeleteAllMessages, RowsOf
    <3> QED BY <3>1, <3>2
  <2>8. ASSUME NEW c \in Clients, SendInsert(c) PROVE m \in messages'
    BY <2>2, <2>8 DEF SendInsert
  <2>9. ASSUME NEW c \in Clients, ReceiveCommit(c) PROVE m \in messages'
    <3>1. CASE \E S, order : Commits(c, S, order)
      <4>1. PICK S, order : Commits(c, S, order)
        BY <3>1
      <4>2. \A x \in S : x.visibleAfter <= op[c].now
        BY <2>9, <4>1, CommittedSelection
      <4>3. op[c].now <= clock /\ op[c].now \in Nat /\ clock \in Nat /\ m.visibleAfter \in Nat
        BY <2>9, <4>1, CommittedSelection
           DEF ReceiveCommit, DeliveryInv, PastReadings, TypeOK, Rows, ReceivingOps
      <4>4. m \notin S
        BY <2>2, <4>2, <4>3
      <4> QED BY <2>2, <4>1, <4>4 DEF Commits
    <3>2. CASE Untouched
      BY <2>2, <3>2 DEF Untouched
    <3> QED BY <2>9, <3>1, <3>2, ReceiveCases
  <2>10. ASSUME NEW c \in Clients, NEW l \in leases, ChangeMessageVisibility(c, l)
         PROVE  Undisturbed(k)
    <3>1. PICK v \in Visibilities :
            /\ messages' = (messages \ HandleRows(l))
                             \cup {[x EXCEPT !.visibleAfter = clock + v] : x \in HandleRows(l)}
            /\ leases' = (leases \ {l}) \cup {[l EXCEPT !.until = clock + v]}
      BY <2>10 DEF ChangeMessageVisibility
    <3>2. CASE k = l
      <4>1. k.until = clock + v
        BY <3>1, <3>2 DEF TypeOK
      <4> DEFINE n == [m EXCEPT !.visibleAfter = clock + v]
      <4>2. n \in messages'
        BY <2>2, <3>1, <3>2
      <4>3. /\ n.visibleAfter = clock + v /\ n.queue = m.queue
            /\ n.id = m.id /\ n.handle = m.handle
        BY <2>2 DEF TypeOK, Rows
      <4> HIDE DEF n
      <4> QED BY <2>3, <4>1, <4>2, <4>3 DEF Undisturbed, HandleRows
    <3>3. CASE k # l
      <4>1. m \notin HandleRows(l)
        BY <2>3, <3>3 DEF HandleRows, DeliveryInv, UniqueHandles
      <4> QED BY <2>2, <2>4, <3>1, <4>1
    <3> QED BY <3>2, <3>3
  <2>11. Tick => Untouched
    BY DEF Tick, Untouched
  <2>12. ASSUME NEW c \in Clients, NEW q \in Queues,
                \/ CreateQueue(c, q) \/ SetQueueAttributesRead(c, q) \/ ReceiveLock(c, q)
                \/ DropBegin(c, q, "deletingQueue") \/ DropBegin(c, q, "purging")
         PROVE  Untouched
    BY <2>12 DEF CreateQueue, SetQueueAttributesRead, DropBegin, ReceiveLock, Untouched
  <2>13. ASSUME NEW c \in Clients,
                \/ SetQueueAttributesWrite(c) \/ SendLock(c) \/ Abort(c)
                \/ \E r \in Requests : SendSnapshot(c, r)
         PROVE  Untouched
    BY <2>13 DEF SendSnapshot, SetQueueAttributesWrite, SendLock, Abort, Untouched
  <2> QED BY <2>4, <2>5, <2>6, <2>7, <2>8, <2>9, <2>10, <2>11, <2>12, <2>13 DEF Next
<1> QED BY <1>1, TypeCorrect, DeliveryInvariant, PTL DEF Spec, LeaseInForce

-----------------------------------------------------------------------------
(***************************************************************************)
(* The store implements queues of leased messages.  A step that touches    *)
(* rows maps to the action of LeasedQueue of the same operation, every     *)
(* other one to the clock's or to a stutter.                               *)
(***************************************************************************)

\* A row's handle counts its deliveries, so that a claim's handle is the next one.
HandleCounts == \A m \in messages : m.handle = m.receiveCount

\* A send and a redrive start at no delivery, a claim adds one to both.
LEMMA HandleCountsStep == TypeOK /\ HandleCounts /\ [Next]_vars => HandleCounts'
<1> SUFFICES ASSUME TypeOK, HandleCounts, [Next]_vars PROVE HandleCounts'
  OBVIOUS
<1>1. CASE Untouched \/ Dropped
  BY <1>1 DEF HandleCounts, Untouched, Dropped
<1>2. ASSUME NEW c \in Clients, SendInsert(c) PROVE HandleCounts'
  <2>1. SentRow(c).handle = SentRow(c).receiveCount
    BY DEF SentRow
  <2> QED BY <1>2, <2>1 DEF SendInsert, HandleCounts
<1>3. ASSUME NEW c \in Clients, ReceiveCommit(c) PROVE HandleCounts'
  <2>1. ASSUME NEW S, NEW order, Commits(c, S, order), NEW n \in messages'
        PROVE  n.handle = n.receiveCount
    <3>1. PICK m \in messages :
             \/ n = m /\ m \notin S
             \/ m \in S \ DeadOf(c, S) /\ n = Claimed(m, Until(c))
             \/ m \in DeadOf(c, S) /\ n = Redriven(op[c].attrs.redrive.target, m, order)
      BY <1>3, <2>1, CommittedRows
    <3>2. m \in Rows
      BY DEF TypeOK
    <3>3. Claimed(m, Until(c)).handle = Claimed(m, Until(c)).receiveCount
      BY <3>2, ClaimedFields
    <3>4. \A d : Redriven(d, m, order).handle = Redriven(d, m, order).receiveCount
      BY DEF Redriven
    <3> QED BY <3>1, <3>3, <3>4 DEF HandleCounts
  <2> QED BY <1>1, <1>3, <2>1, ReceiveCases DEF HandleCounts
<1>4. ASSUME NEW c \in Clients, NEW l \in leases, ChangeMessageVisibility(c, l)
      PROVE  HandleCounts'
  <2>1. PICK v \in Visibilities :
          messages' = (messages \ HandleRows(l))
                         \cup {[m EXCEPT !.visibleAfter = clock + v] : m \in HandleRows(l)}
    BY <1>4 DEF ChangeMessageVisibility
  <2>2. ASSUME NEW m \in messages
        PROVE  LET n == [m EXCEPT !.visibleAfter = clock + v] IN n.handle = n.receiveCount
    BY DEF HandleCounts, TypeOK, Rows
  <2>3. HandleRows(l) \subseteq messages
    BY DEF HandleRows
  <2> QED BY <2>1, <2>2, <2>3 DEF HandleCounts
<1> QED BY <1>1, <1>2, <1>3, <1>4, StepCases

LEMMA HandleCountsInvariant == Spec => []HandleCounts
<1>1. Init => HandleCounts
  BY DEF Init, HandleCounts
<1> QED BY <1>1, TypeCorrect, HandleCountsStep, PTL DEF Spec

\* The mapped messages are the rows, each under its origin.
Mapped ==
    /\ Standing = [o \in DOMAIN Standing |-> Standing[o]]
    /\ \A m \in messages : m.origin \in DOMAIN Standing /\ Standing[m.origin] = Stand(m)
    /\ \A o \in DOMAIN Standing : \E m \in messages : m.origin = o

LEMMA MappedRows == UniqueRows => Mapped
<1> SUFFICES ASSUME UniqueRows PROVE Mapped
  OBVIOUS
<1>1. DOMAIN Standing = {m.origin : m \in messages}
  BY DEF Standing
<1>2. ASSUME NEW m \in messages PROVE Standing[m.origin] = Stand(m)
  <2>1. (CHOOSE n \in messages : n.origin = m.origin) = m
    BY DEF UniqueRows
  <2> QED BY <2>1 DEF Standing
<1>3. Standing = [o \in DOMAIN Standing |-> Standing[o]]
  BY DEF Standing
<1> QED BY <1>1, <1>2, <1>3 DEF Mapped

\* What the steps below rely on, before and after.
MapInv == TypeOK /\ DeliveryInv /\ Booked /\ HandleCounts /\ Mapped

\* The fields of a row that a client sees, with their types.
LEMMA StandTyped ==
  ASSUME NEW m \in Rows
  PROVE  /\ Stand(m) = [queue |-> m.queue, place |-> m.id, deliveries |-> m.handle,
                        until |-> m.visibleAfter]
         /\ m.queue \in Queues /\ m.id \in Nat /\ m.handle \in Nat /\ m.visibleAfter \in Nat
         /\ m.origin \in Nat
BY DEF Stand, Rows

\* Steps that touch neither row nor handle let time pass or stutter.
LEMMA UntouchedMaps ==
  ASSUME MapInv, Untouched, clock' = clock \/ clock' = clock + 1
  PROVE  [Leased!LQNext]_Leased!queueVars
<1>1. UNCHANGED <<lastId, Standing, removed>>
  BY DEF Untouched, Standing
<1>2. {HeldHandle(l) : l \in leases}' = {HeldHandle(l) : l \in leases}
  BY DEF Untouched
<1>3. CASE clock' = clock
  BY <1>1, <1>2, <1>3 DEF Leased!queueVars
<1>4. CASE clock' = clock + 1
  BY <1>1, <1>2, <1>4 DEF Leased!LQNext, Leased!Pass
<1> QED BY <1>3, <1>4

\* Deleting or purging a queue drops its messages.
LEMMA DropMaps ==
  ASSUME MapInv, Mapped', NEW c \in Clients, DeleteQueue(c) \/ PurgeQueue(c)
  PROVE  Leased!Drop(op[c].queue) /\ op[c].queue \in Queues
<1> DEFINE q  == op[c].queue
           In == {o \in DOMAIN Standing : Standing[o].queue = q}
<1>1. q \in Queues
  BY OperationKinds DEF MapInv, DeleteQueue, PurgeQueue, DroppingOps
<1>2. /\ messages' = messages \ RowsOf(q)
      /\ removed' = removed \cup {m.origin : m \in RowsOf(q)}
      /\ UNCHANGED <<clock, lastId, leases>>
  BY DEF DeleteQueue, PurgeQueue, DeleteAllMessages
<1>3. \A m \in messages : Stand(m).queue = m.queue
  BY DEF Stand
<1>4. \A m \in messages : m \in RowsOf(q) <=> m.origin \in In
  BY <1>3 DEF MapInv, Mapped, RowsOf
<1>5. {m.origin : m \in RowsOf(q)} = In
  BY <1>4 DEF MapInv, Mapped, RowsOf
<1>6. DOMAIN Standing' = DOMAIN Standing \ In
  <2>1. \A m, n \in messages : m.origin = n.origin => m = n
    BY DEF MapInv, DeliveryInv, UniqueRows
  <2>2. \A m \in messages : m.origin \notin In => m \in messages'
    BY <1>2, <1>4
  <2>3. \A m \in messages' : m \in messages /\ m.origin \notin In
    BY <1>2, <1>4
  <2> HIDE DEF In
  <2> QED BY <2>2, <2>3 DEF MapInv, Mapped
<1>7. \A o \in DOMAIN Standing' : Standing'[o] = Standing[o]
  BY <1>2 DEF MapInv, Mapped
<1>8. Standing' = [o \in DOMAIN Standing \ In |-> Standing[o]]
  <2> HIDE DEF In
  <2> QED BY <1>6, <1>7 DEF Mapped
<1>9. {HeldHandle(l) : l \in leases}' = {HeldHandle(l) : l \in leases}
  BY <1>2
<1> QED BY <1>1, <1>2, <1>5, <1>8, <1>9 DEF Leased!Drop, Leased!Live

\* The row a receipt handle finds is the one of its message, and the handle the row's.
LEMMA HandleRow ==
  ASSUME MapInv, NEW l \in leases, HandleRows(l) # {}
  PROVE  \E m \in messages :
           /\ HandleRows(l) = {m} /\ m \in Rows /\ m.origin = l.origin
           /\ m.id = l.id /\ m.handle = l.handle
           /\ m.origin \in DOMAIN Standing /\ Standing[m.origin] = Stand(m)
           /\ HeldHandle(l) = [message |-> m.origin, place |-> m.id, delivery |-> m.handle]
<1>1. PICK m \in HandleRows(l) : TRUE
  OBVIOUS
<1>2. m \in messages /\ m.id = l.id /\ m.handle = l.handle
  BY <1>1 DEF HandleRows
<1>3. m.origin = l.origin /\ HandleRows(l) = {m} /\ m \in Rows
  BY <1>1, <1>2 DEF HandleRows, MapInv, TypeOK, DeliveryInv, UniqueHandles, UniqueRows
<1>4. m.origin \in DOMAIN Standing /\ Standing[m.origin] = Stand(m)
  BY <1>2 DEF MapInv, Mapped
<1>5. HeldHandle(l) = [message |-> m.origin, place |-> m.id, delivery |-> m.handle]
  BY <1>2, <1>3 DEF HeldHandle
<1> QED BY <1>2, <1>3, <1>4, <1>5

\* Handles of different leases differ.
LEMMA HeldHandlesDiffer ==
  ASSUME MapInv, NEW k \in leases, NEW l \in leases, HeldHandle(k) = HeldHandle(l)
  PROVE  k = l
<1>1. HeldHandle(k).place = k.id /\ HeldHandle(k).delivery = k.handle
  BY DEF HeldHandle
<1>2. HeldHandle(l).place = l.id /\ HeldHandle(l).delivery = l.handle
  BY DEF HeldHandle
<1> QED BY <1>1, <1>2 DEF MapInv, DeliveryInv, UniqueHandles

\* A delete with the current handle removes the handle's message; no other can.
LEMMA DeleteMaps ==
  ASSUME MapInv, Mapped', NEW c \in Clients, NEW l \in leases, DeleteMessage(c, l)
  PROVE  Leased!Delete(HeldHandle(l))
<1>1. PICK m \in messages :
         /\ HandleRows(l) = {m} /\ m \in Rows /\ m.origin = l.origin
         /\ m.id = l.id /\ m.handle = l.handle
         /\ m.origin \in DOMAIN Standing /\ Standing[m.origin] = Stand(m)
         /\ HeldHandle(l) = [message |-> m.origin, place |-> m.id, delivery |-> m.handle]
  BY HandleRow DEF DeleteMessage
<1>2. /\ messages' = messages \ {m} /\ removed' = removed \cup {m.origin}
      /\ leases' = leases \ {l} /\ UNCHANGED <<clock, lastId>>
  <2>1. {n.origin : n \in {m}} = {m.origin}
    OBVIOUS
  <2> QED BY <1>1, <2>1 DEF DeleteMessage
<1>3. HeldHandle(l).message = m.origin
  BY <1>1
<1>4. Leased!Current(HeldHandle(l))
  BY <1>1, <1>3 DEF Leased!Current, Leased!Live, Leased!Handle, Stand
<1>5. Standing' = [o \in DOMAIN Standing \ {m.origin} |-> Standing[o]]
  <2>1. DOMAIN Standing' = DOMAIN Standing \ {m.origin}
    <3>1. \A n \in messages : n.origin = m.origin => n = m
      BY DEF MapInv, DeliveryInv, UniqueRows
    <3>2. ASSUME NEW o \in DOMAIN Standing' PROVE o \in DOMAIN Standing \ {m.origin}
      <4>1. PICK n \in messages' : n.origin = o
        BY DEF Mapped
      <4> QED BY <1>2, <3>1, <4>1 DEF MapInv, Mapped
    <3>3. ASSUME NEW o \in DOMAIN Standing \ {m.origin} PROVE o \in DOMAIN Standing'
      <4>1. PICK n \in messages : n.origin = o
        BY DEF MapInv, Mapped
      <4> QED BY <1>2, <4>1 DEF Mapped
    <3> QED BY <3>2, <3>3
  <2>2. \A o \in DOMAIN Standing' : Standing'[o] = Standing[o]
    BY <1>2 DEF MapInv, Mapped
  <2> QED BY <2>1, <2>2 DEF Mapped
<1>6. {HeldHandle(k) : k \in leases}' = {HeldHandle(k) : k \in leases} \ {HeldHandle(l)}
  BY <1>2, HeldHandlesDiffer
<1> QED BY <1>2, <1>3, <1>4, <1>5, <1>6 DEF Leased!Delete, Leased!Live

\* A visibility change moves the deadline of the message of the current handle.
LEMMA PostponeMaps ==
  ASSUME MapInv, Mapped', NEW c \in Clients, NEW l \in leases, ChangeMessageVisibility(c, l)
  PROVE  Leased!Postpone(HeldHandle(l))
<1>1. PICK m \in messages :
         /\ HandleRows(l) = {m} /\ m \in Rows /\ m.origin = l.origin
         /\ m.id = l.id /\ m.handle = l.handle
         /\ m.origin \in DOMAIN Standing /\ Standing[m.origin] = Stand(m)
         /\ HeldHandle(l) = [message |-> m.origin, place |-> m.id, delivery |-> m.handle]
  BY HandleRow DEF ChangeMessageVisibility
<1>2. PICK v \in Visibilities :
         /\ messages' = (messages \ HandleRows(l))
                          \cup {[n EXCEPT !.visibleAfter = clock + v] : n \in HandleRows(l)}
         /\ leases' = (leases \ {l}) \cup {[l EXCEPT !.until = clock + v]}
  BY DEF ChangeMessageVisibility
<1> DEFINE n == [m EXCEPT !.visibleAfter = clock + v]
           k == [l EXCEPT !.until = clock + v]
<1>3. UNCHANGED <<clock, lastId, removed>> /\ clock \in Nat /\ v \in Nat
  BY <1>2, QueueAssumption DEF ChangeMessageVisibility, MapInv, TypeOK
<1>4. /\ n.queue = m.queue /\ n.id = m.id /\ n.handle = m.handle /\ n.origin = m.origin
      /\ n.visibleAfter = clock + v
  BY <1>1 DEF Rows
<1>5. k.id = l.id /\ k.origin = l.origin /\ k.handle = l.handle
  BY DEF MapInv, TypeOK
<1>6. messages' = (messages \ {m}) \cup {n} /\ leases' = (leases \ {l}) \cup {k}
  BY <1>1, <1>2
<1> HIDE DEF n, k
<1>7. DOMAIN Standing' = DOMAIN Standing
  BY <1>1, <1>4, <1>6 DEF MapInv, Mapped
<1>8. /\ Standing'[m.origin] = Stand(n)
      /\ Stand(n) = [queue |-> m.queue, place |-> m.id, deliveries |-> m.handle, until |-> clock + v]
  BY <1>4, <1>6 DEF Mapped, Stand
<1>9. \A o \in DOMAIN Standing \ {m.origin} : Standing'[o] = Standing[o]
  BY <1>6 DEF MapInv, Mapped
<1>10. {HeldHandle(j) : j \in leases}' = {HeldHandle(j) : j \in leases}
  <2>1. HeldHandle(k) = HeldHandle(l)
    BY <1>5 DEF HeldHandle
  <2> QED BY <1>6, <2>1
<1>11. /\ HeldHandle(l).message = m.origin /\ HeldHandle(l).place = m.id
       /\ HeldHandle(l).delivery = m.handle
  BY <1>1
<1>12. Leased!Current(HeldHandle(l))
  BY <1>1, <1>11 DEF Leased!Current, Leased!Live, Leased!Handle, Stand
<1>13. Standing[m.origin].queue = m.queue
  BY <1>1 DEF Stand
<1>14. Standing'[m.origin] \in [queue : {m.queue}, place : {m.id}, deliveries : {m.handle}, until : Nat]
  BY <1>3, <1>8
<1>15. Standing'[m.origin].until >= clock
  BY <1>3, <1>8
<1> QED
  BY <1>3, <1>7, <1>9, <1>10, <1>11, <1>12, <1>13, <1>14, <1>15 DEF Leased!Postpone, Leased!Live

\* A send that is no duplicate accepts a message never seen before, in a new place.
LEMMA SendMaps ==
  ASSUME MapInv, Mapped', NEW c \in Clients, SendInsert(c)
  PROVE  Untouched \/ Leased!Accept
<1> DEFINE row == SentRow(c)
           o   == lastId + 1
<1>1. UNCHANGED <<clock, removed, leases>>
  BY DEF SendInsert
<1>2. CASE UNCHANGED <<messages, lastId, accepted>>
  BY <1>1, <1>2 DEF Untouched
<1>3. CASE lastId' = lastId + 1 /\ messages' = messages \cup {SentRow(c)}
  <2>1. /\ row.origin = o /\ row.id = o /\ row.handle = 0
        /\ row.queue = op[c].request.queue /\ row.visibleAfter = op[c].visibleAfter
    BY DEF SentRow
  <2>2. op[c] \in SendingOps
    BY OperationKinds DEF SendInsert, MapInv
  <2>3. row.queue \in Queues /\ row.visibleAfter \in Nat
    BY <2>1, <2>2, QueueAssumption DEF SendingOps
  <2> HIDE DEF row
  <2>4. messages' = messages \cup {row}
    BY <1>3 DEF row
  <2>5. /\ lastId \in Nat
        /\ \A m \in messages : m.origin \in Nat /\ m.origin <= lastId
        /\ \A r \in removed : r \in Nat /\ r <= lastId
    BY DEF MapInv, TypeOK, Rows, DeliveryInv, KnownIds, Booked
  <2>6. o \notin DOMAIN Standing \cup removed
    BY <2>5 DEF MapInv, Mapped
  <2>7. DOMAIN Standing' = DOMAIN Standing \cup {o}
    <3>1. ASSUME NEW p \in DOMAIN Standing' PROVE p \in DOMAIN Standing \cup {o}
      BY <2>1, <2>4 DEF MapInv, Mapped
    <3>2. ASSUME NEW p \in DOMAIN Standing \cup {o} PROVE p \in DOMAIN Standing'
      BY <2>1, <2>4 DEF MapInv, Mapped
    <3> QED BY <3>1, <3>2
  <2>8. Standing'[o] = Stand(row)
    BY <2>1, <2>4 DEF Mapped
  <2>9. Standing'[o] \in [queue : Queues, place : {lastId'}, deliveries : {0}, until : Nat]
    BY <1>3, <2>1, <2>3, <2>8 DEF Stand
  <2>10. \A m \in DOMAIN Standing : Standing'[m] = Standing[m]
    BY <2>4 DEF MapInv, Mapped
  <2>11. {HeldHandle(l) : l \in leases}' = {HeldHandle(l) : l \in leases}
    BY <1>1
  <2>12. o \in DOMAIN Standing'
    BY <2>7
  <2> HIDE DEF o
  <2>13. \E m \in DOMAIN Standing' :
           /\ m \notin DOMAIN Standing \cup removed
           /\ DOMAIN Standing' = DOMAIN Standing \cup {m}
           /\ Standing'[m] \in [queue : Queues, place : {lastId'}, deliveries : {0}, until : Nat]
    BY <2>6, <2>7, <2>9, <2>12
  <2> QED BY <1>1, <1>3, <2>10, <2>11, <2>13 DEF Leased!Accept, Leased!Live
<1> QED BY <1>2, <1>3 DEF SendInsert

\* Where a receive that commits leaves the message of the row m: an unselected one where
\* it was, a claimed one with one delivery more, an exhausted one in a new place.
Followed(c, S, order, m) ==
    /\ m.origin \in DOMAIN Standing /\ m.origin \in DOMAIN Standing'
    /\ m.queue \in Queues /\ m.id \in Nat /\ m.handle \in Nat /\ m.id <= lastId
    /\ Standing[m.origin] = [queue |-> m.queue, place |-> m.id, deliveries |-> m.handle,
                             until |-> m.visibleAfter]
    /\ m \notin S => Standing'[m.origin] = Standing[m.origin]
    /\ m \in S => m.queue = op[c].queue /\ m.visibleAfter <= clock
    /\ m \in S \ DeadOf(c, S)
         => /\ Until(c) \in Nat
            /\ Standing'[m.origin] = [queue |-> m.queue, place |-> m.id,
                                      deliveries |-> m.handle + 1, until |-> Until(c)]
    /\ m \in DeadOf(c, S)
         => /\ op[c].attrs.redrive.target \in Queues
            /\ order[m] \in 1..Cardinality(DeadOf(c, S))
            /\ Standing'[m.origin] = [queue |-> op[c].attrs.redrive.target,
                                      place |-> lastId + order[m], deliveries |-> 0, until |-> 0]

LEMMA ReceiveSuccessors ==
  ASSUME MapInv, Mapped', NEW c \in Clients, ReceiveCommit(c), NEW S, NEW order,
         Commits(c, S, order), NEW m \in messages
  PROVE  Followed(c, S, order, m)
<1>1. m \in Rows /\ clock \in Nat /\ lastId \in Nat
  BY DEF MapInv, TypeOK
<1>2. /\ m.origin \in DOMAIN Standing
      /\ Standing[m.origin] = [queue |-> m.queue, place |-> m.id, deliveries |-> m.handle,
                               until |-> m.visibleAfter]
      /\ m.queue \in Queues /\ m.id \in Nat /\ m.handle \in Nat /\ m.visibleAfter \in Nat
  BY <1>1, StandTyped DEF MapInv, Mapped
<1>3. m.id <= lastId
  BY DEF MapInv, DeliveryInv, KnownIds
<1>4. m.origin \in DOMAIN Standing'
  BY CommittedRows DEF MapInv, Mapped
<1>5. ASSUME m \notin S PROVE Standing'[m.origin] = Standing[m.origin]
  <2>1. m \in messages'
    BY <1>5 DEF Commits
  <2> QED BY <2>1 DEF MapInv, Mapped
<1>6. ASSUME m \in S PROVE m.queue = op[c].queue /\ m.visibleAfter <= clock
  <2>1. m.queue = op[c].queue /\ m.visibleAfter <= op[c].now /\ op[c] \in ReceivingOps
    BY <1>6, CommittedSelection DEF MapInv
  <2>2. op[c].now <= clock /\ op[c].now \in Nat
    BY <2>1 DEF ReceiveCommit, MapInv, DeliveryInv, PastReadings, ReceivingOps
  <2> QED BY <1>1, <1>2, <2>1, <2>2
<1>7. ASSUME m \in S \ DeadOf(c, S)
      PROVE  /\ Until(c) \in Nat
             /\ Standing'[m.origin] = [queue |-> m.queue, place |-> m.id,
                                       deliveries |-> m.handle + 1, until |-> Until(c)]
  <2> DEFINE n == Claimed(m, Until(c))
  <2>1. n \in messages'
    BY <1>7 DEF Commits
  <2>2. /\ n.id = m.id /\ n.origin = m.origin /\ n.handle = m.receiveCount + 1
        /\ n.visibleAfter = Until(c) /\ m.handle = m.receiveCount
    BY <1>1, ClaimedFields DEF MapInv, HandleCounts
  <2>3. n.queue = m.queue
    BY <1>1 DEF Claimed, Rows
  <2>4. Until(c) \in Nat
    <3>1. op[c] \in ReceivingOps
      BY CommittedSelection DEF MapInv
    <3> QED BY <3>1 DEF Until, ReceivingOps, AttributeRecords
  <2> HIDE DEF n
  <2>5. Standing'[m.origin] = Stand(n)
    BY <2>1, <2>2 DEF Mapped
  <2> QED BY <2>2, <2>3, <2>4, <2>5 DEF Stand
<1>8. ASSUME m \in DeadOf(c, S)
      PROVE  /\ op[c].attrs.redrive.target \in Queues
             /\ order[m] \in 1..Cardinality(DeadOf(c, S))
             /\ Standing'[m.origin] = [queue |-> op[c].attrs.redrive.target,
                                       place |-> lastId + order[m], deliveries |-> 0, until |-> 0]
  <2> DEFINE n == Redriven(op[c].attrs.redrive.target, m, order)
  <2>1. n \in messages'
    BY <1>8 DEF Commits
  <2>2. /\ n.id = lastId + order[m] /\ n.origin = m.origin /\ n.handle = 0
        /\ n.visibleAfter = 0 /\ n.queue = op[c].attrs.redrive.target
    BY DEF Redriven
  <2> HIDE DEF n
  <2>3. Standing'[m.origin] = Stand(n)
    BY <2>1, <2>2 DEF Mapped
  <2>4. op[c].attrs.redrive.target \in Queues
    BY <1>8, CommittedSelection DEF MapInv
  <2>5. order[m] \in 1..Cardinality(DeadOf(c, S))
    BY <1>8 DEF Commits, Orders
  <2> QED BY <2>2, <2>3, <2>4, <2>5 DEF Stand
<1> QED BY <1>2, <1>3, <1>4, <1>5, <1>6, <1>7, <1>8 DEF Followed

\* A receive that commits hands available messages out or moves them on.
LEMMA ReceiveMaps ==
  ASSUME MapInv, Mapped', NEW c \in Clients, ReceiveCommit(c), NEW S, NEW order,
         Commits(c, S, order)
  PROVE  Leased!Receive(op[c].queue) /\ op[c].queue \in Queues
<1> DEFINE q    == op[c].queue
           Dead == DeadOf(c, S)
           Live == S \ Dead
           size == Cardinality(Dead)
<1>0. \A m \in messages : Followed(c, S, order, m)
  BY ReceiveSuccessors
<1>1. /\ lastId \in Nat /\ size \in Nat /\ lastId' = lastId + size /\ Dead \subseteq S
      /\ S \subseteq messages /\ op[c] \in ReceivingOps
      /\ UNCHANGED <<clock, accepted, removed>>
      /\ leases' = leases \cup {Lease(m, Until(c)) : m \in Live}
  BY CommittedSelection DEF Commits, MapInv, TypeOK
<1>2. q \in Queues
  BY <1>1 DEF ReceivingOps
<1>3. DOMAIN Standing' = DOMAIN Standing
  <2>1. ASSUME NEW o \in DOMAIN Standing PROVE o \in DOMAIN Standing'
    <3>1. PICK m \in messages : m.origin = o
      BY DEF MapInv, Mapped
    <3>2. Followed(c, S, order, m)
      BY <1>0
    <3> QED BY <3>1, <3>2 DEF Followed
  <2>2. ASSUME NEW o \in DOMAIN Standing' PROVE o \in DOMAIN Standing
    <3>1. PICK n \in messages' : n.origin = o
      BY DEF Mapped
    <3>2. PICK m \in messages : m.origin = o
      BY <3>1, CommittedRows DEF MapInv
    <3> QED BY <3>2 DEF MapInv, Mapped
  <2> QED BY <2>1, <2>2
\* The row decides what becomes of its message.
<1>4. ASSUME NEW m \in messages
      PROVE  /\ Leased!HandedOut(m.origin) <=> m \in Live
             /\ Leased!MovedOn(m.origin) <=> m \in Dead
             /\ m \in S => Leased!Available(m.origin, q)
  <2> DEFINE o == m.origin
  <2>1. /\ m.queue \in Queues /\ m.id \in Nat /\ m.handle \in Nat /\ m.id <= lastId
        /\ Standing[o] = [queue |-> m.queue, place |-> m.id, deliveries |-> m.handle,
                          until |-> m.visibleAfter]
        /\ m \notin S => Standing'[o] = Standing[o]
    BY <1>0 DEF Followed
  <2>2. m \in S => m.queue = q /\ m.visibleAfter <= clock
    BY <1>0 DEF Followed
  <2>3. m \in Live => /\ Until(c) \in Nat
                      /\ Standing'[o] = [queue |-> m.queue, place |-> m.id,
                                         deliveries |-> m.handle + 1, until |-> Until(c)]
    BY <1>0 DEF Followed
  <2>4. m \in Dead => /\ op[c].attrs.redrive.target \in Queues
                      /\ order[m] \in 1..size
                      /\ Standing'[o] = [queue |-> op[c].attrs.redrive.target,
                                         place |-> lastId + order[m], deliveries |-> 0, until |-> 0]
    BY <1>0 DEF Followed
  <2>5. m \in Live => Leased!HandedOut(o) /\ ~ Leased!MovedOn(o)
    BY <1>1, <2>1, <2>3 DEF Leased!HandedOut, Leased!MovedOn
  <2>6. m \in Dead => Leased!MovedOn(o) /\ ~ Leased!HandedOut(o)
    BY <1>1, <2>1, <2>4 DEF Leased!HandedOut, Leased!MovedOn
  <2>7. m \notin S => ~ Leased!MovedOn(o) /\ ~ Leased!HandedOut(o)
    BY <1>1, <2>1 DEF Leased!HandedOut, Leased!MovedOn
  <2>8. m \in S => Leased!Available(o, q)
    BY <2>1, <2>2 DEF Leased!Available
  <2> QED BY <1>1, <2>5, <2>6, <2>7, <2>8
<1>5. \A o \in DOMAIN Standing :
         \/ Standing'[o] = Standing[o]
         \/ Leased!Available(o, q) /\ (Leased!HandedOut(o) \/ Leased!MovedOn(o))
  <2> SUFFICES ASSUME NEW m \in messages
               PROVE  \/ Standing'[m.origin] = Standing[m.origin]
                      \/ /\ Leased!Available(m.origin, q)
                         /\ Leased!HandedOut(m.origin) \/ Leased!MovedOn(m.origin)
    BY DEF MapInv, Mapped
  <2>1. m \notin S => Standing'[m.origin] = Standing[m.origin]
    BY <1>0 DEF Followed
  <2> QED BY <1>4, <2>1
\* The exhausted rows are met in some order, one after the other.
<1>6. ASSUME NEW o \in DOMAIN Standing, NEW p \in DOMAIN Standing,
             Leased!MovedOn(o), Leased!MovedOn(p), Standing'[o].place = Standing'[p].place
      PROVE  o = p
  <2>1. PICK m \in messages : m.origin = o
    BY DEF MapInv, Mapped
  <2>2. PICK n \in messages : n.origin = p
    BY DEF MapInv, Mapped
  <2>3. m \in Dead /\ n \in Dead
    BY <1>4, <1>6, <2>1, <2>2
  <2>4. ASSUME NEW k \in Dead
        PROVE  Standing'[k.origin].place = lastId + order[k] /\ order[k] \in 1..size
    <3>1. Followed(c, S, order, k) /\ k \in DeadOf(c, S)
      BY <1>0, <1>1
    <3>2. order[k] \in 1..size
      BY <3>1 DEF Followed
    <3>3. Standing'[k.origin] = [queue |-> op[c].attrs.redrive.target,
                                 place |-> lastId + order[k], deliveries |-> 0, until |-> 0]
      BY <3>1 DEF Followed
    <3> QED BY <3>2, <3>3
  <2>5. order[m] \in 1..size /\ order[n] \in 1..size
    BY <2>3, <2>4
  <2>6. m = n
    <3> DEFINE i == order[m]
               j == order[n]
    <3>1. i \in Int /\ j \in Int
      <4> HIDE DEF size
      <4> QED BY <1>1, <2>5
    <3>2. lastId + i = lastId + j
      <4>1. Standing'[o].place = lastId + i /\ Standing'[p].place = lastId + j
        BY <2>1, <2>2, <2>3, <2>4
      <4> QED BY <1>6, <4>1
    <3>3. i = j
      <4> HIDE DEF i, j
      <4> QED BY <1>1, <3>1, <3>2
    <3> QED BY <2>3, <3>3 DEF Commits, Orders
  <2> QED BY <2>1, <2>2, <2>6
<1>7. {HeldHandle(l) : l \in leases}'
        = {HeldHandle(l) : l \in leases}
            \cup {Leased!Handle(o, Standing'[o]) : o \in {k \in DOMAIN Standing : Leased!HandedOut(k)}}
  <2>1. ASSUME NEW m \in Live
        PROVE  HeldHandle(Lease(m, Until(c))) = Leased!Handle(m.origin, Standing'[m.origin])
    <3>1. m \in Rows /\ m.handle = m.receiveCount
      BY <1>1 DEF MapInv, TypeOK, HandleCounts
    <3>2. /\ Lease(m, Until(c)).origin = m.origin /\ Lease(m, Until(c)).id = m.id
          /\ Lease(m, Until(c)).handle = m.handle + 1
      BY <3>1, ClaimedFields
    <3>3. Standing'[m.origin].place = m.id /\ Standing'[m.origin].deliveries = m.handle + 1
      <4>1. Followed(c, S, order, m)
        BY <1>0, <1>1
      <4>2. Standing'[m.origin] = [queue |-> m.queue, place |-> m.id,
                                   deliveries |-> m.handle + 1, until |-> Until(c)]
        BY <4>1 DEF Followed
      <4> QED BY <4>2
    <3> QED BY <3>2, <3>3 DEF HeldHandle, Leased!Handle
  <2>2. {o \in DOMAIN Standing : Leased!HandedOut(o)} = {m.origin : m \in Live}
    <3>1. \A m \in messages : m.origin \in DOMAIN Standing
      BY DEF MapInv, Mapped
    <3>2. \A o \in DOMAIN Standing : \E m \in messages : m.origin = o
      BY DEF MapInv, Mapped
    <3> QED BY <1>1, <1>4, <3>1, <3>2
  <2>3. {Leased!Handle(o, Standing'[o]) : o \in {m.origin : m \in Live}}
          = {HeldHandle(Lease(m, Until(c))) : m \in Live}
    BY <2>1
  <2>4. {HeldHandle(l) : l \in leases}'
          = {HeldHandle(l) : l \in leases} \cup {HeldHandle(Lease(m, Until(c))) : m \in Live}
    <3> HIDE DEF Live
    <3> QED BY <1>1
  <2> QED BY <2>2, <2>3, <2>4
<1>8. lastId <= lastId'
  BY <1>1
<1> QED
  BY <1>1, <1>2, <1>3, <1>5, <1>6, <1>7, <1>8 DEF Leased!Receive, Leased!Live

\* The empty store is an empty queue.
LEMMA LeasedInit == Init => Leased!LQInit
<1> SUFFICES ASSUME Init PROVE Leased!LQInit
  OBVIOUS
<1>1. messages = {} /\ clock = 1 /\ lastId = 0 /\ removed = {} /\ leases = {}
  BY DEF Init
<1>2. Standing = [m \in {} |-> 0]
  <2>1. {m.origin : m \in messages} = {}
    BY <1>1
  <2> QED BY <2>1 DEF Standing
<1>3. {HeldHandle(l) : l \in leases} = {}
  BY <1>1
<1> QED BY <1>1, <1>2, <1>3 DEF Leased!LQInit

\* Every step of the store is a step of the queues it promises, or invisible to clients.
LEMMA LeasedStep == MapInv /\ Mapped' /\ [Next]_vars => [Leased!LQNext]_Leased!queueVars
<1> SUFFICES ASSUME MapInv, Mapped', [Next]_vars
             PROVE  [Leased!LQNext]_Leased!queueVars
  OBVIOUS
<1>1. CASE UNCHANGED vars
  BY <1>1, UntouchedMaps DEF vars, Untouched
<1>2. CASE Tick
  BY <1>2, UntouchedMaps DEF Tick, Untouched
<1>3. ASSUME NEW c \in Clients, NEW q \in Queues,
             \/ CreateQueue(c, q) \/ SetQueueAttributesRead(c, q) \/ ReceiveLock(c, q)
             \/ DropBegin(c, q, "deletingQueue") \/ DropBegin(c, q, "purging")
      PROVE  [Leased!LQNext]_Leased!queueVars
  <2>1. Untouched /\ clock' = clock
    BY <1>3 DEF CreateQueue, SetQueueAttributesRead, DropBegin, ReceiveLock, Untouched
  <2> QED BY <2>1, UntouchedMaps
<1>4. ASSUME NEW c \in Clients,
             \/ SetQueueAttributesWrite(c) \/ SendLock(c) \/ Abort(c)
             \/ \E r \in Requests : SendSnapshot(c, r)
      PROVE  [Leased!LQNext]_Leased!queueVars
  <2>1. Untouched /\ clock' = clock
    BY <1>4 DEF SendSnapshot, SetQueueAttributesWrite, SendLock, Abort, Untouched
  <2> QED BY <2>1, UntouchedMaps
<1>5. ASSUME NEW c \in Clients, DeleteQueue(c) \/ PurgeQueue(c) PROVE Leased!LQNext
  BY <1>5, DropMaps DEF Leased!LQNext
<1>6. ASSUME NEW c \in Clients, SendInsert(c) PROVE [Leased!LQNext]_Leased!queueVars
  <2>1. clock' = clock
    BY <1>6 DEF SendInsert
  <2>2. CASE Untouched
    BY <2>1, <2>2, UntouchedMaps
  <2>3. CASE Leased!Accept
    BY <2>3 DEF Leased!LQNext
  <2> QED BY <1>6, <2>2, <2>3, SendMaps
<1>7. ASSUME NEW c \in Clients, ReceiveCommit(c) PROVE [Leased!LQNext]_Leased!queueVars
  <2>1. CASE Untouched
    BY <1>7, <2>1, UntouchedMaps DEF ReceiveCommit
  <2>2. ASSUME NEW S, NEW order, Commits(c, S, order) PROVE Leased!LQNext
    BY <1>7, <2>2, ReceiveMaps DEF Leased!LQNext
  <2> QED BY <1>7, <2>1, <2>2, ReceiveCases
<1>8. ASSUME NEW c \in Clients, NEW l \in leases,
             DeleteMessage(c, l) \/ ChangeMessageVisibility(c, l)
      PROVE  Leased!LQNext
  <2>1. Leased!Delete(HeldHandle(l)) \/ Leased!Postpone(HeldHandle(l))
    BY <1>8, DeleteMaps, PostponeMaps
  <2> QED BY <2>1 DEF Leased!LQNext
<1> QED BY <1>1, <1>2, <1>3, <1>4, <1>5, <1>6, <1>7, <1>8 DEF Next

\* The queues implement what they promise: whatever sends, receives, redrives, deletes,
\* purges and failures race, clients see one leased message per accepted send, handed out
\* only when available, with a handle that the next delivery voids, and never again once
\* it is gone.
THEOREM ImplementsLeasedQueueHolds == Spec => ImplementsLeasedQueue
<1>1. DeliveryInv => Mapped
  BY MappedRows DEF DeliveryInv
<1>2. TypeOK /\ DeliveryInv /\ Booked /\ HandleCounts /\ DeliveryInv' /\ [Next]_vars
        => [Leased!LQNext]_Leased!queueVars
  <2>1. DeliveryInv' => Mapped'
    BY <1>1, PTL
  <2> QED BY <1>1, <2>1, LeasedStep DEF MapInv
<1> QED
  BY <1>2, LeasedInit, TypeCorrect, DeliveryInvariant, BookedInvariant, HandleCountsInvariant, PTL
     DEF Spec, ImplementsLeasedQueue, Leased!LQSpec

-----------------------------------------------------------------------------
(***************************************************************************)
(* A receipt handle that has lost its row has lost it for good.            *)
(***************************************************************************)

\* The rows a handle finds after a step are rows it found before.
LEMMA VoidStep ==
  ASSUME TypeOK, DeliveryInv, [Next]_vars, NEW l \in leases, NEW n \in messages',
         n.id = l.id, n.queue = l.queue, n.handle = l.handle
  PROVE  HandleRows(l) # {}
<1>1. \A m \in messages : m.id = n.id /\ m.queue = n.queue /\ m.handle = n.handle
                            => HandleRows(l) # {}
  BY DEF HandleRows
<1>2. /\ l.id \in Nat /\ l.id <= lastId /\ l.handle \in Nat /\ lastId \in Nat
      /\ messages \subseteq Rows
  BY DEF TypeOK, DeliveryInv, KnownIds
<1>3. CASE Untouched \/ Dropped
  BY <1>1, <1>3 DEF Untouched, Dropped
<1>4. ASSUME NEW c \in Clients, SendInsert(c) PROVE HandleRows(l) # {}
  <2>1. SentRow(c).id = lastId + 1
    BY DEF SentRow
  <2>2. n # SentRow(c)
    BY <1>2, <2>1
  <2> QED BY <1>1, <1>4, <2>2 DEF SendInsert
<1>5. ASSUME NEW c \in Clients, ReceiveCommit(c) PROVE HandleRows(l) # {}
  <2>1. ASSUME NEW S, NEW order, Commits(c, S, order) PROVE HandleRows(l) # {}
    <3>1. PICK m \in messages :
             \/ n = m /\ m \notin S
             \/ m \in S \ DeadOf(c, S) /\ n = Claimed(m, Until(c))
             \/ m \in DeadOf(c, S) /\ n = Redriven(op[c].attrs.redrive.target, m, order)
      BY <1>5, <2>1, CommittedRows
    <3>2. CASE n = m
      BY <1>1, <3>2
    \* A claim numbers its handle above every one given out for the row.
    <3>3. CASE n = Claimed(m, Until(c))
      <4>1. n.id = m.id /\ n.handle = m.receiveCount + 1 /\ m.receiveCount \in Nat
        BY <1>2, <3>3, ClaimedFields DEF Rows
      <4>2. l.handle <= m.receiveCount
        BY <4>1 DEF DeliveryInv, UniqueHandles
      <4> QED BY <1>2, <4>1, <4>2
    \* A redriven row has an id of its own.
    <3>4. CASE m \in DeadOf(c, S) /\ n = Redriven(op[c].attrs.redrive.target, m, order)
      <4>1. n.id = lastId + order[m]
        BY <3>4 DEF Redriven
      <4>2. order[m] \in Nat \ {0}
        BY <1>5, <2>1, <3>4, CommittedSelection
      <4> QED BY <1>2, <4>1, <4>2
    <3> QED BY <3>1, <3>2, <3>3, <3>4
  <2> QED BY <1>3, <1>5, <2>1, ReceiveCases
<1>6. ASSUME NEW c \in Clients, NEW k \in leases, ChangeMessageVisibility(c, k)
      PROVE  HandleRows(l) # {}
  <2>1. PICK m \in messages : n.id = m.id /\ n.queue = m.queue /\ n.handle = m.handle
    BY <1>6, ChangedRows
  <2> QED BY <1>1, <2>1
<1> QED BY <1>3, <1>4, <1>5, <1>6, StepCases

\* Once a later receive, a delete, a redrive or a purge has taken its row from a receipt
\* handle, no step gives it one again: a consumer that finished too late cannot delete
\* or extend the delivery of another, now or later (DeleteMessage and
\* ChangeMessageVisibility look the row up by receipt_handle).
THEOREM VoidHandlesStayVoid ==
  Spec => [][\A l \in leases : HandleRows(l) = {} => HandleRows(l)' = {}]_vars
<1>1. TypeOK /\ DeliveryInv /\ [Next]_vars =>
         [\A l \in leases : HandleRows(l) = {} => HandleRows(l)' = {}]_vars
  <2> SUFFICES ASSUME TypeOK, DeliveryInv, [Next]_vars, NEW l \in leases, HandleRows(l)' # {}
               PROVE  HandleRows(l) # {}
    OBVIOUS
  <2>1. HandleRows(l)' = {m \in messages' : m.queue = l.queue /\ m.id = l.id /\ m.handle = l.handle}
    BY DEF HandleRows
  <2>2. PICK n \in messages' : n.queue = l.queue /\ n.id = l.id /\ n.handle = l.handle
    BY <2>1
  <2> QED BY <2>2, VoidStep
<1> QED BY <1>1, TypeCorrect, DeliveryInvariant, PTL DEF Spec
=============================================================================
