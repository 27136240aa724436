----------------------------- MODULE PipesProofs -----------------------------
(***************************************************************************)
(* What Pipes promises of its polls, for every number of pipes, messages,  *)
(* events, records, writers and iterators.                                 *)
(*                                                                         *)
(* The argument follows the poll.  A batch has no item twice; the phase of *)
(* a poll fits the source of its pipe; and for a pipe whose cursor was     *)
(* stored by its own polls alone, the invariant says of every phase what   *)
(* was handed over or left out, and what is still in hand, relative to the *)
(* iterator or the event that the phase will store.                        *)
(***************************************************************************)
EXTENDS Pipes, FiniteSetTheorems, TLAPS

-----------------------------------------------------------------------------
(* The invariant, part by part.                                            *)

\* A poll of a pipe is under way; of pipe n.
Polling == poll.at \in Phases
PollOf(n) == Polling /\ poll.pipe.n = n
\* Pipe n was given x; or the end of a poll left it out.
Handed(n, x) == <<n, x>> \in handed
Passed(n, x) == <<n, x>> \in handed \cup leftOut

\* Where the iterator that a poll holds stands.
NextOf == IF poll.next \in Iterators THEN iterators[poll.next] ELSE None

\* Pipes are numbered as they are created (CreatePipe).
Numbered ==
    /\ pipe # None => pipe.n <= created
    /\ Polling => poll.pipe.n <= created
    /\ \A h \in handed : h[1] <= created

\* Every ordinal below n is that of a record.
Filled(n) == \A o \in 0..(n - 1) : \E r \in stream : r.ord = o

\* The ordinals in use have no gap, whatever writers race: the next one is read off
\* the records that are there (nextDynamoStreamSeqOrd).
NoGap ==
    /\ \A r \in stream : Filled(r.ord)
    /\ \A w \in Writers : Filled(claimed[w])

\* The records below an ordinal.
Below(n) == {r \in stream : r.ord < n}

\* The phase of a poll fits the source of its pipe, and its batch is what the
\* phase needs (pollPipeFromSQS, pollPipeFromDynamoStream, pollPipeFromEventBus).
Staged == Polling =>
    /\ poll.at = "receive" => poll.pipe.source = "queue"
    /\ poll.at \in {"open", "store"} => poll.pipe.source = "stream"
    /\ poll.at = "store" => poll.next \in Iterators
    /\ poll.at = "page" => poll.pipe.source \in {"stream", "bus"}
    /\ poll.at = "item" => poll.batch # <<>>
    /\ poll.at = "delete" =>
         /\ poll.pipe.source = "queue" /\ poll.batch # <<>>
         /\ Handed(poll.pipe.n, Head(poll.batch))
    /\ poll.at = "last" => poll.pipe.source = "bus" /\ poll.batch = <<>>

\* The poll of a pipe that still exists has its source.
SameSource == pipe # None /\ PollOf(pipe.n) => poll.pipe.source = pipe.source

\* What a pipe of a stream was given lies below its cursor, and so does what its
\* poll hands over; with no cursor it was given nothing.
AtMostOnceOfPipe ==
    pipe # None /\ pipe.source = "stream" /\ pipe.n \notin disturbed =>
      /\ pipe.cursor = Start =>
           /\ \A h \in handed : h[1] # pipe.n
           /\ ~(PollOf(pipe.n) /\ poll.at = "item")
      /\ Position # None =>
           /\ \A h \in handed : h[1] = pipe.n => h[2] \in Below(Position)
           /\ PollOf(pipe.n) /\ poll.at = "item" => ToSet(poll.batch) \subseteq Below(Position)

\* What a poll of a stream is about to hand over was not handed over yet, and lies
\* below the iterator it stores.
AtMostOnceOfPoll ==
    Polling /\ poll.pipe.source = "stream" /\ poll.pipe.n \notin disturbed =>
      /\ poll.at = "open" => \A h \in handed : h[1] # poll.pipe.n
      /\ poll.at \in {"page", "store"} /\ NextOf # None =>
           \A h \in handed : h[1] = poll.pipe.n => h[2] \in Below(NextOf)
      /\ poll.at = "store" /\ NextOf # None => ToSet(poll.batch) \subseteq Below(NextOf)
      /\ poll.at \in {"store", "item"} => \A x \in ToSet(poll.batch) : ~Handed(poll.pipe.n, x)

\* Of each ordinal below the iterator of a poll a record was passed or is in its batch.
PassedOfPoll ==
    Polling /\ poll.pipe.source = "stream" /\ poll.pipe.n \notin disturbed
            /\ poll.at \in {"page", "store"} /\ NextOf # None =>
      \A o \in 0..(NextOf - 1) : \E r \in stream :
        r.ord = o /\ (Passed(poll.pipe.n, r) \/ (poll.at = "store" /\ r \in ToSet(poll.batch)))

\* The ids of the events on the bus.
Ids == {e.id : e \in ToSet(bus)}

\* The cursor of a bus is the id of one of its events.
BusCursor ==
    pipe # None /\ pipe.source = "bus" /\ pipe.n \notin disturbed =>
      pipe.cursor \in {Start} \cup Ids

\* A poll of a bus reads behind the cursor as it is; all that lies up to the id it
\* will store was handed over, is in its batch or is late.
PassedOfBusPoll ==
    pipe # None /\ pipe.source = "bus" /\ pipe.n \notin disturbed /\ PollOf(pipe.n) =>
      /\ poll.at = "page" => poll.pipe.cursor = pipe.cursor
      /\ poll.at \in {"item", "last"} =>
           /\ poll.next \in Ids
           /\ \A e \in ToSet(bus) : e.id <= poll.next =>
                Handed(pipe.n, e) \/ e \in ToSet(poll.batch) \/ Late(e)

-----------------------------------------------------------------------------
(* Batches.                                                                *)

\* A batch is a sequence of items, no longer than a poll takes, with no item twice.
LEMMA BatchIs ==
    ASSUME NEW b \in Batches
    PROVE  /\ b \in Seq(Items) /\ Len(b) \in 0..BatchSize /\ DOMAIN b = 1..Len(b)
           /\ \A i, j \in 1..Len(b) : b[i] = b[j] => i = j
  <1>1. b \in Seq(Items) /\ Len(b) <= BatchSize /\ IsInjective(b)
    BY DEF Batches
  <1>2. Len(b) \in Nat /\ DOMAIN b = 1..Len(b)
    BY <1>1
  <1> QED
    BY <1>1, <1>2, IdsAssumption DEF IsInjective

\* ... and every such sequence is a batch.
LEMMA IsBatch ==
    ASSUME NEW b \in Seq(Items), Len(b) <= BatchSize,
           \A i, j \in 1..Len(b) : b[i] = b[j] => i = j
    PROVE  b \in Batches
  <1>1. IsInjective(b)
    BY DEF IsInjective
  <1> QED
    BY <1>1 DEF Batches

\* What is taken from items is a batch of them.
LEMMA BatchOfItems ==
    ASSUME NEW ms \in SUBSET Items, NEW b \in BatchesOf(ms)
    PROVE  b \in Batches /\ ToSet(b) \subseteq ms
  <1>1. PICK k \in 0..BatchSize : b \in [1..k -> ms]
    BY DEF BatchesOf
  <1>2. k \in Nat
    BY IdsAssumption
  <1>3. b \in Seq(Items) /\ Len(b) = k /\ DOMAIN b = 1..k
    BY <1>1, <1>2
  <1>4. Len(b) <= BatchSize
    BY <1>3, IdsAssumption
  <1>5. b \in Batches
    BY <1>3, <1>4 DEF Batches, BatchesOf
  <1>6. ToSet(b) \subseteq ms
    BY <1>1, <1>3 DEF ToSet
  <1> QED
    BY <1>5, <1>6

\* The empty batch.
LEMMA EmptyBatch == <<>> \in Batches /\ ToSet(<<>>) = {}
  <1>1. <<>> \in Seq(Items) /\ Len(<<>>) = 0
    OBVIOUS
  <1>2. <<>> \in Batches
    <2>1. \A i, j \in 1..Len(<<>>) : <<>>[i] = <<>>[j] => i = j
      BY <1>1
    <2>2. Len(<<>>) <= BatchSize
      BY <1>1, IdsAssumption
    <2> QED
      BY <1>1, <2>1, <2>2, IsBatch
  <1>3. DOMAIN <<>> = 1..0
    BY <1>1, <1>2, BatchIs
  <1> QED
    BY <1>2, <1>3 DEF ToSet

\* What is in a batch is an item at some place.
LEMMA BatchItems ==
    ASSUME NEW b \in Batches
    PROVE  /\ \A i \in 1..Len(b) : b[i] \in ToSet(b)
           /\ \A x \in ToSet(b) : x \in Items /\ \E i \in 1..Len(b) : x = b[i]
  <1>1. DOMAIN b = 1..Len(b) /\ b \in Seq(Items)
    BY BatchIs
  <1> QED
    BY <1>1 DEF ToSet

\* A batch that is not empty is its first item and the rest, which does not hold
\* it; its last item is one of its items.
LEMMA BatchSplit ==
    ASSUME NEW b \in Batches, b # <<>>
    PROVE  /\ Tail(b) \in Batches /\ Head(b) \in Items
           /\ ToSet(b) = {Head(b)} \cup ToSet(Tail(b))
           /\ Head(b) \notin ToSet(Tail(b))
           /\ Last(b) \in ToSet(b)
  <1>1. /\ b \in Seq(Items) /\ Len(b) \in 0..BatchSize /\ DOMAIN b = 1..Len(b)
        /\ \A i, j \in 1..Len(b) : b[i] = b[j] => i = j
    BY BatchIs
  <1>2. Len(b) \in Nat \ {0} /\ BatchSize \in Nat
    BY <1>1, IdsAssumption
  <1>3. /\ Tail(b) \in Seq(Items) /\ Len(Tail(b)) = Len(b) - 1
        /\ \A i \in 1..(Len(b) - 1) : Tail(b)[i] = b[i + 1]
        /\ Head(b) = b[1] /\ Head(b) \in Items
    BY <1>1, <1>2
  <1>4. Tail(b) \in Batches
    <2>1. ASSUME NEW i \in 1..Len(Tail(b)), NEW j \in 1..Len(Tail(b)), Tail(b)[i] = Tail(b)[j]
          PROVE  i = j
      <3>1. i \in Int /\ j \in Int /\ i + 1 \in 1..Len(b) /\ j + 1 \in 1..Len(b)
        BY <1>2, <1>3
      <3>2. b[i + 1] = b[j + 1]
        BY <2>1, <1>3
      <3> QED
        BY <3>1, <3>2, <1>1
    <2>2. Len(Tail(b)) <= BatchSize
      BY <1>1, <1>2, <1>3
    <2> QED
      BY <1>3, <2>1, <2>2, IsBatch
  <1>5. DOMAIN Tail(b) = 1..(Len(b) - 1)
    BY <1>4, <1>3, BatchIs
  <1>6. ASSUME NEW x \in ToSet(b) PROVE x \in {Head(b)} \cup ToSet(Tail(b))
    <2>1. PICK i \in 1..Len(b) : x = b[i]
      BY BatchItems
    <2>2. CASE i = 1
      BY <2>1, <2>2, <1>3
    <2>3. CASE i # 1
      <3>1. i - 1 \in 1..(Len(b) - 1) /\ (i - 1) + 1 = i
        BY <2>3, <1>2
      <3> QED
        BY <3>1, <2>1, <1>3, <1>5 DEF ToSet
    <2> QED
      BY <2>2, <2>3
  <1>7. ASSUME NEW x \in ToSet(Tail(b)) PROVE x \in ToSet(b) /\ x # Head(b)
    <2>1. PICK i \in 1..(Len(b) - 1) : x = b[i + 1]
      BY <1>3, <1>5 DEF ToSet
    <2>2. i + 1 \in 1..Len(b) /\ i + 1 # 1 /\ 1 \in 1..Len(b)
      BY <1>2
    <2> QED
      BY <2>1, <2>2, <1>1, <1>3 DEF ToSet
  <1>8. Head(b) \in ToSet(b) /\ Last(b) \in ToSet(b)
    <2>1. 1 \in 1..Len(b) /\ Len(b) \in 1..Len(b)
      BY <1>2
    <2> QED
      BY <2>1, <1>1, <1>3 DEF ToSet, Last
  <1> QED
    BY <1>3, <1>4, <1>6, <1>7, <1>8

-----------------------------------------------------------------------------
(* Ordinals.                                                               *)

\* A nonempty finite set of numbers has a largest element: the last ordinal
\* of a page is defined (GetDynamoStreamRecords).
LEMMA LargestExists ==
  ASSUME NEW S \in SUBSET Nat, IsFiniteSet(S), S # {}
  PROVE  \E n \in S : \A k \in S : k <= n
  <1> DEFINE Above(n) == {k \in S : k > n}
             Tops == {Above(n) : n \in S}
  <1>1. Tops \subseteq SUBSET S /\ Tops # {}
    OBVIOUS
  <1>2. PICK T \in Tops : \A U \in Tops : <<U, T>> \notin StrictSubsetOrdering(S)
    <2> HIDE DEF Tops
    <2>1. Tops \subseteq FiniteSubsetsOf(S)
      BY <1>1, FS_FiniteSubsetsOfFinite
    <2> QED BY <1>1, <2>1, FS_StrictSubsetOrderingWellFounded, WFMin
  <1>3. PICK n \in S : T = Above(n)
    BY <1>2
  <1>4. ASSUME NEW k \in S, k > n PROVE FALSE
    <2>1. k \in Nat /\ n \in Nat /\ S \subseteq Nat
      OBVIOUS
    <2>2. \A j \in Nat : j > k => j > n
      BY <1>4, <2>1
    <2>3. k \in T
      BY <1>3, <1>4
    <2>4. k \notin Above(k)
      BY <2>1
    <2>5. Above(k) \subseteq T
      BY <1>3, <2>1, <2>2
    <2>6. <<Above(k), T>> \in StrictSubsetOrdering(S)
      BY <1>3, <2>3, <2>4, <2>5 DEF StrictSubsetOrdering
    <2> QED BY <1>2, <2>6
  <1> QED BY <1>4

\* The highest ordinal of a nonempty finite set of records is the ordinal of
\* one of them, and no other is higher.
LEMMA MaxOrdReached ==
    ASSUME NEW S \in SUBSET Record, IsFiniteSet(S), S # {}
    PROVE  \E r \in S : MaxOrd(S) = r.ord /\ \A s \in S : s.ord <= r.ord
  <1> DEFINE O == {r.ord : r \in S}
             f == [r \in S |-> r.ord]
  <1>1. O \in SUBSET Nat /\ O # {}
    BY DEF Record
  <1>2. IsFiniteSet(O)
    <2>1. f \in Surjection(S, O)
      BY DEF Surjection
    <2> HIDE DEF O, f
    <2> QED  BY <2>1, FS_Surjection
  <1>3. MaxOrd(S) = Max(O)
    BY DEF MaxOrd
  <1>4. PICK n \in O : \A k \in O : k <= n
    <2> HIDE DEF O
    <2> QED  BY <1>1, <1>2, LargestExists
  <1>5. Max(O) \in O /\ \A k \in O : k <= Max(O)
    <2>1. \E x \in O : \A y \in O : x >= y
      BY <1>1, <1>4
    <2> HIDE DEF O
    <2> QED  BY <1>1, <2>1 DEF Max
  <1>6. PICK r \in S : Max(O) = r.ord
    BY <1>5
  <1> QED  BY <1>3, <1>5, <1>6

\* A record's ordinal is a number, and so are the records and pages of a stream finite.
LEMMA StreamIs ==
    ASSUME TypeOK
    PROVE  /\ \A r \in stream : r \in Record /\ r.ord \in Nat
           /\ IsFiniteSet(stream) /\ stream \subseteq Items
  BY DEF TypeOK, Record, Items

\* Below the ordinal that a writer reads all are filled (nextDynamoStreamSeqOrd).
LEMMA NextOrdIs ==
    ASSUME TypeOK, NoGap
    PROVE  NextOrd(stream) \in Nat /\ Filled(NextOrd(stream))
  <1>1. CASE stream = {}
    <2>1. NextOrd(stream) = 0
      BY <1>1 DEF NextOrd, MaxOrd
    <2> QED
      BY <2>1 DEF Filled
  <1>2. CASE stream # {}
    <2>1. PICK r \in stream : MaxOrd(stream) = r.ord
      BY <1>2, MaxOrdReached DEF TypeOK
    <2>2. r.ord \in Nat /\ NextOrd(stream) = r.ord + 1
      BY <2>1, StreamIs DEF NextOrd
    <2>3. ASSUME NEW o \in 0..r.ord PROVE \E q \in stream : q.ord = o
      <3>1. o = r.ord \/ o \in 0..(r.ord - 1)
        BY <2>2
      <3> QED
        BY <3>1 DEF NoGap, Filled
    <2>4. 0..(r.ord + 1 - 1) = 0..r.ord
      BY <2>2
    <2> QED
      BY <2>2, <2>3, <2>4 DEF Filled
  <1> QED
    BY <1>1, <1>2

\* The next page begins behind the last ordinal of this one.  The page holds a record
\* of every ordinal before that (GetDynamoStreamRecords).
LEMMA PageIs ==
    ASSUME TypeOK, NoGap, NEW from \in Nat, NEW b \in StreamPage(from)
    PROVE  /\ b \in Batches /\ NextPosition(ToSet(b), from) \in Nat
           /\ from <= NextPosition(ToSet(b), from)
           /\ \A r \in ToSet(b) : r \in stream /\ from <= r.ord /\ r.ord < NextPosition(ToSet(b), from)
           /\ \A o \in from..(NextPosition(ToSet(b), from) - 1) : \E r \in ToSet(b) : r.ord = o
  <1> DEFINE due == {r \in stream : r.ord >= from}
             page == ToSet(b)
             to == NextPosition(page, from)
  <1>1. /\ b \in BatchesOf(due) /\ page \in Pages(stream, from, BatchSize)
    BY DEF StreamPage
  <1>2. /\ page \subseteq due /\ \A r \in page, d \in due \ page : r.ord <= d.ord
    BY <1>1 DEF Pages
  <1>3. due \subseteq Items
    BY StreamIs
  <1>4. b \in Batches
    BY <1>1, <1>3, BatchOfItems
  <1>5. \A r \in due : r \in stream /\ r.ord \in Nat /\ from <= r.ord
    BY StreamIs
  <1>6. page \in SUBSET Record /\ IsFiniteSet(page)
    BY <1>2, <1>5, StreamIs, FS_Subset
  <1>7. CASE page = {}
    <2>1. to = from
      BY <1>7 DEF NextPosition, After
    <2> HIDE DEF page, to
    <2> QED
      BY <2>1, <1>4, <1>7 DEF page, to
  <1>8. CASE page # {}
    <2> HIDE DEF page
    <2>1. PICK q \in page : MaxOrd(page) = q.ord /\ \A r \in page : r.ord <= q.ord
      BY <1>6, <1>8, MaxOrdReached
    <2>2. to = q.ord + 1
      BY <2>1, <1>8 DEF NextPosition, After
    <2>3. q \in due /\ q.ord \in Nat /\ from <= q.ord
      BY <1>2, <1>5
    <2> HIDE DEF to, due
    <2>4. ASSUME NEW r \in page PROVE r \in stream /\ from <= r.ord /\ r.ord < to
      <3>1. r \in due
        BY <1>2
      <3>2. r.ord \in Nat /\ r.ord <= q.ord
        BY <3>1, <2>1, <1>5
      <3> QED
        BY <3>1, <3>2, <2>2, <2>3, <1>5
    <2>5. ASSUME NEW o \in from..(to - 1) PROVE \E r \in page : r.ord = o
      <3>1. o \in Nat /\ from <= o /\ (o = q.ord \/ o < q.ord)
        BY <2>2, <2>3
      <3>2. CASE o < q.ord
        <4>1. o \in 0..(q.ord - 1) /\ q \in stream
          BY <3>1, <3>2, <2>3, <1>5
        <4>2. PICK r \in stream : r.ord = o
          BY <4>1 DEF NoGap, Filled
        <4>3. r \in due
          BY <4>2, <3>1 DEF due
        <4>4. r \in page
          BY <4>2, <4>3, <3>1, <3>2, <2>3, <1>2
        <4> QED
          BY <4>2, <4>4
      <3> QED
        BY <3>1, <3>2
    <2>6. to \in Nat /\ from <= to
      BY <2>2, <2>3
    <2> QED
      BY <2>4, <2>5, <2>6, <1>4 DEF page, to
  <1> QED
    BY <1>7, <1>8

-----------------------------------------------------------------------------
(* Polls.                                                                  *)

\* A poll of a pipe is a record of its parts.
LEMMA PollIs ==
    ASSUME TypeOK, Polling
    PROVE  /\ poll \in Poll /\ poll.pipe \in Pipe /\ poll.batch \in Batches
           /\ poll.next \in {Start} \cup Events \cup Iterators
           /\ poll.pipe.n \in 1..MaxPipes /\ poll.pipe.source \in Sources
           /\ poll # Idle /\ poll # Listed
  <1>1. Idle.at \notin Phases /\ Listed.at \notin Phases
    BY DEF Idle, Listed, Phases
  <1>2. poll \in Poll /\ poll # Idle /\ poll # Listed
    BY <1>1 DEF TypeOK, Polling
  <1> QED
    BY <1>2 DEF Poll, Pipe

\* Otherwise it is idle or has the list of pipes.
LEMMA NoPoll ==
    /\ ~(Idle.at \in Phases) /\ ~(Listed.at \in Phases)
    /\ TypeOK /\ ~Polling => poll \in {Idle, Listed}
  BY DEF Idle, Listed, Phases, TypeOK, Polling, Poll

\* A poll that goes on with a batch.
LEMMA GoesOn ==
    ASSUME TypeOK, Polling, NEW b \in Batches, GoOn(b)
    PROVE  \/ poll' = Idle /\ b = <<>> /\ poll.pipe.source # "bus"
           \/ /\ poll' \in Poll /\ poll'.pipe = poll.pipe /\ poll'.next = poll.next /\ poll'.batch = b
              /\ \/ poll'.at = "item" /\ b # <<>>
                 \/ poll'.at = "last" /\ b = <<>> /\ poll.pipe.source = "bus"
  <1>1. poll \in Poll
    BY PollIs
  <1>2. CASE b # <<>>
    <2>1. poll' = [poll EXCEPT !.at = "item", !.batch = b]
      BY <1>2 DEF GoOn
    <2> QED
      BY <2>1, <1>1, <1>2 DEF Poll, Phases
  <1>3. CASE b = <<>> /\ poll.pipe.source = "bus"
    <2>1. poll' = [poll EXCEPT !.at = "last", !.batch = b]
      BY <1>3 DEF GoOn
    <2> QED
      BY <2>1, <1>1, <1>3 DEF Poll, Phases
  <1>4. CASE b = <<>> /\ poll.pipe.source # "bus"
    BY <1>4 DEF GoOn
  <1> QED
    BY <1>2, <1>3, <1>4

\* What a poll leaves out are items of its pipe.
LEMMA LeftItems ==
    ASSUME TypeOK, Polling
    PROVE  Left(poll.batch) \subseteq (1..MaxPipes) \X Items
  BY PollIs, BatchItems DEF Left

-----------------------------------------------------------------------------
(* Type correctness.                                                       *)

\* The first part of the invariant: types, ordinals, phases.
BaseInv == TypeOK /\ NoGap /\ Staged

\* Initially.
LEMMA BaseInit == Init => BaseInv
  <1> SUFFICES ASSUME Init PROVE BaseInv
    OBVIOUS
  <1>1. bus \in Seq(Event) /\ IsInjective(bus)
    BY EmptyBatch, BatchIs DEF Init, IsInjective
  <1>2. TypeOK
    <2>1. messages \in [Messages -> Message]
      BY DEF Init, Message
    <2>2. iterators \in [Iterators -> Nat \cup {None}] /\ claimed \in [Writers -> Nat \cup {-1}]
      BY DEF Init
    <2>3. created \in 0..MaxPipes /\ stream \subseteq Record /\ IsFiniteSet(stream)
      BY IdsAssumption, FS_EmptySet DEF Init
    <2>4. poll = Idle /\ pipe = None /\ handed = {} /\ leftOut = {} /\ redelivered = {} /\ disturbed = {}
      BY DEF Init
    <2>5. ticking \in BOOLEAN
      BY DEF Init
    <2> QED
      BY <1>1, <2>1, <2>2, <2>3, <2>4, <2>5 DEF TypeOK
  <1>3. ~Polling
    BY NoPoll DEF Init, Polling
  <1>4. NoGap
    <2>1. stream = {} /\ claimed = [w \in Writers |-> -1]
      BY DEF Init
    <2>2. 0..(-1 - 1) = {}
      OBVIOUS
    <2> QED
      BY <2>1, <2>2 DEF NoGap, Filled
  <1> QED
    BY <1>2, <1>3, <1>4 DEF BaseInv, Staged

\* A request, a step of a source.
LEMMA TypeOutside ==
    ASSUME TypeOK, NoGap,
           \/ CreatePipe \/ DeletePipe \/ OtherRequest
           \/ \E m \in Messages : SendMessage(m) \/ Reappear(m) \/ ReceiveElsewhere(m) \/ DeleteElsewhere(m)
           \/ \E w \in Writers : Claim(w) \/ AppendRecord(w)
           \/ PutEvent
           \/ \E i \in Iterators : IteratorExpires(i)
    PROVE  TypeOK'
  <1>1. CASE CreatePipe
    <2>1. created + 1 \in 1..MaxPipes /\ created + 1 \in 0..MaxPipes
      BY <1>1, IdsAssumption DEF CreatePipe, TypeOK
    <2>2. pipe' \in Pipe
      BY <1>1, <2>1 DEF CreatePipe, Pipe
    <2> QED
      BY <1>1, <2>1, <2>2 DEF CreatePipe, TypeOK, history, records
  <1>2. CASE DeletePipe \/ OtherRequest
    BY <1>2 DEF DeletePipe, OtherRequest, TypeOK, history, records
  <1>3. CASE \E m \in Messages : SendMessage(m) \/ Reappear(m) \/ ReceiveElsewhere(m) \/ DeleteElsewhere(m)
    <2> PICK m \in Messages : SendMessage(m) \/ Reappear(m) \/ ReceiveElsewhere(m) \/ DeleteElsewhere(m)
      BY <1>3
    <2>1. messages' \in [Messages -> Message]
      <3>1. /\ messages \in [Messages -> Message]
            /\ messages[m].at \in {"unsent", "queue", "deleted", "taken"}
            /\ messages[m].hidden \in BOOLEAN /\ messages[m].handle \in {"none", "poll", "other"}
        BY DEF TypeOK, Message
      <3>2. CASE SendMessage(m)
        BY <3>1, <3>2 DEF SendMessage, Message
      <3>3. CASE Reappear(m)
        BY <3>1, <3>3 DEF Reappear, Message
      <3>4. CASE ReceiveElsewhere(m)
        <4>1. messages' = [messages EXCEPT ![m] = [[messages[m] EXCEPT !.hidden = TRUE] EXCEPT !.handle = "other"]]
          BY <3>1, <3>4 DEF ReceiveElsewhere, Message
        <4> QED
          BY <4>1, <3>1 DEF Message
      <3>5. CASE DeleteElsewhere(m)
        BY <3>1, <3>5 DEF DeleteElsewhere, Message
      <3> QED
        BY <3>2, <3>3, <3>4, <3>5
    <2>2. UNCHANGED <<pipe, created, stream, claimed, iterators, bus, ticking, poll, history>>
      BY DEF SendMessage, Reappear, ReceiveElsewhere, DeleteElsewhere, records
    <2> QED
      BY <2>1, <2>2 DEF TypeOK, history
  <1>4. CASE \E w \in Writers : Claim(w) \/ AppendRecord(w)
    <2> PICK w \in Writers : Claim(w) \/ AppendRecord(w)
      BY <1>4
    <2>1. CASE Claim(w)
      <3>1. NextOrd(stream) \in Nat
        BY NextOrdIs
      <3>2. claimed' \in [Writers -> Nat \cup {-1}] /\ stream' = stream
        BY <2>1, <3>1 DEF Claim, TypeOK
      <3> QED
        BY <2>1, <3>2 DEF Claim, TypeOK, history
    <2>2. CASE AppendRecord(w)
      <3> DEFINE new == [ord |-> claimed[w], n |-> Cardinality(stream) + 1]
      <3>1. claimed[w] \in Nat /\ Cardinality(stream) \in Nat
        BY <2>2, FS_CardinalityType DEF AppendRecord, TypeOK
      <3>2. new \in Record
        BY <3>1 DEF Record
      <3>3. stream' = stream \cup {new} /\ claimed' = [claimed EXCEPT ![w] = -1]
        BY <2>2 DEF AppendRecord
      <3> HIDE DEF new
      <3>4. stream' \subseteq Record /\ IsFiniteSet(stream')
        BY <3>2, <3>3, FS_AddElement DEF TypeOK
      <3>5. claimed' \in [Writers -> Nat \cup {-1}]
        BY <3>3 DEF TypeOK
      <3> QED
        BY <2>2, <3>4, <3>5 DEF AppendRecord, TypeOK, history
    <2> QED
      BY <2>1, <2>2
  <1>5. CASE PutEvent
    <2>1. PICK e \in Event \ ToSet(bus) : bus' = Append(bus, e)
      BY <1>5 DEF PutEvent
    <2>2. /\ bus \in Seq(Event) /\ IsInjective(bus) /\ DOMAIN bus = 1..Len(bus)
          /\ Len(bus) \in Nat
      BY DEF TypeOK
    <2>3. /\ bus' \in Seq(Event) /\ DOMAIN bus' = 1..(Len(bus) + 1)
          /\ \A i \in 1..Len(bus) : bus'[i] = bus[i]
          /\ bus'[Len(bus) + 1] = e
      BY <2>1, <2>2
    <2>4. \A i \in 1..Len(bus) : bus[i] # e
      BY <2>1, <2>2 DEF ToSet
    <2>5. IsInjective(bus')
      <3> SUFFICES ASSUME NEW i \in 1..(Len(bus) + 1), NEW j \in 1..(Len(bus) + 1), bus'[i] = bus'[j]
                   PROVE  i = j
        BY <2>3 DEF IsInjective
      <3>1. CASE i \in 1..Len(bus) /\ j \in 1..Len(bus)
        BY <3>1, <2>2, <2>3 DEF IsInjective
      <3>2. CASE i \notin 1..Len(bus) \/ j \notin 1..Len(bus)
        <4>1. \A k \in 1..(Len(bus) + 1) : k \notin 1..Len(bus) => k = Len(bus) + 1
          BY <2>2
        <4> QED
          BY <4>1, <3>2, <2>3, <2>4
      <3> QED
        BY <3>1, <3>2
    <2> QED
      BY <1>5, <2>3, <2>5 DEF PutEvent, TypeOK, history, records
  <1>6. CASE \E i \in Iterators : IteratorExpires(i)
    BY <1>6 DEF IteratorExpires, TypeOK, history, records
  <1> QED
    BY <1>1, <1>2, <1>3, <1>4, <1>5, <1>6

\* A step of the ticker's poll.
LEMMA TypePoll ==
    ASSUME BaseInv, ListRunningPipes \/ PollStep \/ Restart
    PROVE  TypeOK'
  <1> USE DEF At
  <1>1. TypeOK /\ NoGap /\ Staged
    BY DEF BaseInv
  <1>2. CASE ListRunningPipes
    BY <1>1, <1>2 DEF ListRunningPipes, TypeOK, history, records
  <1>3. CASE GetPipe
    <2>1. poll' \in Poll \cup {Idle, Listed}
      <3>1. CASE pipe = None \/ pipe.state # "RUNNING"
        BY <3>1, <1>3 DEF GetPipe
      <3>2. CASE ~(pipe = None \/ pipe.state # "RUNNING")
        <4>1. pipe \in Pipe /\ pipe.source \in {"queue", "stream", "bus"}
              /\ pipe.cursor \in {Start} \cup Events \cup Iterators
          BY <3>2, <1>1, IdsAssumption DEF TypeOK, Pipe
        <4>2. First(pipe.source, pipe.cursor) \in Phases
          BY <4>1 DEF First, Phases
        <4> QED
          BY <3>2, <4>1, <4>2, <1>3, EmptyBatch DEF GetPipe, Poll
      <3> QED
        BY <3>1, <3>2
    <2> QED
      BY <2>1, <1>1, <1>3 DEF GetPipe, TypeOK, history, records
  <1>4. CASE Receive
    <2>1. Polling
      BY <1>4 DEF Receive, Polling, Phases
    <2>2. PICK b \in Received :
            /\ messages' = [m \in Messages |->
                 IF m \in ToSet(b) THEN [messages[m] EXCEPT !.hidden = TRUE, !.handle = "poll"] ELSE messages[m]]
            /\ poll' = IF b = <<>> THEN Idle ELSE [poll EXCEPT !.at = "item", !.batch = b]
      BY <1>4 DEF Receive
    <2>3. b \in Batches
      BY BatchOfItems DEF Received, Visible, Items
    <2>4. poll' \in Poll \cup {Idle}
      BY <2>1, <2>2, <2>3, <1>1, PollIs DEF Poll, Phases
    <2>5. messages' \in [Messages -> Message]
      BY <2>2, <1>1 DEF TypeOK, Message
    <2> QED
      BY <2>4, <2>5, <1>1, <1>4 DEF Receive, TypeOK, history, records
  <1>5. CASE OpenIterator
    <2>1. Polling
      BY <1>5 DEF OpenIterator, Polling, Phases
    <2>2. PICK i \in Iterators : /\ iterators' = [iterators EXCEPT ![i] = 0]
                                 /\ poll' = [poll EXCEPT !.at = "page", !.next = i]
      BY <1>5 DEF OpenIterator, Fresh
    <2>3. poll' \in Poll
      BY <2>1, <2>2, <1>1, PollIs DEF Poll, Phases
    <2>4. iterators' \in [Iterators -> Nat \cup {None}]
      BY <2>2, <1>1, IdsAssumption DEF TypeOK
    <2> QED
      BY <2>3, <2>4, <1>1, <1>5 DEF OpenIterator, TypeOK, history, records
  <1>6. CASE ReadPage
    <2> DEFINE from == iterators[poll.next]
    <2>1. Polling
      BY <1>6 DEF ReadPage, Polling, Phases
    <2>2. from \in Nat
      BY <1>6, <1>1 DEF ReadPage, TypeOK
    <2>3. PICK j \in Iterators, b \in StreamPage(from) :
            /\ iterators' = [iterators EXCEPT ![poll.next] = None, ![j] = NextPosition(ToSet(b), from)]
            /\ poll' = [poll EXCEPT !.at = "store", !.next = j, !.batch = b]
      BY <1>6 DEF ReadPage, Fresh
    <2> HIDE DEF from
    <2>4. b \in Batches /\ NextPosition(ToSet(b), from) \in Nat
      BY <2>2, <1>1, PageIs
    <2>5. iterators' \in [Iterators -> Nat \cup {None}]
      BY <2>3, <2>4, <1>1 DEF TypeOK
    <2>6. poll' \in Poll
      BY <2>1, <2>3, <2>4, <1>1, PollIs DEF Poll, Phases
    <2> QED
      BY <2>5, <2>6, <1>1, <1>6 DEF ReadPage, TypeOK, history, records
  <1>7. CASE NoIterator
    BY <1>1, <1>7 DEF NoIterator, TypeOK, history, records
  <1>8. CASE StoreCursor \/ StoreLast
    <2>1. Polling
      BY <1>8 DEF StoreCursor, StoreLast, Polling, Phases
    <2>2. poll' \in Poll \cup {Idle}
      BY <1>8, <2>1, <1>1, PollIs, GoesOn DEF StoreCursor, StoreLast
    <2>3. pipe' \in Pipe \cup {None} /\ disturbed' \subseteq 1..MaxPipes
      <3>1. SetPipeSourceCursor
        BY <1>8 DEF StoreCursor, StoreLast
      <3>2. pipe # None => pipe \in Pipe
        BY <1>1 DEF TypeOK
      <3>3. poll.next \in {Start} \cup Events \cup Iterators /\ poll.pipe.n \in 1..MaxPipes
        BY <2>1, <1>1, PollIs
      <3>4. disturbed \subseteq 1..MaxPipes /\ pipe \in Pipe \cup {None}
        BY <1>1 DEF TypeOK
      <3> QED
        BY <3>1, <3>2, <3>3, <3>4 DEF SetPipeSourceCursor, Pipe
    <2> QED
      BY <2>2, <2>3, <1>1, <1>8 DEF StoreCursor, StoreLast, TypeOK, records
  <1>9. CASE ReadBus
    <2>1. Polling
      BY <1>9 DEF ReadBus, Polling, Phases
    <2> DEFINE es == {e \in ToSet(bus) : e.id > poll.pipe.cursor}
    <2>2. PICK b \in PageOf(es) :
            poll' = IF b = <<>> THEN Idle ELSE [poll EXCEPT !.at = "item", !.batch = b, !.next = Last(b).id]
      BY <1>9 DEF ReadBus
    <2>4. ToSet(bus) \subseteq Event
      BY <1>1 DEF TypeOK, ToSet
    <2>3. b \in Batches /\ ToSet(b) \subseteq ToSet(bus)
      BY <2>2, <2>4, BatchOfItems DEF PageOf, Items
    <2>5. b # <<>> => Last(b).id \in Events
      BY <2>3, <2>4, BatchSplit DEF Event
    <2>6. poll' \in Poll \cup {Idle}
      BY <2>1, <2>2, <2>3, <2>5, <1>1, PollIs DEF Poll, Phases
    <2> QED
      BY <2>6, <1>1, <1>9 DEF ReadBus, TypeOK, history, records
  <1>10. CASE HandOver
    <2>1. Polling /\ poll.batch # <<>>
      BY <1>10, <1>1 DEF HandOver, Polling, Phases, Staged
    <2>2. Tail(poll.batch) \in Batches /\ Head(poll.batch) \in Items
      BY <2>1, <1>1, PollIs, BatchSplit
    <2>3. poll' \in Poll \cup {Idle}
      <3>1. poll \in Poll
        BY <2>1, <1>1, PollIs
      <3>2. CASE poll.pipe.source = "queue"
        BY <3>1, <3>2, <1>10 DEF HandOver, Poll, Phases
      <3>3. CASE poll.pipe.source # "queue"
        BY <3>3, <2>1, <2>2, <1>1, <1>10, GoesOn DEF HandOver
      <3> QED
        BY <3>2, <3>3
    <2>4. handed' \subseteq (1..MaxPipes) \X Items /\ redelivered' \subseteq 1..MaxPipes
      BY <2>1, <2>2, <1>1, <1>10, PollIs DEF HandOver, TypeOK
    <2> QED
      BY <2>3, <2>4, <1>1, <1>10 DEF HandOver, TypeOK, records
  <1>11. CASE HandOverFails
    BY <1>1, <1>11, LeftItems DEF HandOverFails, EndPoll, TypeOK, Polling, Phases, records
  <1>12. CASE DeleteMessage
    <2>1. Polling /\ poll.batch # <<>>
      BY <1>12, <1>1 DEF DeleteMessage, Polling, Phases, Staged
    <2>2. Tail(poll.batch) \in Batches
      BY <2>1, <1>1, PollIs, BatchSplit
    <2>3. poll' \in Poll \cup {Idle}
      BY <2>1, <2>2, <1>1, <1>12, GoesOn DEF DeleteMessage
    <2>4. messages' \in [Messages -> Message]
      BY <1>1, <1>12 DEF DeleteMessage, TypeOK, Message
    <2> QED
      BY <2>3, <2>4, <1>1, <1>12 DEF DeleteMessage, TypeOK, history, records
  <1>13. CASE PollFails \/ Restart
    <2>1. poll' = Idle /\ leftOut' \subseteq (1..MaxPipes) \X Items
      <3>1. CASE Polling
        BY <3>1, <1>1, <1>13, LeftItems DEF PollFails, Restart, EndPoll, TypeOK
      <3>2. CASE ~Polling
        BY <3>2, <1>1, <1>13, NoPoll DEF PollFails, Restart, EndPoll, TypeOK
      <3> QED
        BY <3>1, <3>2
    <2>2. claimed' \in [Writers -> Nat \cup {-1}]
      BY <1>1, <1>13 DEF PollFails, Restart, TypeOK, records
    <2> QED
      BY <2>1, <2>2, <1>1, <1>13 DEF PollFails, Restart, TypeOK, records
  <1> QED
    BY <1>2, <1>3, <1>4, <1>5, <1>6, <1>7, <1>8, <1>9, <1>10, <1>11, <1>12, <1>13 DEF PollStep

-----------------------------------------------------------------------------
(* What each step does to the variables that the invariants relate.        *)

\* The steps that are not the ticker's.
Elsewhere ==
    \/ CreatePipe \/ DeletePipe \/ OtherRequest
    \/ \E m \in Messages : SendMessage(m) \/ Reappear(m) \/ ReceiveElsewhere(m) \/ DeleteElsewhere(m)
    \/ \E w \in Writers : Claim(w) \/ AppendRecord(w)
    \/ PutEvent
    \/ \E i \in Iterators : IteratorExpires(i)

\* The steps at which a poll ends where it stands.
Ending == HandOverFails \/ PollFails \/ Restart \/ NoIterator

\* A step is one of these.
LEMMA StepCases ==
    ASSUME Next
    PROVE  \/ Elsewhere \/ Ending \/ ListRunningPipes \/ GetPipe \/ Receive \/ OpenIterator
           \/ ReadPage \/ StoreCursor \/ ReadBus \/ HandOver \/ DeleteMessage \/ StoreLast
  BY DEF Next, PollStep, Elsewhere, Ending

\* Outside the ticker the poll and the history stay.
LEMMA ElsewhereIs ==
    ASSUME Elsewhere
    PROVE  /\ UNCHANGED <<poll, handed, leftOut, redelivered, disturbed>>
           /\ stream \subseteq stream'
           /\ CreatePipe \/ DeletePipe \/ (UNCHANGED <<pipe, created>>)
           /\ PutEvent \/ UNCHANGED bus
           /\ iterators' = iterators \/ \E i \in Iterators : iterators' = [iterators EXCEPT ![i] = None]
  BY DEF Elsewhere, CreatePipe, DeletePipe, OtherRequest, SendMessage, Reappear, ReceiveElsewhere,
         DeleteElsewhere, Claim, AppendRecord, PutEvent, IteratorExpires, history, records

\* At the end of a poll the pipe stays, and what is left out of a stream's batch is noted.
LEMMA EndingIs ==
    ASSUME TypeOK, Ending
    PROVE  /\ poll' = Idle
           /\ UNCHANGED <<pipe, created, stream, iterators, bus, messages, handed, redelivered, disturbed>>
           /\ leftOut \subseteq leftOut'
           /\ Polling /\ poll.pipe.source = "stream" /\ poll.at # "page" =>
                \A x \in ToSet(poll.batch) : <<poll.pipe.n, x>> \in leftOut'
  <1>1. CASE NoIterator
    BY <1>1 DEF NoIterator, history, records, At
  <1>2. CASE HandOverFails
    <2>1. Polling
      BY <1>2 DEF HandOverFails, Polling, Phases, At
    <2> QED
      BY <1>2, <2>1 DEF HandOverFails, EndPoll, Left, records
  <1>3. CASE PollFails \/ Restart
    <2>1. CASE Polling
      BY <1>3, <2>1, PollIs DEF PollFails, Restart, EndPoll, Left, records
    <2>2. CASE ~Polling
      BY <1>3, <2>2, NoPoll DEF PollFails, Restart, EndPoll, records
    <2> QED
      BY <2>1, <2>2 DEF PollFails, Restart, records
  <1> QED
    BY <1>1, <1>2, <1>3 DEF Ending

\* GetPipe begins a poll of the pipe as it is, or ends it.
LEMMA GetPipeIs ==
    ASSUME TypeOK, GetPipe
    PROVE  /\ ~Polling
           /\ UNCHANGED <<pipe, created, messages, stream, iterators, bus, handed, leftOut, redelivered, disturbed>>
           /\ \/ poll' = Idle
              \/ /\ pipe # None /\ pipe \in Pipe
                 /\ poll'.at = First(pipe.source, pipe.cursor)
                 /\ poll'.pipe = pipe /\ poll'.batch = <<>> /\ poll'.next = pipe.cursor
                 /\ pipe.source \in {"queue", "stream", "bus"}
  <1>1. ~Polling
    BY DEF GetPipe, Polling, At, Phases
  <1>2. pipe # None => pipe \in Pipe /\ pipe.source \in {"queue", "stream", "bus"}
    BY IdsAssumption DEF TypeOK, Pipe
  <1> QED
    BY <1>1, <1>2 DEF GetPipe, history, records

\* The phase in which a poll begins.
LEMMA FirstIs ==
    ASSUME NEW c
    PROVE  /\ First("queue", c) = "receive" /\ First("bus", c) = "page"
           /\ First("stream", c) = IF c = Start THEN "open" ELSE "page"
  BY DEF First

\* Receive.
LEMMA ReceiveIs ==
    ASSUME TypeOK, Receive
    PROVE  /\ Polling /\ poll.at = "receive"
           /\ UNCHANGED <<pipe, created, stream, iterators, bus, handed, leftOut, redelivered, disturbed>>
           /\ \A m \in Messages : messages'[m].at = messages[m].at
           /\ \/ poll' = Idle
              \/ /\ poll' \in Poll /\ poll'.at = "item" /\ poll'.pipe = poll.pipe
                 /\ poll'.batch # <<>>
  <1>1. Polling /\ poll.at = "receive"
    BY DEF Receive, Polling, Phases, At
  <1>2. PICK b \in Received :
          /\ messages' = [m \in Messages |->
               IF m \in ToSet(b) THEN [messages[m] EXCEPT !.hidden = TRUE, !.handle = "poll"] ELSE messages[m]]
          /\ poll' = IF b = <<>> THEN Idle ELSE [poll EXCEPT !.at = "item", !.batch = b]
    BY DEF Receive
  <1>3. b \in Batches
    BY BatchOfItems DEF Received, Visible, Items
  <1>4. \A m \in Messages : messages'[m].at = messages[m].at
    BY <1>2 DEF TypeOK, Message
  <1>5. poll \in Poll
    BY <1>1, PollIs
  <1>6. CASE b = <<>>
    BY <1>1, <1>2, <1>4, <1>6 DEF Receive, history, records
  <1>7. CASE b # <<>>
    <2>1. poll' = [poll EXCEPT !.at = "item", !.batch = b]
      BY <1>2, <1>7
    <2>2. poll' \in Poll /\ poll'.at = "item" /\ poll'.pipe = poll.pipe /\ poll'.batch = b
      BY <2>1, <1>3, <1>5 DEF Poll, Phases
    <2> QED
      BY <1>1, <1>4, <1>7, <2>2 DEF Receive, history, records
  <1> QED
    BY <1>6, <1>7

\* OpenIterator takes an id that neither the pipe nor the poll names.
LEMMA OpenIteratorIs ==
    ASSUME TypeOK, OpenIterator
    PROVE  /\ Polling /\ poll.at = "open"
           /\ UNCHANGED <<pipe, created, stream, bus, messages, handed, leftOut, redelivered, disturbed>>
           /\ poll' \in Poll /\ poll'.at = "page" /\ poll'.pipe = poll.pipe /\ poll'.batch = poll.batch
           /\ \E i \in Iterators : /\ iterators' = [iterators EXCEPT ![i] = 0] /\ poll'.next = i
                                   /\ pipe # None => pipe.cursor # i
  <1>1. Polling /\ poll.at = "open"
    BY DEF OpenIterator, Polling, Phases, At
  <1>2. PICK i \in Fresh : /\ iterators' = [iterators EXCEPT ![i] = 0]
                           /\ poll' = [poll EXCEPT !.at = "page", !.next = i]
    BY DEF OpenIterator
  <1>3. i \in Iterators /\ (pipe # None => pipe.cursor # i)
    BY DEF Fresh
  <1>4. poll \in Poll
    BY <1>1, PollIs
  <1>5. poll' \in Poll /\ poll'.at = "page" /\ poll'.pipe = poll.pipe /\ poll'.batch = poll.batch /\ poll'.next = i
    BY <1>2, <1>3, <1>4 DEF Poll, Phases
  <1> QED
    BY <1>1, <1>2, <1>3, <1>5 DEF OpenIterator, history, records

\* ReadPage replaces the iterator by one that neither the pipe nor the poll names.
LEMMA ReadPageIs ==
    ASSUME TypeOK, NoGap, ReadPage
    PROVE  /\ Polling /\ poll.at = "page" /\ poll.pipe.source = "stream"
           /\ UNCHANGED <<pipe, created, stream, claimed, bus, messages, handed, leftOut, redelivered, disturbed>>
           /\ poll' \in Poll /\ poll'.at = "store" /\ poll'.pipe = poll.pipe
           /\ poll.next \in Iterators /\ iterators[poll.next] \in Nat
           /\ \E j \in Iterators, to \in Nat :
                /\ iterators[poll.next] <= to
                /\ iterators' = [iterators EXCEPT ![poll.next] = None, ![j] = to]
                /\ poll'.next = j /\ j # poll.next /\ (pipe # None => pipe.cursor # j)
                /\ \A r \in ToSet(poll'.batch) : r \in Below(to) /\ iterators[poll.next] <= r.ord
                /\ \A o \in iterators[poll.next]..(to - 1) : \E r \in ToSet(poll'.batch) : r.ord = o
  <1> DEFINE from == iterators[poll.next]
  <1>1. Polling /\ poll.at = "page" /\ poll.pipe.source = "stream" /\ poll.next \in Iterators
    BY DEF ReadPage, Polling, Phases, At
  <1>2. from \in Nat
    BY <1>1 DEF ReadPage, TypeOK
  <1>3. PICK j \in Fresh, b \in StreamPage(from) :
          /\ iterators' = [iterators EXCEPT ![poll.next] = None, ![j] = NextPosition(ToSet(b), from)]
          /\ poll' = [poll EXCEPT !.at = "store", !.next = j, !.batch = b]
    BY DEF ReadPage
  <1>4. j \in Iterators /\ j # poll.next /\ (pipe # None => pipe.cursor # j)
    BY <1>1 DEF Fresh, Polling
  <1>5. UNCHANGED <<pipe, created, stream, claimed, bus, messages, handed, leftOut, redelivered, disturbed>>
    BY DEF ReadPage, history, records
  <1>6. poll \in Poll
    BY <1>1, PollIs
  <1> DEFINE to == NextPosition(ToSet(b), from)
  <1> HIDE DEF from
  <1>7. /\ b \in Batches /\ to \in Nat /\ from <= to
        /\ \A r \in ToSet(b) : r \in stream /\ from <= r.ord /\ r.ord < to
        /\ \A o \in from..(to - 1) : \E r \in ToSet(b) : r.ord = o
    BY <1>2, PageIs
  <1>8. poll' \in Poll /\ poll'.at = "store" /\ poll'.pipe = poll.pipe /\ poll'.next = j /\ poll'.batch = b
    BY <1>3, <1>4, <1>6, <1>7 DEF Poll, Phases
  <1>9. iterators' = [iterators EXCEPT ![poll.next] = None, ![j] = to]
    BY <1>3
  <1> HIDE DEF to
  <1>10. \E k \in Iterators, n \in Nat :
           /\ from <= n
           /\ iterators' = [iterators EXCEPT ![poll.next] = None, ![k] = n]
           /\ poll'.next = k /\ k # poll.next /\ (pipe # None => pipe.cursor # k)
           /\ \A r \in ToSet(poll'.batch) : r \in Below(n) /\ from <= r.ord
           /\ \A o \in from..(n - 1) : \E r \in ToSet(poll'.batch) : r.ord = o
    <2>1. \A r \in ToSet(poll'.batch) : r \in Below(to) /\ from <= r.ord
      BY <1>7, <1>8 DEF Below
    <2>2. \A o \in from..(to - 1) : \E r \in ToSet(poll'.batch) : r.ord = o
      BY <1>7, <1>8
    <2> QED
      BY <2>1, <2>2, <1>4, <1>7, <1>8, <1>9
  <1> QED
    BY <1>1, <1>2, <1>5, <1>8, <1>10 DEF from

\* A cursor is stored in the polled pipe, or some pipe is disturbed.
LEMMA CursorStored ==
    ASSUME TypeOK, SetPipeSourceCursor
    PROVE  /\ disturbed \subseteq disturbed'
           /\ pipe' # None => /\ pipe # None
                              /\ pipe'.source = pipe.source /\ pipe'.n = pipe.n
                              /\ pipe'.n \notin disturbed' =>
                                   \/ pipe' = pipe /\ poll.pipe.n # pipe.n
                                   \/ poll.pipe.n = pipe.n /\ pipe'.cursor = poll.next
  <1>1. pipe # None => pipe \in Pipe
    BY DEF TypeOK
  <1> QED
    BY <1>1 DEF SetPipeSourceCursor, Pipe

\* StoreCursor.
LEMMA StoreCursorIs ==
    ASSUME TypeOK, StoreCursor
    PROVE  /\ Polling /\ poll.at = "store" /\ SetPipeSourceCursor
           /\ UNCHANGED <<created, messages, stream, iterators, bus, handed, leftOut, redelivered>>
           /\ \/ poll' = Idle /\ poll.batch = <<>>
              \/ /\ poll' \in Poll /\ poll'.pipe = poll.pipe /\ poll'.next = poll.next /\ poll'.batch = poll.batch
                 /\ \/ poll'.at = "item" /\ poll.batch # <<>>
                    \/ poll'.at = "last" /\ poll.batch = <<>> /\ poll.pipe.source = "bus"
  <1>1. Polling /\ poll.at = "store"
    BY DEF StoreCursor, Polling, Phases, At
  <1>2. poll.batch \in Batches
    BY <1>1, PollIs
  <1> QED
    BY <1>1, <1>2, GoesOn DEF StoreCursor, records

\* StoreLast.
LEMMA StoreLastIs ==
    ASSUME StoreLast
    PROVE  /\ Polling /\ poll.at = "last" /\ SetPipeSourceCursor /\ poll' = Idle
           /\ UNCHANGED <<created, messages, stream, iterators, bus, handed, leftOut, redelivered>>
  BY DEF StoreLast, Polling, Phases, At, records

\* What is on the bus are events.
LEMMA BusIs ==
    ASSUME TypeOK
    PROVE  \A e \in ToSet(bus) : e \in Event /\ e.id \in Events
  <1>1. ToSet(bus) \subseteq Event
    BY DEF TypeOK, ToSet
  <1> QED
    BY <1>1 DEF Event

\* ReadBus takes the first events behind the cursor as the poll found it.
LEMMA ReadBusIs ==
    ASSUME TypeOK, ReadBus
    PROVE  /\ Polling /\ poll.at = "page" /\ poll.pipe.source = "bus"
           /\ UNCHANGED <<pipe, created, messages, stream, iterators, bus, handed, leftOut, redelivered, disturbed>>
           /\ \/ poll' = Idle
              \/ /\ poll' \in Poll /\ poll'.at = "item" /\ poll'.pipe = poll.pipe /\ poll'.batch # <<>>
                 /\ poll'.next \in Ids
                 /\ \A e \in ToSet(bus) : e.id > poll.pipe.cursor /\ e.id <= poll'.next => e \in ToSet(poll'.batch)
  <1> DEFINE es == {e \in ToSet(bus) : e.id > poll.pipe.cursor}
  <1>1. Polling /\ poll.at = "page" /\ poll.pipe.source = "bus"
    BY DEF ReadBus, Polling, Phases, At
  <1>2. PICK b \in PageOf(es) :
          poll' = IF b = <<>> THEN Idle ELSE [poll EXCEPT !.at = "item", !.batch = b, !.next = Last(b).id]
    BY DEF ReadBus
  <1>3. /\ ToSet(bus) \subseteq Event
        /\ \A e \in ToSet(bus) : e.id \in Events /\ e.id \in Nat
    BY BusIs, IdsAssumption
  <1>4. /\ b \in Batches /\ ToSet(b) \subseteq es
        /\ \A e \in es \ ToSet(b), x \in ToSet(b) : x.id < e.id
    BY <1>2, <1>3, BatchOfItems DEF PageOf, Items
  <1>5. poll \in Poll
    BY <1>1, PollIs
  <1>6. CASE b = <<>>
    BY <1>1, <1>2, <1>6 DEF ReadBus, history, records
  <1>7. CASE b # <<>>
    <2>1. Last(b) \in ToSet(b)
      BY <1>4, <1>7, BatchSplit
    <2>2. Last(b) \in ToSet(bus) /\ Last(b).id \in Events /\ Last(b).id \in Nat
      BY <2>1, <1>3, <1>4
    <2>3. poll' = [poll EXCEPT !.at = "item", !.batch = b, !.next = Last(b).id]
      BY <1>2, <1>7
    <2>4. poll' \in Poll /\ poll'.at = "item" /\ poll'.pipe = poll.pipe /\ poll'.batch = b /\ poll'.next = Last(b).id
      BY <2>2, <2>3, <1>4, <1>5 DEF Poll, Phases
    <2>5. ASSUME NEW e \in ToSet(bus), e.id > poll.pipe.cursor, e.id <= Last(b).id
          PROVE  e \in ToSet(b)
      <3>1. e \in es /\ e.id \in Nat
        BY <2>5, <1>3
      <3> HIDE DEF es
      <3>2. SUFFICES ASSUME e \notin ToSet(b) PROVE FALSE
        OBVIOUS
      <3>3. Last(b).id < e.id
        BY <3>1, <3>2, <2>1, <1>4
      <3> QED
        BY <3>1, <3>3, <2>2, <2>5
    <2>6. Last(b).id \in Ids
      BY <2>2 DEF Ids
    <2> QED
      BY <1>1, <1>7, <2>4, <2>5, <2>6 DEF ReadBus, history, records
  <1> QED
    BY <1>6, <1>7

\* HandOver takes the first item of the batch to the target of the polled pipe.
LEMMA HandOverIs ==
    ASSUME TypeOK, Staged, HandOver
    PROVE  /\ Polling /\ poll.at = "item" /\ poll.batch # <<>>
           /\ UNCHANGED <<pipe, created, messages, stream, iterators, bus, leftOut, disturbed>>
           /\ handed' = handed \cup {<<poll.pipe.n, Head(poll.batch)>>}
           /\ Head(poll.batch) \in Items
           /\ \/ poll' = Idle /\ Tail(poll.batch) = <<>>
              \/ /\ poll' \in Poll /\ poll'.pipe = poll.pipe /\ poll'.next = poll.next
                 /\ \/ /\ poll'.at = "delete" /\ poll.pipe.source = "queue"
                       /\ poll'.batch = poll.batch
                    \/ /\ poll'.at = "item" /\ poll'.batch = Tail(poll.batch) /\ poll'.batch # <<>>
                    \/ /\ poll'.at = "last" /\ poll'.batch = Tail(poll.batch) /\ poll'.batch = <<>>
                       /\ poll.pipe.source = "bus"
  <1>1. Polling /\ poll.at = "item" /\ poll.batch # <<>>
    BY DEF HandOver, Polling, Phases, At, Staged
  <1>2. poll \in Poll /\ poll.batch \in Batches
    BY <1>1, PollIs
  <1>3. Tail(poll.batch) \in Batches /\ Head(poll.batch) \in Items
    BY <1>1, <1>2, BatchSplit
  <1>4. UNCHANGED <<pipe, created, messages, stream, iterators, bus, leftOut, disturbed>>
        /\ handed' = handed \cup {<<poll.pipe.n, Head(poll.batch)>>}
    BY DEF HandOver, records
  <1>5. CASE poll.pipe.source = "queue"
    <2>1. poll' = [poll EXCEPT !.at = "delete"]
      BY <1>5 DEF HandOver
    <2>2. poll' \in Poll /\ poll'.pipe = poll.pipe /\ poll'.next = poll.next /\ poll'.at = "delete"
          /\ poll'.batch = poll.batch
      BY <2>1, <1>2 DEF Poll, Phases
    <2> QED
      BY <1>1, <1>3, <1>4, <1>5, <2>2
  <1>6. CASE poll.pipe.source # "queue"
    <2>1. GoOn(Tail(poll.batch))
      BY <1>6 DEF HandOver
    <2> QED
      BY <2>1, <1>1, <1>3, <1>4, GoesOn
  <1> QED
    BY <1>5, <1>6

\* DeleteMessage.
LEMMA DeleteMessageIs ==
    ASSUME TypeOK, Staged, DeleteMessage
    PROVE  /\ Polling /\ poll.at = "delete" /\ poll.batch # <<>> /\ poll.pipe.source = "queue"
           /\ Handed(poll.pipe.n, Head(poll.batch))
           /\ UNCHANGED <<pipe, created, stream, iterators, bus, handed, leftOut, redelivered, disturbed>>
           /\ messages' = [messages EXCEPT ![Head(poll.batch)] =
                             [at |-> "deleted", hidden |-> FALSE, handle |-> "none"]]
           /\ \/ poll' = Idle
              \/ /\ poll' \in Poll /\ poll'.at = "item" /\ poll'.pipe = poll.pipe
                 /\ poll'.batch # <<>>
  <1>1. Polling /\ poll.at = "delete" /\ poll.batch # <<>> /\ poll.pipe.source = "queue"
        /\ Handed(poll.pipe.n, Head(poll.batch))
    BY DEF DeleteMessage, Polling, Phases, At, Staged
  <1>2. poll.batch \in Batches
    BY <1>1, PollIs
  <1>3. Tail(poll.batch) \in Batches
    BY <1>1, <1>2, BatchSplit
  <1>4. GoOn(Tail(poll.batch))
    BY DEF DeleteMessage
  <1>5. \/ poll' = Idle
        \/ /\ poll' \in Poll /\ poll'.at = "item" /\ poll'.pipe = poll.pipe
           /\ poll'.batch # <<>>
    BY <1>1, <1>3, <1>4, GoesOn
  <1> QED
    BY <1>1, <1>5 DEF DeleteMessage, history, records

\* Who changes the records, and the ordinals that writers hold.
LEMMA RecordsAre ==
    ASSUME Next
    PROVE  \/ UNCHANGED records
           \/ \E w \in Writers : Claim(w) \/ AppendRecord(w)
           \/ Restart
  <1>1. CASE CreatePipe \/ DeletePipe \/ OtherRequest \/ PutEvent \/ ListRunningPipes
    BY <1>1 DEF CreatePipe, DeletePipe, OtherRequest, PutEvent, ListRunningPipes
  <1>2. CASE \E m \in Messages : SendMessage(m) \/ Reappear(m) \/ ReceiveElsewhere(m) \/ DeleteElsewhere(m)
    BY <1>2 DEF SendMessage, Reappear, ReceiveElsewhere, DeleteElsewhere
  <1>3. CASE \E i \in Iterators : IteratorExpires(i)
    BY <1>3 DEF IteratorExpires
  <1>4. CASE PollStep
    BY <1>4 DEF PollStep, GetPipe, Receive, OpenIterator, ReadPage, NoIterator, StoreCursor, ReadBus,
                HandOver, HandOverFails, DeleteMessage, StoreLast, PollFails
  <1> QED
    BY <1>1, <1>2, <1>3, <1>4 DEF Next

\* Records are only added.
LEMMA StreamGrows == [Next]_vars => stream \subseteq stream' /\ \A n : Below(n) \subseteq Below(n)'
  BY RecordsAre DEF records, Claim, AppendRecord, Restart, vars, Below

\* No step leaves a gap.
LEMMA NoGapStep == BaseInv /\ Next => NoGap'
  <1> SUFFICES ASSUME BaseInv, Next PROVE NoGap'
    OBVIOUS
  <1>1. TypeOK /\ NoGap
    BY DEF BaseInv
  <1>2. \A n : Filled(n) => Filled(n)'
    BY StreamGrows DEF Filled
  <1>3. claimed \in [Writers -> Nat \cup {-1}]
    BY <1>1 DEF TypeOK
  <1>4. CASE UNCHANGED records
    BY <1>1, <1>2, <1>4 DEF NoGap, records
  <1>5. CASE \E w \in Writers : Claim(w)
    <2> PICK w \in Writers : Claim(w)
      BY <1>5
    <2>1. claimed' = [claimed EXCEPT ![w] = NextOrd(stream)] /\ stream' = stream
      BY DEF Claim
    <2>2. Filled(NextOrd(stream))
      BY <1>1, NextOrdIs
    <2>3. \A x \in Writers : claimed'[x] = claimed[x] \/ claimed'[x] = NextOrd(stream)
      BY <2>1, <1>3
    <2> HIDE DEF NextOrd
    <2> QED
      BY <2>1, <2>2, <2>3, <1>1, <1>2 DEF NoGap
  <1>6. CASE \E w \in Writers : AppendRecord(w)
    <2> PICK w \in Writers : AppendRecord(w)
      BY <1>6
    <2>1. /\ claimed' = [claimed EXCEPT ![w] = -1]
          /\ \A r \in stream' : r \in stream \/ r.ord = claimed[w]
      BY DEF AppendRecord
    <2>2. \A x \in Writers : claimed'[x] = claimed[x] \/ claimed'[x] = -1
      BY <2>1, <1>3
    <2>3. Filled(-1)'
      BY DEF Filled
    <2> QED
      BY <2>1, <2>2, <2>3, <1>1, <1>2 DEF NoGap
  <1>7. CASE Restart
    <2>1. stream' = stream /\ \A w \in Writers : claimed'[w] = -1
      BY <1>7 DEF Restart
    <2>2. Filled(-1)'
      BY DEF Filled
    <2> QED
      BY <2>1, <2>2, <1>1, <1>2 DEF NoGap
  <1> QED
    BY <1>4, <1>5, <1>6, <1>7, RecordsAre

\* The phases of a poll fit its source.
LEMMA StagedStep == BaseInv /\ Next => Staged'
  <1> SUFFICES ASSUME BaseInv, Next PROVE Staged'
    OBVIOUS
  <1>1. TypeOK /\ NoGap /\ Staged
    BY DEF BaseInv
  <1>2. poll' = Idle => Staged'
    BY NoPoll DEF Staged, Polling
  <1>3. CASE Elsewhere
    BY <1>1, <1>3, ElsewhereIs DEF Staged, Polling, Handed
  <1>4. CASE Ending
    BY <1>1, <1>2, <1>4, EndingIs
  <1>5. CASE ListRunningPipes
    BY <1>5, NoPoll DEF ListRunningPipes, Staged, Polling
  <1>6. CASE GetPipe
    <2>1. SUFFICES ASSUME poll' # Idle PROVE Staged'
      BY <1>2
    <2>2. /\ poll'.at = First(pipe.source, pipe.cursor) /\ poll'.pipe = pipe
          /\ pipe.source \in {"queue", "stream", "bus"}
      BY <2>1, <1>1, <1>6, GetPipeIs
    <2> QED
      BY <2>2, FirstIs DEF Staged
  <1>7. CASE Receive
    BY <1>1, <1>2, <1>7, ReceiveIs DEF Staged
  <1>8. CASE OpenIterator
    BY <1>1, <1>8, OpenIteratorIs DEF Staged
  <1>9. CASE ReadPage
    BY <1>1, <1>9, ReadPageIs DEF Staged
  <1>10. CASE StoreCursor \/ StoreLast
    BY <1>1, <1>2, <1>10, StoreCursorIs, StoreLastIs DEF Staged
  <1>11. CASE ReadBus
    BY <1>1, <1>2, <1>11, ReadBusIs DEF Staged
  <1>12. CASE HandOver
    <2>1. SUFFICES ASSUME poll' # Idle PROVE Staged'
      BY <1>2
    <2>2. /\ poll.batch # <<>> /\ poll'.pipe = poll.pipe
          /\ handed' = handed \cup {<<poll.pipe.n, Head(poll.batch)>>}
          /\ \/ poll'.at = "delete" /\ poll.pipe.source = "queue" /\ poll'.batch = poll.batch
             \/ poll'.at = "item" /\ poll'.batch # <<>>
             \/ poll'.at = "last" /\ poll'.batch = <<>> /\ poll.pipe.source = "bus"
      BY <2>1, <1>1, <1>12, HandOverIs
    <2> QED
      BY <2>2 DEF Staged, Handed
  <1>13. CASE DeleteMessage
    BY <1>1, <1>2, <1>13, DeleteMessageIs DEF Staged
  <1> QED
    BY <1>3, <1>4, <1>5, <1>6, <1>7, <1>8, <1>9, <1>10, <1>11, <1>12, <1>13, StepCases

\* The first part of the invariant is inductive.
LEMMA BaseStep == BaseInv /\ [Next]_vars => BaseInv'
  <1> SUFFICES ASSUME BaseInv, [Next]_vars PROVE BaseInv'
    OBVIOUS
  <1>1. CASE Next
    <2>1. TypeOK'
      BY <1>1, TypeOutside, TypePoll DEF Next, BaseInv
    <2> QED
      BY <1>1, <2>1, NoGapStep, StagedStep DEF BaseInv
  <1>2. CASE UNCHANGED vars
    BY <1>2 DEF vars, history, records, BaseInv, TypeOK, NoGap, Filled, Staged, Polling, Handed
  <1> QED
    BY <1>1, <1>2

\* ... and holds always.
LEMMA BaseAlways == Spec => []BaseInv
  <1>1. Init => BaseInv
    BY BaseInit
  <1>2. BaseInv /\ [Next]_vars => BaseInv'
    BY BaseStep
  <1> QED
    BY <1>1, <1>2, PTL DEF Spec

\* Every variable keeps its type: an iterator always stands at an ordinal, and no
\* batch has an item twice (GetDynamoStreamRecords).
THEOREM TypeCorrect == Spec => []TypeOK
  <1>1. BaseInv => TypeOK
    BY DEF BaseInv
  <1> QED
    BY <1>1, BaseAlways, PTL

\* Messages are deleted by the poll alone, after their delivery.
LEMMA QueueKeptStep == BaseInv /\ BaseInv' /\ QueueKept /\ [Next]_vars => QueueKept'
  <1> SUFFICES ASSUME BaseInv, QueueKept, [Next]_vars PROVE QueueKept'
    OBVIOUS
  <1>1. TypeOK /\ NoGap /\ Staged
    BY DEF BaseInv
  <1>2. ASSUME handed \subseteq handed',
               \A m \in Messages : messages'[m].at = "deleted" => messages[m].at = "deleted"
        PROVE  QueueKept'
    BY <1>2 DEF QueueKept
  <1>3. messages \in [Messages -> Message]
    BY <1>1 DEF TypeOK
  <1>4. CASE Elsewhere
    <2>1. \A m \in Messages : messages'[m].at = "deleted" => messages[m].at = "deleted"
      <3>1. CASE UNCHANGED messages
        BY <3>1
      <3>2. CASE \E m \in Messages : SendMessage(m) \/ Reappear(m) \/ ReceiveElsewhere(m) \/ DeleteElsewhere(m)
        <4> PICK m \in Messages : SendMessage(m) \/ Reappear(m) \/ ReceiveElsewhere(m) \/ DeleteElsewhere(m)
          BY <3>2
        <4>1. SUFFICES ASSUME NEW k \in Messages, messages'[k].at = "deleted" PROVE messages[k].at = "deleted"
          OBVIOUS
        <4>2. CASE SendMessage(m)
          BY <4>1, <4>2, <1>3 DEF SendMessage, Message
        <4>3. CASE Reappear(m)
          BY <4>1, <4>3, <1>3 DEF Reappear, Message
        <4>4. CASE ReceiveElsewhere(m)
          BY <4>1, <4>4, <1>3 DEF ReceiveElsewhere, Message
        <4>5. CASE DeleteElsewhere(m)
          BY <4>1, <4>5, <1>3 DEF DeleteElsewhere, Message
        <4> QED
          BY <4>2, <4>3, <4>4, <4>5
      <3> QED
        BY <3>1, <3>2, <1>4 DEF Elsewhere, CreatePipe, DeletePipe, OtherRequest, Claim, AppendRecord,
                                PutEvent, IteratorExpires
    <2> QED
      BY <2>1, <1>2, <1>4, ElsewhereIs
  <1>5. CASE Ending
    BY <1>1, <1>2, <1>5, EndingIs
  <1>6. CASE ListRunningPipes
    BY <1>2, <1>6 DEF ListRunningPipes, history
  <1>7. CASE GetPipe \/ Receive
    BY <1>1, <1>2, <1>7, GetPipeIs, ReceiveIs
  <1>8. CASE OpenIterator \/ ReadPage
    BY <1>1, <1>2, <1>8, OpenIteratorIs, ReadPageIs
  <1>9. CASE StoreCursor \/ StoreLast \/ ReadBus
    BY <1>1, <1>2, <1>9, StoreCursorIs, StoreLastIs, ReadBusIs
  <1>10. CASE HandOver
    BY <1>1, <1>2, <1>10, HandOverIs
  <1>11. CASE DeleteMessage
    <2>1. /\ Polling /\ <<poll.pipe.n, Head(poll.batch)>> \in handed /\ handed' = handed
          /\ messages' = [messages EXCEPT ![Head(poll.batch)] =
                             [at |-> "deleted", hidden |-> FALSE, handle |-> "none"]]
      BY <1>1, <1>11, DeleteMessageIs DEF Handed
    <2>2. poll.pipe.n \in 1..MaxPipes
      BY <2>1, <1>1, PollIs
    <2>3. SUFFICES ASSUME NEW m \in Messages, messages'[m].at = "deleted"
                   PROVE  \E n \in 1..MaxPipes : <<n, m>> \in handed
      BY <2>1 DEF QueueKept
    <2>4. CASE m = Head(poll.batch)
      BY <2>1, <2>2, <2>4
    <2>5. CASE m # Head(poll.batch)
      <3>1. messages[m].at = "deleted"
        BY <2>1, <2>3, <2>5, <1>3
      <3> QED
        BY <3>1 DEF QueueKept
    <2> QED
      BY <2>4, <2>5
  <1>12. CASE UNCHANGED vars
    BY <1>2, <1>12 DEF vars, history
  <1> QED
    BY <1>4, <1>5, <1>6, <1>7, <1>8, <1>9, <1>10, <1>11, <1>12, StepCases

\* A message leaves the source queue only after the target has it, unless another
\* consumer took it (pollPipeFromSQS).
THEOREM QueueKeptHolds == Spec => []QueueKept
  <1>1. Init => QueueKept
    BY DEF Init, QueueKept
  <1>2. BaseInv /\ BaseInv' /\ QueueKept /\ [Next]_vars => QueueKept'
    BY QueueKeptStep
  <1> QED
    BY <1>1, <1>2, BaseAlways, PTL DEF Spec

-----------------------------------------------------------------------------
(* A stream's records are handed over at most once.                        *)

\* The invariant of StreamAtMostOnce.
OnceInv ==
    /\ BaseInv
    /\ Numbered /\ SameSource
    /\ AtMostOnceOfPipe /\ AtMostOnceOfPoll
    /\ StreamAtMostOnce

\* Pipes are numbered as they are created.
LEMMA NumberedStep == OnceInv /\ [Next]_vars => Numbered' /\ SameSource'
  <1> SUFFICES ASSUME OnceInv, [Next]_vars PROVE Numbered' /\ SameSource'
    OBVIOUS
  <1>1. TypeOK /\ NoGap /\ Staged /\ Numbered /\ SameSource
    BY DEF OnceInv, BaseInv
  <1>2. created \in Nat /\ MaxPipes \in Nat
    BY <1>1, IdsAssumption DEF TypeOK
  <1>3. Polling => poll.pipe.n \in 1..MaxPipes
    BY <1>1, PollIs
  <1>4. poll' = Idle => ~Polling'
    BY NoPoll DEF Polling
  <1>5. CASE Elsewhere
    <2>1. CASE CreatePipe
      <3>1. created' = created + 1 /\ pipe'.n = created + 1 /\ poll' = poll /\ handed' = handed
        BY <2>1 DEF CreatePipe, history
      <3>2. Numbered'
        <4>1. Polling' => poll'.pipe.n <= created'
          BY <3>1, <1>1, <1>2, <1>3 DEF Numbered, Polling
        <4>2. \A h \in handed' : h[1] <= created'
          <5> SUFFICES ASSUME NEW h \in handed PROVE h[1] <= created + 1
            BY <3>1
          <5>1. h[1] \in 1..MaxPipes /\ h[1] <= created
            BY <1>1 DEF Numbered, TypeOK
          <5> QED
            BY <5>1, <1>2
        <4> QED
          BY <4>1, <4>2, <3>1, <1>2 DEF Numbered
      <3>3. SameSource'
        BY <3>1, <1>1, <1>2, <1>3 DEF SameSource, Numbered, PollOf, Polling
      <3> QED
        BY <3>2, <3>3
    <2>2. CASE DeletePipe
      BY <2>2, <1>1 DEF DeletePipe, Numbered, SameSource, PollOf, Polling, history
    <2>3. CASE UNCHANGED <<pipe, created>>
      BY <2>3, <1>1, <1>5, ElsewhereIs DEF Numbered, SameSource, PollOf, Polling
    <2> QED
      BY <2>1, <2>2, <2>3, <1>5, ElsewhereIs
  <1>6. CASE Ending
    BY <1>1, <1>4, <1>6, EndingIs DEF Numbered, SameSource, PollOf
  <1>7. CASE ListRunningPipes
    BY <1>1, <1>7, NoPoll DEF ListRunningPipes, history, Numbered, SameSource, PollOf, Polling
  <1>8. CASE GetPipe
    BY <1>1, <1>4, <1>8, GetPipeIs DEF Numbered, SameSource, PollOf
  <1>9. CASE Receive \/ OpenIterator \/ ReadPage \/ ReadBus \/ DeleteMessage
    <2>1. /\ Polling /\ UNCHANGED <<pipe, created, handed>>
          /\ poll' = Idle \/ poll'.pipe = poll.pipe
      BY <1>1, <1>9, ReceiveIs, OpenIteratorIs, ReadPageIs, ReadBusIs, DeleteMessageIs
    <2> QED
      BY <2>1, <1>1, <1>4 DEF Numbered, SameSource, PollOf
  <1>10. CASE StoreCursor \/ StoreLast
    <2>1. /\ Polling /\ UNCHANGED <<created, handed>> /\ SetPipeSourceCursor
          /\ poll' = Idle \/ poll'.pipe = poll.pipe
      BY <1>1, <1>10, StoreCursorIs, StoreLastIs
    <2>2. pipe' # None => pipe # None /\ pipe'.source = pipe.source /\ pipe'.n = pipe.n
      BY <2>1, <1>1, CursorStored
    <2> QED
      BY <2>1, <2>2, <1>1, <1>4 DEF Numbered, SameSource, PollOf
  <1>11. CASE HandOver
    <2>1. /\ Polling /\ UNCHANGED <<pipe, created>>
          /\ handed' = handed \cup {<<poll.pipe.n, Head(poll.batch)>>}
          /\ poll' = Idle \/ poll'.pipe = poll.pipe
      BY <1>1, <1>11, HandOverIs
    <2> QED
      BY <2>1, <1>1, <1>4 DEF Numbered, SameSource, PollOf
  <1>12. CASE UNCHANGED vars
    BY <1>1, <1>12 DEF vars, history, Numbered, SameSource, PollOf, Polling
  <1> QED
    BY <1>5, <1>6, <1>7, <1>8, <1>9, <1>10, <1>11, <1>12, StepCases

\* What an undisturbed pipe of a stream was given lies below its cursor.
LEMMA OncePipeStep == OnceInv /\ [Next]_vars => AtMostOnceOfPipe'
  <1> SUFFICES ASSUME OnceInv, [Next]_vars,
                      pipe' # None, pipe'.source = "stream", pipe'.n \notin disturbed'
               PROVE  /\ pipe'.cursor = Start =>
                           /\ \A h \in handed' : h[1] # pipe'.n
                           /\ ~(PollOf(pipe.n)' /\ poll'.at = "item")
                      /\ Position' # None =>
                           /\ \A h \in handed' : h[1] = pipe'.n => h[2] \in Below(Position)'
                           /\ PollOf(pipe.n)' /\ poll'.at = "item" => ToSet(poll'.batch) \subseteq Below(Position)'
    BY DEF AtMostOnceOfPipe
  <1> DEFINE Goal ==
        /\ pipe'.cursor = Start =>
             /\ \A h \in handed' : h[1] # pipe'.n
             /\ ~(PollOf(pipe.n)' /\ poll'.at = "item")
        /\ Position' # None =>
             /\ \A h \in handed' : h[1] = pipe'.n => h[2] \in Below(Position)'
             /\ PollOf(pipe.n)' /\ poll'.at = "item" => ToSet(poll'.batch) \subseteq Below(Position)'
  <1>1. TypeOK /\ NoGap /\ Staged /\ Numbered /\ SameSource /\ AtMostOnceOfPipe /\ AtMostOnceOfPoll
    BY DEF OnceInv, BaseInv
  <1>2. poll' = Idle => ~Polling'
    BY NoPoll DEF Polling
  <1>3. iterators \in [Iterators -> Nat \cup {None}]
    BY <1>1 DEF TypeOK
  <1> USE DEF Below
  <1>16. stream \subseteq stream'
    BY StreamGrows
  <1>4. ASSUME UNCHANGED <<pipe, handed>>, disturbed \subseteq disturbed',
               Position' \in {Position, None},
               \/ poll' = poll
               \/ ~(PollOf(pipe.n)' /\ poll'.at = "item")
        PROVE  Goal
    BY <1>1, <1>4, <1>16 DEF AtMostOnceOfPipe, PollOf, Polling
  <1>5. CASE Elsewhere
    <2>1. CASE CreatePipe
      <3>1. /\ pipe'.n = created + 1 /\ pipe'.cursor = Start /\ poll' = poll /\ handed' = handed
        BY <2>1 DEF CreatePipe, history
      <3>2. Position' = None
        BY <3>1, IdsAssumption DEF Position, Start
      <3>3. \A h \in handed : h[1] # created + 1
        BY <1>1 DEF Numbered, TypeOK
      <3>4. ~PollOf(pipe.n)'
        <4>1. SUFFICES ASSUME Polling, poll.pipe.n = created + 1 PROVE FALSE
          BY <3>1 DEF PollOf, Polling
        <4> QED
          BY <4>1, <1>1 DEF Numbered, TypeOK
      <3> QED
        BY <3>1, <3>2, <3>3, <3>4
    <2>2. CASE DeletePipe
      BY <2>2 DEF DeletePipe
    <2>3. CASE UNCHANGED <<pipe, created>>
      <3>1. Position' \in {Position, None}
        BY <2>3, <1>3, <1>5, ElsewhereIs DEF Position
      <3> QED
        BY <2>3, <3>1, <1>4, <1>5, ElsewhereIs
    <2> QED
      BY <2>1, <2>2, <2>3, <1>5, ElsewhereIs
  <1>6. CASE Ending
    <2>1. Position' = Position
      BY <1>1, <1>6, EndingIs DEF Position
    <2> QED
      BY <2>1, <1>1, <1>2, <1>4, <1>6, EndingIs DEF PollOf
  <1>7. CASE ListRunningPipes
    <2>1. Position' = Position /\ ~Polling' /\ UNCHANGED <<pipe, handed, disturbed>>
      BY <1>7, NoPoll DEF ListRunningPipes, history, Position, Polling
    <2> QED
      BY <2>1, <1>4 DEF PollOf
  <1>8. CASE GetPipe
    <2>1. UNCHANGED <<pipe, iterators, handed, disturbed>>
          /\ (poll' = Idle \/ (poll'.at = First(pipe.source, pipe.cursor) /\ pipe.source \in {"queue", "stream", "bus"}))
      BY <1>1, <1>8, GetPipeIs
    <2>2. Position' = Position
      BY <2>1 DEF Position
    <2>3. ~(Polling' /\ poll'.at = "item")
      BY <2>1, <1>2, FirstIs
    <2> QED
      BY <2>1, <2>2, <2>3, <1>4 DEF PollOf
  <1>9. CASE Receive \/ ReadBus \/ DeleteMessage
    <2>1. /\ Polling /\ poll.pipe.source \in {"queue", "bus"}
          /\ UNCHANGED <<pipe, iterators, handed, disturbed>>
          /\ poll' = Idle \/ poll'.pipe = poll.pipe
      BY <1>1, <1>9, ReceiveIs, ReadBusIs, DeleteMessageIs DEF Staged
    <2>2. Position' = Position
      BY <2>1 DEF Position
    <2>3. ~PollOf(pipe.n)'
      BY <2>1, <1>1, <1>2 DEF SameSource, PollOf
    <2> QED
      BY <2>1, <2>2, <2>3, <1>4
  <1>10. CASE OpenIterator
    <2>1. /\ UNCHANGED <<pipe, handed, disturbed>> /\ poll'.at = "page"
      BY <1>1, <1>10, OpenIteratorIs
    <2>2. Position' = Position
      BY <1>1, <1>3, <1>10, OpenIteratorIs DEF Position
    <2> QED
      BY <2>1, <2>2, <1>4
  <1>11. CASE ReadPage
    <2>1. /\ UNCHANGED <<pipe, handed, disturbed>> /\ poll'.at = "store"
      BY <1>1, <1>11, ReadPageIs
    <2>2. PICK j \in Iterators, to \in Nat :
             /\ iterators' = [iterators EXCEPT ![poll.next] = None, ![j] = to]
             /\ pipe # None => pipe.cursor # j
      BY <1>1, <1>11, ReadPageIs
    <2>3. Position' \in {Position, None}
      BY <2>1, <2>2, <1>3 DEF Position
    <2> QED
      BY <2>1, <2>3, <1>4
  <1>12. CASE StoreCursor
    <2>1. /\ Polling /\ poll.at = "store" /\ SetPipeSourceCursor
          /\ UNCHANGED <<iterators, handed>>
          /\ poll' = Idle \/ (poll'.pipe = poll.pipe /\ poll'.batch = poll.batch)
      BY <1>1, <1>12, StoreCursorIs
    <2>2. /\ disturbed \subseteq disturbed' /\ pipe # None
          /\ pipe'.source = pipe.source /\ pipe'.n = pipe.n
          /\ \/ pipe' = pipe /\ poll.pipe.n # pipe.n
             \/ poll.pipe.n = pipe.n /\ pipe'.cursor = poll.next
      BY <2>1, <1>1, CursorStored
    <2>3. CASE pipe' = pipe /\ poll.pipe.n # pipe.n
      <3>1. Position' = Position /\ ~PollOf(pipe.n)'
        BY <2>1, <2>3, <1>2 DEF Position, PollOf
      <3> QED
        BY <2>1, <2>2, <2>3, <3>1, <1>4
    <2>4. CASE poll.pipe.n = pipe.n /\ pipe'.cursor = poll.next
      <3>1. poll.next \in Iterators /\ poll.pipe.source = "stream" /\ poll.next # Start
        BY <2>1, <1>1, IdsAssumption DEF Staged, Start
      <3>2. Position' = NextOf
        BY <2>1, <2>4, <3>1 DEF Position, NextOf
      <3>3. poll.pipe.n \notin disturbed
        BY <2>2, <2>4
      <3>4. NextOf # None => /\ \A h \in handed : h[1] = pipe.n => h[2] \in Below(NextOf)
                             /\ ToSet(poll.batch) \subseteq Below(NextOf)
        BY <2>1, <2>4, <3>1, <3>3, <1>1 DEF AtMostOnceOfPoll
      <3>5. PollOf(pipe.n)' => poll'.batch = poll.batch
        BY <2>1, <1>2 DEF PollOf
      <3> QED
        BY <2>1, <2>2, <2>4, <3>1, <3>2, <3>4, <3>5, <1>16
    <2> QED
      BY <2>2, <2>3, <2>4
  <1>13. CASE StoreLast
    <2>1. /\ Polling /\ poll.at = "last" /\ SetPipeSourceCursor
          /\ UNCHANGED <<iterators, handed>> /\ poll' = Idle
      BY <1>13, StoreLastIs
    <2>2. /\ disturbed \subseteq disturbed' /\ pipe # None
          /\ pipe'.source = pipe.source /\ pipe'.n = pipe.n
          /\ \/ pipe' = pipe /\ poll.pipe.n # pipe.n
             \/ poll.pipe.n = pipe.n /\ pipe'.cursor = poll.next
      BY <2>1, <1>1, CursorStored
    <2>3. poll.pipe.n # pipe.n
      BY <2>1, <2>2, <1>1 DEF SameSource, PollOf, Staged
    <2>4. pipe' = pipe /\ Position' = Position /\ ~PollOf(pipe.n)'
      BY <2>1, <2>2, <2>3, <1>2 DEF Position, PollOf
    <2> QED
      BY <2>1, <2>2, <2>4, <1>4
  <1>14. CASE HandOver
    <2>1. /\ Polling /\ poll.at = "item" /\ poll.batch # <<>>
          /\ UNCHANGED <<pipe, iterators, disturbed>>
          /\ handed' = handed \cup {<<poll.pipe.n, Head(poll.batch)>>}
          /\ poll' = Idle \/ /\ poll'.pipe = poll.pipe
                             /\ poll'.at = "item" => poll'.batch = Tail(poll.batch)
      BY <1>1, <1>14, HandOverIs
    <2>2. Position' = Position
      BY <2>1 DEF Position
    <2>3. CASE poll.pipe.n # pipe.n
      <3>1. ~PollOf(pipe.n)'
        BY <2>1, <2>3, <1>2 DEF PollOf
      <3> QED
        BY <2>1, <2>2, <2>3, <3>1, <1>1, <1>16 DEF AtMostOnceOfPipe
    <2>4. CASE poll.pipe.n = pipe.n
      <3>1. ToSet(poll.batch) = {Head(poll.batch)} \cup ToSet(Tail(poll.batch))
        BY <2>1, <1>1, PollIs, BatchSplit
      <3>2. PollOf(pipe.n)
        BY <2>1, <2>4 DEF PollOf
      <3>3. /\ pipe.cursor # Start
            /\ Position # None =>
                 /\ \A h \in handed : h[1] = pipe.n => h[2] \in Below(Position)
                 /\ ToSet(poll.batch) \subseteq Below(Position)
        BY <2>1, <3>2, <1>1 DEF AtMostOnceOfPipe
      <3>4. PollOf(pipe.n)' /\ poll'.at = "item" => poll'.batch = Tail(poll.batch)
        BY <2>1, <1>2 DEF PollOf
      <3> QED
        BY <2>1, <2>2, <3>1, <3>3, <3>4, <1>16
    <2> QED
      BY <2>3, <2>4
  <1>15. CASE UNCHANGED vars
    <2>1. Position' = Position
      BY <1>15 DEF vars, Position
    <2> QED
      BY <2>1, <1>4, <1>15 DEF vars, history
  <1> QED
    BY <1>5, <1>6, <1>7, <1>8, <1>9, <1>10, <1>11, <1>12, <1>13, <1>14, <1>15, StepCases

\* What a poll of an undisturbed pipe of a stream holds was not handed over.
LEMMA OncePollStep == OnceInv /\ [Next]_vars => AtMostOnceOfPoll'
  <1> SUFFICES ASSUME OnceInv, [Next]_vars,
                      Polling', poll'.pipe.source = "stream", poll'.pipe.n \notin disturbed'
               PROVE  /\ poll'.at = "open" => \A h \in handed' : h[1] # poll'.pipe.n
                      /\ poll'.at \in {"page", "store"} /\ NextOf' # None =>
                           \A h \in handed' : h[1] = poll'.pipe.n => h[2] \in Below(NextOf)'
                      /\ poll'.at = "store" /\ NextOf' # None => ToSet(poll'.batch) \subseteq Below(NextOf)'
                      /\ poll'.at \in {"store", "item"} => \A x \in ToSet(poll'.batch) : ~Handed(poll.pipe.n, x)'
    BY DEF AtMostOnceOfPoll
  <1> DEFINE Goal ==
        /\ poll'.at = "open" => \A h \in handed' : h[1] # poll'.pipe.n
        /\ poll'.at \in {"page", "store"} /\ NextOf' # None =>
             \A h \in handed' : h[1] = poll'.pipe.n => h[2] \in Below(NextOf)'
        /\ poll'.at = "store" /\ NextOf' # None => ToSet(poll'.batch) \subseteq Below(NextOf)'
        /\ poll'.at \in {"store", "item"} => \A x \in ToSet(poll'.batch) : ~Handed(poll.pipe.n, x)'
  <1>1. TypeOK /\ NoGap /\ Staged /\ Numbered /\ SameSource /\ AtMostOnceOfPipe /\ AtMostOnceOfPoll
    BY DEF OnceInv, BaseInv
  <1>2. poll' # Idle
    BY NoPoll DEF Polling
  <1>3. iterators \in [Iterators -> Nat \cup {None}]
    BY <1>1 DEF TypeOK
  <1>14. stream \subseteq stream' /\ \A n : Below(n) \subseteq Below(n)'
    BY StreamGrows
  <1>4. CASE UNCHANGED <<poll, handed, disturbed>> /\ NextOf' \in {NextOf, None}
    BY <1>1, <1>4, <1>14 DEF AtMostOnceOfPoll, Polling, Handed, Below
  <1>5. CASE Elsewhere
    <2>1. NextOf' \in {NextOf, None}
      BY <1>3, <1>5, ElsewhereIs DEF NextOf
    <2> QED
      BY <2>1, <1>4, <1>5, ElsewhereIs
  <1>6. CASE Ending \/ ListRunningPipes \/ StoreLast
    BY <1>1, <1>2, <1>6, EndingIs, StoreLastIs, NoPoll DEF ListRunningPipes, Polling
  <1>7. CASE GetPipe
    <2>1. /\ UNCHANGED <<iterators, handed, disturbed>> /\ pipe # None
          /\ poll'.at = First(pipe.source, pipe.cursor)
          /\ poll'.pipe = pipe /\ poll'.next = pipe.cursor
      BY <1>1, <1>2, <1>7, GetPipeIs
    <2>2. pipe.source = "stream" /\ pipe.n \notin disturbed
      BY <2>1
    <2>3. NextOf' = Position
      BY <2>1 DEF NextOf, Position
    <2>4. poll'.at = IF pipe.cursor = Start THEN "open" ELSE "page"
      BY <2>1, <2>2, FirstIs
    <2>5. pipe.cursor = Start => \A h \in handed : h[1] # pipe.n
      BY <2>1, <2>2, <1>1 DEF AtMostOnceOfPipe
    <2>6. Position # None => \A h \in handed : h[1] = pipe.n => h[2] \in Below(Position)
      BY <2>1, <2>2, <1>1 DEF AtMostOnceOfPipe
    <2> QED
      BY <2>1, <2>3, <2>4, <2>5, <2>6, <1>14 DEF Below
  <1>8. CASE Receive \/ ReadBus \/ DeleteMessage
    <2>1. poll.pipe.source \in {"queue", "bus"} /\ poll'.pipe = poll.pipe
      BY <1>1, <1>2, <1>8, ReceiveIs, ReadBusIs, DeleteMessageIs DEF Staged
    <2> QED
      BY <2>1
  <1>9. CASE OpenIterator
    <2>1. /\ Polling /\ poll.at = "open" /\ poll'.at = "page" /\ poll'.pipe = poll.pipe
          /\ UNCHANGED <<handed, disturbed>>
      BY <1>1, <1>9, OpenIteratorIs
    <2>2. \A h \in handed : h[1] # poll.pipe.n
      BY <2>1, <1>1 DEF AtMostOnceOfPoll
    <2> QED
      BY <2>1, <2>2
  <1>10. CASE ReadPage
    <2>1. /\ Polling /\ poll.at = "page" /\ poll'.at = "store" /\ poll'.pipe = poll.pipe
          /\ UNCHANGED <<handed, disturbed>> /\ poll.next \in Iterators
          /\ iterators[poll.next] \in Nat
      BY <1>1, <1>10, ReadPageIs
    <2>2. PICK j \in Iterators, to \in Nat :
             /\ iterators[poll.next] <= to
             /\ iterators' = [iterators EXCEPT ![poll.next] = None, ![j] = to]
             /\ poll'.next = j
             /\ \A r \in ToSet(poll'.batch) : r \in Below(to) /\ iterators[poll.next] <= r.ord
      BY <1>1, <1>10, ReadPageIs
    <2>3. NextOf = iterators[poll.next] /\ NextOf # None /\ NextOf' = to
      BY <2>1, <2>2, <1>3, IdsAssumption DEF NextOf
    <2>4. \A h \in handed : h[1] = poll.pipe.n => h[2] \in Below(NextOf)
      BY <2>1, <2>3, <1>1 DEF AtMostOnceOfPoll
    <2>5. NextOf \in Nat /\ to \in Nat /\ NextOf <= to
      BY <2>1, <2>2, <2>3
    <2>6. Below(NextOf) \subseteq Below(to)
      BY <2>5, <1>1, StreamIs DEF Below
    <2>7. Below(to) \subseteq Below(NextOf)'
      BY <2>3, <1>14 DEF Below
    <2>8. ASSUME NEW x \in ToSet(poll'.batch) PROVE <<poll.pipe.n, x>> \notin handed
      <3>1. x \in stream /\ x.ord \in Nat /\ NextOf <= x.ord
        BY <2>2, <2>3, <1>1, StreamIs DEF Below
      <3>2. x \notin Below(NextOf)
        BY <3>1, <2>5 DEF Below
      <3> QED
        BY <3>2, <2>4
    <2>9. ToSet(poll'.batch) \subseteq Below(to)
      BY <2>2
    <2> QED
      BY <2>1, <2>4, <2>6, <2>7, <2>8, <2>9 DEF Handed
  <1>11. CASE StoreCursor
    <2>1. /\ Polling /\ poll.at = "store" /\ SetPipeSourceCursor
          /\ handed' = handed /\ poll'.pipe = poll.pipe /\ poll'.batch = poll.batch
          /\ poll'.at \in {"item", "last"}
      BY <1>1, <1>2, <1>11, StoreCursorIs
    <2>2. disturbed \subseteq disturbed'
      BY <2>1, <1>1, CursorStored
    <2>3. \A x \in ToSet(poll.batch) : ~Handed(poll.pipe.n, x)
      BY <2>1, <2>2, <1>1 DEF AtMostOnceOfPoll
    <2> QED
      BY <2>1, <2>3 DEF Handed
  <1>12. CASE HandOver
    <2>1. /\ Polling /\ poll.at = "item" /\ poll.batch # <<>>
          /\ UNCHANGED <<iterators, disturbed>>
          /\ handed' = handed \cup {<<poll.pipe.n, Head(poll.batch)>>}
          /\ poll'.pipe = poll.pipe
          /\ poll'.at \in {"delete", "item", "last"}
          /\ poll'.at = "item" => poll'.batch = Tail(poll.batch)
      BY <1>1, <1>2, <1>12, HandOverIs
    <2>2. /\ ToSet(poll.batch) = {Head(poll.batch)} \cup ToSet(Tail(poll.batch))
          /\ Head(poll.batch) \notin ToSet(Tail(poll.batch))
      BY <2>1, <1>1, PollIs, BatchSplit
    <2>3. \A x \in ToSet(poll.batch) : ~Handed(poll.pipe.n, x)
      BY <2>1, <1>1 DEF AtMostOnceOfPoll
    <2> QED
      BY <2>1, <2>2, <2>3 DEF Handed
  <1>13. CASE UNCHANGED vars
    <2>1. NextOf' = NextOf
      BY <1>13 DEF vars, NextOf
    <2> QED
      BY <2>1, <1>4, <1>13 DEF vars, history
  <1> QED
    BY <1>5, <1>6, <1>7, <1>8, <1>9, <1>10, <1>11, <1>12, <1>13, StepCases

\* Only a poll of a disturbed pipe hands a record over again.
LEMMA OnceStep == OnceInv /\ [Next]_vars => StreamAtMostOnce'
  <1> SUFFICES ASSUME OnceInv, [Next]_vars PROVE StreamAtMostOnce'
    OBVIOUS
  <1>1. TypeOK /\ NoGap /\ Staged /\ AtMostOnceOfPoll /\ StreamAtMostOnce
    BY DEF OnceInv, BaseInv
  <1>2. ASSUME redelivered' = redelivered, disturbed \subseteq disturbed' PROVE StreamAtMostOnce'
    BY <1>1, <1>2 DEF StreamAtMostOnce
  <1>3. CASE Elsewhere \/ Ending \/ ListRunningPipes \/ GetPipe
    BY <1>1, <1>2, <1>3, ElsewhereIs, EndingIs, GetPipeIs DEF ListRunningPipes, history
  <1>4. CASE Receive \/ OpenIterator \/ ReadPage \/ ReadBus \/ DeleteMessage
    BY <1>1, <1>2, <1>4, ReceiveIs, OpenIteratorIs, ReadPageIs, ReadBusIs, DeleteMessageIs
  <1>5. CASE StoreCursor \/ StoreLast
    BY <1>1, <1>2, <1>5, StoreCursorIs, StoreLastIs, CursorStored
  <1>6. CASE HandOver
    <2>1. Polling /\ poll.at = "item" /\ poll.batch # <<>> /\ disturbed' = disturbed
      BY <1>1, <1>6, HandOverIs
    <2>2. Head(poll.batch) \in ToSet(poll.batch)
      BY <2>1, <1>1, PollIs, BatchSplit
    <2>3. CASE poll.pipe.source = "stream" /\ <<poll.pipe.n, Head(poll.batch)>> \in handed
      <3>1. poll.pipe.n \in disturbed
        BY <2>1, <2>2, <2>3, <1>1 DEF AtMostOnceOfPoll, Handed
      <3>2. redelivered' = redelivered \cup {poll.pipe.n}
        BY <2>3, <1>6 DEF HandOver
      <3> QED
        BY <2>1, <3>1, <3>2, <1>1 DEF StreamAtMostOnce
    <2>4. CASE ~(poll.pipe.source = "stream" /\ <<poll.pipe.n, Head(poll.batch)>> \in handed)
      <3>1. redelivered' = redelivered
        BY <2>4, <1>6 DEF HandOver
      <3> QED
        BY <2>1, <3>1, <1>2
    <2> QED
      BY <2>3, <2>4
  <1>7. CASE UNCHANGED vars
    BY <1>2, <1>7 DEF vars, history
  <1> QED
    BY <1>3, <1>4, <1>5, <1>6, <1>7, StepCases

\* Initially.
LEMMA OnceInit == Init => OnceInv
  <1> SUFFICES ASSUME Init PROVE OnceInv
    OBVIOUS
  <1>1. BaseInv
    BY BaseInit
  <1>2. pipe = None /\ ~Polling /\ handed = {} /\ redelivered = {}
    BY NoPoll DEF Init, Polling
  <1> QED
    BY <1>1, <1>2 DEF OnceInv, Numbered, SameSource, AtMostOnceOfPipe, AtMostOnceOfPoll, StreamAtMostOnce

\* The invariant holds always.
LEMMA OnceAlways == Spec => []OnceInv
  <1>1. Init => OnceInv
    BY OnceInit
  <1>2. OnceInv /\ [Next]_vars => OnceInv'
    <2> SUFFICES ASSUME OnceInv, [Next]_vars PROVE OnceInv'
      OBVIOUS
    <2>1. BaseInv
      BY DEF OnceInv
    <2> QED
      BY <2>1, BaseStep, NumberedStep, OncePipeStep, OncePollStep, OnceStep DEF OnceInv
  <1> QED
    BY <1>1, <1>2, PTL DEF Spec

\* A stream's records reach the target at most once, unless the pipe's cursor was not
\* stored or was stored by the poll of an earlier pipe (pollPipeFromDynamoStream).
THEOREM StreamAtMostOnceHolds == Spec => []StreamAtMostOnce
  <1>1. OnceInv => StreamAtMostOnce
    BY DEF OnceInv
  <1> QED
    BY <1>1, OnceAlways, PTL

-----------------------------------------------------------------------------
(* Nothing behind a cursor was passed over.                                *)

\* The two halves of NothingSkipped.
StreamPassed ==
    pipe # None /\ pipe.n \notin disturbed /\ pipe.source = "stream" /\ Position # None =>
      \A o \in 0..(Position - 1) : \E r \in stream : r.ord = o /\ (r \in InHand \/ Passed(pipe.n, r))
BusPassed ==
    pipe # None /\ pipe.n \notin disturbed /\ pipe.source = "bus" =>
      \A e \in ToSet(bus) : e.id <= pipe.cursor => Handed(pipe.n, e) \/ Late(e)

\* ... which they imply.
LEMMA Halves == TypeOK /\ StreamPassed /\ BusPassed => NothingSkipped
  <1> SUFFICES ASSUME TypeOK, StreamPassed, BusPassed, pipe # None, pipe.n \notin disturbed
               PROVE  /\ pipe.source = "stream" /\ Position # None =>
                           \A r \in stream : r.ord < Position =>
                               \E s \in stream : s.ord = r.ord /\ (s \in InHand \/ <<pipe.n, s>> \in handed \cup leftOut)
                      /\ pipe.source = "bus" =>
                           \A e \in ToSet(bus) : e.id <= pipe.cursor => <<pipe.n, e>> \in handed \/ Late(e)
    BY DEF NothingSkipped
  <1>1. ASSUME pipe.source = "stream", Position # None, NEW r \in stream, r.ord < Position
        PROVE  \E s \in stream : s.ord = r.ord /\ (s \in InHand \/ <<pipe.n, s>> \in handed \cup leftOut)
    <2>1. r.ord \in Nat /\ Position \in Nat
      BY <1>1, StreamIs DEF Position, TypeOK
    <2>2. r.ord \in 0..(Position - 1)
      BY <2>1, <1>1
    <2> QED
      BY <2>2, <1>1 DEF StreamPassed, Passed
  <1> QED
    BY <1>1 DEF BusPassed, Handed

\* The invariant of NothingSkipped.
SkipInv ==
    /\ OnceInv
    /\ PassedOfPoll /\ StreamPassed
    /\ BusCursor /\ PassedOfBusPoll /\ BusPassed

\* Only a stream's poll has records in hand.
LEMMA NoneInHand ==
    ASSUME ~(PollOf(pipe.n) /\ poll.at \in {"store", "item"})
    PROVE  InHand = {}
  BY DEF InHand, PollOf, Polling, Phases

\* What was passed stays passed.
LEMMA StreamPassedStep == SkipInv /\ [Next]_vars => StreamPassed'
  <1> SUFFICES ASSUME SkipInv, [Next]_vars,
                      pipe' # None, pipe'.n \notin disturbed', pipe'.source = "stream", Position' # None,
                      NEW o \in 0..(Position' - 1)
               PROVE  \E r \in stream' : r.ord = o /\ (r \in InHand' \/ Passed(pipe.n, r)')
    BY DEF StreamPassed
  <1>1. TypeOK /\ NoGap /\ Staged /\ Numbered /\ SameSource /\ PassedOfPoll /\ StreamPassed
    BY DEF SkipInv, OnceInv, BaseInv
  <1>2. poll' = Idle => ~Polling'
    BY NoPoll DEF Polling
  <1>3. iterators \in [Iterators -> Nat \cup {None}]
    BY <1>1 DEF TypeOK
  <1>15. stream \subseteq stream'
    BY StreamGrows
  <1>4. ASSUME pipe' = pipe, handed \subseteq handed', leftOut \subseteq leftOut', disturbed \subseteq disturbed',
               Position' \in {Position, None},
               \A r \in InHand : r \in InHand' \/ Passed(pipe.n, r)'
        PROVE  \E r \in stream' : r.ord = o /\ (r \in InHand' \/ Passed(pipe.n, r)')
    <2>1. PICK r \in stream : r.ord = o /\ (r \in InHand \/ Passed(pipe.n, r))
      BY <1>1, <1>4 DEF StreamPassed
    <2>2. r \in InHand' \/ Passed(pipe.n, r)'
      BY <2>1, <1>4 DEF Passed
    <2> QED
      BY <2>1, <2>2, <1>15
  <1>5. CASE Elsewhere
    <2>1. CASE CreatePipe
      <3>1. pipe'.cursor = Start
        BY <2>1 DEF CreatePipe
      <3>2. Position' = None
        BY <3>1, IdsAssumption DEF Position, Start
      <3> QED
        BY <3>2
    <2>2. CASE DeletePipe
      BY <2>2 DEF DeletePipe
    <2>3. CASE UNCHANGED <<pipe, created>>
      <3>1. Position' \in {Position, None}
        BY <2>3, <1>3, <1>5, ElsewhereIs DEF Position
      <3>2. InHand' = InHand
        BY <2>3, <1>5, ElsewhereIs DEF InHand
      <3> QED
        BY <2>3, <3>1, <3>2, <1>4, <1>5, ElsewhereIs
    <2> QED
      BY <2>1, <2>2, <2>3, <1>5, ElsewhereIs
  <1>6. CASE Ending
    <2>1. UNCHANGED <<pipe, iterators, handed, disturbed>> /\ leftOut \subseteq leftOut'
      BY <1>1, <1>6, EndingIs
    <2>2. Position' = Position
      BY <2>1 DEF Position
    <2>3. ASSUME NEW r \in InHand PROVE Passed(pipe.n, r)'
      <3>1. PollOf(pipe.n) /\ poll.at \in {"store", "item"}
        BY <2>3, NoneInHand
      <3>2. r \in ToSet(poll.batch) /\ poll.pipe.source = "stream" /\ poll.pipe.n = pipe.n
        BY <2>1, <2>3, <3>1, <1>1 DEF InHand, PollOf, SameSource
      <3>3. <<poll.pipe.n, r>> \in leftOut'
        BY <3>1, <3>2, <1>1, <1>6, EndingIs DEF PollOf
      <3> QED
        BY <2>1, <3>2, <3>3 DEF Passed
    <2> QED
      BY <2>1, <2>2, <2>3, <1>4
  <1>7. CASE ListRunningPipes
    <2>1. UNCHANGED <<pipe, iterators, handed, leftOut, disturbed>> /\ InHand = {}
      BY <1>7 DEF ListRunningPipes, history, InHand, Idle
    <2>2. Position' = Position
      BY <2>1 DEF Position
    <2> QED
      BY <2>1, <2>2, <1>4
  <1>8. CASE GetPipe \/ Receive \/ ReadBus \/ DeleteMessage
    <2>1. /\ UNCHANGED <<pipe, iterators, handed, leftOut, disturbed>>
          /\ ~Polling \/ poll.at \in {"receive", "page", "delete"}
      BY <1>1, <1>8, GetPipeIs, ReceiveIs, ReadBusIs, DeleteMessageIs
    <2>2. Position' = Position /\ InHand = {}
      BY <2>1, NoneInHand DEF Position, PollOf
    <2> QED
      BY <2>1, <2>2, <1>4
  <1>9. CASE OpenIterator
    <2>1. /\ UNCHANGED <<pipe, handed, leftOut, disturbed>> /\ poll.at = "open"
      BY <1>1, <1>9, OpenIteratorIs
    <2>2. Position' = Position
      BY <1>1, <1>3, <1>9, OpenIteratorIs DEF Position
    <2>3. InHand = {}
      BY <2>1, NoneInHand
    <2> QED
      BY <2>1, <2>2, <2>3, <1>4
  <1>10. CASE ReadPage
    <2>1. /\ UNCHANGED <<pipe, handed, leftOut, disturbed>> /\ poll.at = "page"
      BY <1>1, <1>10, ReadPageIs
    <2>2. PICK j \in Iterators, to \in Nat :
             /\ iterators' = [iterators EXCEPT ![poll.next] = None, ![j] = to]
             /\ pipe # None => pipe.cursor # j
      BY <1>1, <1>10, ReadPageIs
    <2>3. Position' \in {Position, None}
      BY <2>1, <2>2, <1>3 DEF Position
    <2>4. InHand = {}
      BY <2>1, NoneInHand
    <2> QED
      BY <2>1, <2>3, <2>4, <1>4
  <1>11. CASE StoreCursor
    <2>1. /\ Polling /\ poll.at = "store" /\ SetPipeSourceCursor
          /\ UNCHANGED <<iterators, handed, leftOut>>
          /\ \/ poll' = Idle /\ poll.batch = <<>>
             \/ /\ poll'.pipe = poll.pipe /\ poll'.batch = poll.batch
                /\ poll'.at = "item" \/ (poll'.at = "last" /\ poll.batch = <<>>)
      BY <1>1, <1>11, StoreCursorIs
    <2>2. /\ disturbed \subseteq disturbed' /\ pipe # None
          /\ pipe'.source = pipe.source /\ pipe'.n = pipe.n
          /\ \/ pipe' = pipe /\ poll.pipe.n # pipe.n
             \/ poll.pipe.n = pipe.n /\ pipe'.cursor = poll.next
      BY <2>1, <1>1, CursorStored
    <2>3. CASE pipe' = pipe /\ poll.pipe.n # pipe.n
      <3>1. Position' = Position
        BY <2>1, <2>3 DEF Position
      <3>2. InHand = {}
        BY <2>3, NoneInHand DEF PollOf
      <3> QED
        BY <2>1, <2>2, <2>3, <3>1, <3>2, <1>4
    <2>4. CASE poll.pipe.n = pipe.n /\ pipe'.cursor = poll.next
      <3>1. poll.next \in Iterators /\ poll.pipe.source = "stream"
        BY <2>1, <1>1 DEF Staged
      <3>2. Position' = NextOf
        BY <2>1, <2>4, <3>1 DEF Position, NextOf
      <3>3. poll.pipe.n \notin disturbed
        BY <2>2, <2>4
      <3>4. o \in 0..(NextOf - 1) /\ NextOf # None
        BY <3>2
      <3>5. PICK r \in stream : r.ord = o /\ (Passed(poll.pipe.n, r) \/ r \in ToSet(poll.batch))
        BY <2>1, <3>1, <3>3, <3>4, <1>1 DEF PassedOfPoll
      <3>6. CASE Passed(poll.pipe.n, r)
        BY <2>1, <2>2, <2>4, <3>5, <3>6, <1>15 DEF Passed
      <3>7. CASE r \in ToSet(poll.batch)
        <4>1. poll.batch # <<>>
          BY <3>7, EmptyBatch
        <4>2. poll'.pipe = poll.pipe /\ poll'.batch = poll.batch /\ poll'.at = "item"
          BY <2>1, <4>1
        <4> QED
          BY <2>2, <2>4, <3>5, <3>7, <4>2, <1>15 DEF InHand
      <3> QED
        BY <3>5, <3>6, <3>7
    <2> QED
      BY <2>2, <2>3, <2>4
  <1>12. CASE StoreLast
    <2>1. /\ Polling /\ poll.at = "last" /\ SetPipeSourceCursor
          /\ UNCHANGED <<iterators, handed, leftOut>> /\ poll' = Idle
      BY <1>12, StoreLastIs
    <2>2. /\ disturbed \subseteq disturbed' /\ pipe # None
          /\ pipe'.source = pipe.source /\ pipe'.n = pipe.n
          /\ \/ pipe' = pipe /\ poll.pipe.n # pipe.n
             \/ poll.pipe.n = pipe.n /\ pipe'.cursor = poll.next
      BY <2>1, <1>1, CursorStored
    <2>3. poll.pipe.n # pipe.n
      BY <2>1, <2>2, <1>1 DEF SameSource, PollOf, Staged
    <2>4. pipe' = pipe /\ Position' = Position
      BY <2>1, <2>2, <2>3 DEF Position
    <2>5. InHand = {}
      BY <2>3, NoneInHand DEF PollOf
    <2> QED
      BY <2>1, <2>2, <2>4, <2>5, <1>4
  <1>13. CASE HandOver
    <2>1. /\ Polling /\ poll.at = "item" /\ poll.batch # <<>>
          /\ UNCHANGED <<pipe, iterators, leftOut, disturbed>>
          /\ handed' = handed \cup {<<poll.pipe.n, Head(poll.batch)>>}
          /\ \/ Tail(poll.batch) = <<>>
             \/ /\ poll'.pipe = poll.pipe
                /\ \/ poll.pipe.source = "queue"
                   \/ poll'.at = "item" /\ poll'.batch = Tail(poll.batch)
      BY <1>1, <1>13, HandOverIs
    <2>2. Position' = Position
      BY <2>1 DEF Position
    <2>3. ASSUME NEW r \in InHand PROVE r \in InHand' \/ Passed(pipe.n, r)'
      <3>1. PollOf(pipe.n)
        BY <2>3, NoneInHand
      <3>2. r \in ToSet(poll.batch) /\ poll.pipe.source = "stream" /\ poll.pipe.n = pipe.n
        BY <2>1, <2>3, <3>1, <1>1 DEF InHand, PollOf, SameSource
      <3>3. ToSet(poll.batch) = {Head(poll.batch)} \cup ToSet(Tail(poll.batch))
        BY <2>1, <1>1, PollIs, BatchSplit
      <3>4. CASE r = Head(poll.batch)
        BY <2>1, <3>2, <3>4 DEF Passed
      <3>5. CASE r \in ToSet(Tail(poll.batch))
        <4>1. Tail(poll.batch) # <<>>
          BY <3>5, EmptyBatch
        <4>2. poll'.pipe = poll.pipe /\ poll'.at = "item" /\ poll'.batch = Tail(poll.batch)
          BY <2>1, <3>2, <4>1
        <4> QED
          BY <2>1, <3>2, <3>5, <4>2 DEF InHand
      <3> QED
        BY <3>2, <3>3, <3>4, <3>5
    <2> QED
      BY <2>1, <2>2, <2>3, <1>4
  <1>14. CASE UNCHANGED vars
    <2>1. Position' = Position /\ InHand' = InHand
      BY <1>14 DEF vars, Position, InHand
    <2> QED
      BY <2>1, <1>4, <1>14 DEF vars, history
  <1> QED
    BY <1>5, <1>6, <1>7, <1>8, <1>9, <1>10, <1>11, <1>12, <1>13, <1>14, StepCases

\* Below the iterator that a poll holds is what was passed, and the poll's batch.
LEMMA PassedOfPollStep == SkipInv /\ [Next]_vars => PassedOfPoll'
  <1> SUFFICES ASSUME SkipInv, [Next]_vars,
                      Polling', poll'.pipe.source = "stream", poll'.pipe.n \notin disturbed',
                      poll'.at \in {"page", "store"}, NextOf' # None,
                      NEW o \in 0..(NextOf' - 1)
               PROVE  \E r \in stream' : r.ord = o /\ (Passed(poll.pipe.n, r)' \/ (poll'.at = "store" /\ r \in ToSet(poll'.batch)))
    BY DEF PassedOfPoll
  <1>1. TypeOK /\ NoGap /\ Staged /\ PassedOfPoll /\ StreamPassed
    BY DEF SkipInv, OnceInv, BaseInv
  <1>2. poll' # Idle
    BY NoPoll DEF Polling
  <1>3. iterators \in [Iterators -> Nat \cup {None}]
    BY <1>1 DEF TypeOK
  <1>14. stream \subseteq stream'
    BY StreamGrows
  <1>4. CASE UNCHANGED <<poll, handed, leftOut, disturbed>> /\ NextOf' \in {NextOf, None}
    <2>1. PICK r \in stream : r.ord = o /\ (Passed(poll.pipe.n, r) \/ (poll.at = "store" /\ r \in ToSet(poll.batch)))
      BY <1>1, <1>4 DEF PassedOfPoll, Polling
    <2> QED
      BY <2>1, <1>4, <1>14 DEF Passed
  <1>5. CASE Elsewhere
    <2>1. NextOf' \in {NextOf, None}
      BY <1>3, <1>5, ElsewhereIs DEF NextOf
    <2> QED
      BY <2>1, <1>4, <1>5, ElsewhereIs
  <1>6. CASE Ending \/ ListRunningPipes \/ StoreLast
    BY <1>1, <1>2, <1>6, EndingIs, StoreLastIs, NoPoll DEF ListRunningPipes, Polling
  <1>7. CASE GetPipe
    <2>1. /\ UNCHANGED <<iterators, handed, leftOut, disturbed>> /\ pipe # None /\ ~Polling
          /\ poll'.pipe = pipe /\ poll'.next = pipe.cursor
      BY <1>1, <1>2, <1>7, GetPipeIs
    <2>2. pipe.source = "stream" /\ pipe.n \notin disturbed
      BY <2>1
    <2>3. NextOf' = Position /\ InHand = {}
      BY <2>1, NoneInHand DEF NextOf, Position, PollOf
    <2>4. PICK r \in stream : r.ord = o /\ (r \in InHand \/ Passed(pipe.n, r))
      BY <2>1, <2>2, <2>3, <1>1 DEF StreamPassed
    <2> QED
      BY <2>1, <2>3, <2>4, <1>14 DEF Passed
  <1>8. CASE Receive \/ ReadBus \/ DeleteMessage
    BY <1>1, <1>2, <1>8, ReceiveIs, ReadBusIs, DeleteMessageIs
  <1>9. CASE OpenIterator
    <2>1. NextOf' = 0
      BY <1>1, <1>3, <1>9, OpenIteratorIs DEF NextOf
    <2> QED
      BY <2>1
  <1>10. CASE ReadPage
    <2>1. /\ Polling /\ poll.at = "page" /\ poll'.at = "store" /\ poll'.pipe = poll.pipe
          /\ UNCHANGED <<handed, leftOut, disturbed>> /\ poll.next \in Iterators
          /\ iterators[poll.next] \in Nat
      BY <1>1, <1>10, ReadPageIs
    <2>2. PICK j \in Iterators, to \in Nat :
             /\ iterators' = [iterators EXCEPT ![poll.next] = None, ![j] = to]
             /\ poll'.next = j
             /\ \A r \in ToSet(poll'.batch) : r \in Below(to)
             /\ \A n \in iterators[poll.next]..(to - 1) : \E r \in ToSet(poll'.batch) : r.ord = n
      BY <1>1, <1>10, ReadPageIs
    <2>3. NextOf = iterators[poll.next] /\ NextOf # None /\ NextOf' = to
      BY <2>1, <2>2, <1>3, IdsAssumption DEF NextOf
    <2>4. o \in 0..(NextOf - 1) \/ o \in NextOf..(to - 1)
      BY <2>1, <2>2, <2>3
    <2>5. CASE o \in 0..(NextOf - 1)
      <3>1. PICK r \in stream : r.ord = o /\ Passed(poll.pipe.n, r)
        BY <2>1, <2>3, <2>5, <1>1 DEF PassedOfPoll
      <3> QED
        BY <2>1, <3>1, <1>14 DEF Passed
    <2>6. CASE o \in NextOf..(to - 1)
      <3>1. PICK r \in ToSet(poll'.batch) : r.ord = o /\ r \in stream
        BY <2>2, <2>3, <2>6 DEF Below
      <3> QED
        BY <2>1, <3>1, <1>14
    <2> QED
      BY <2>4, <2>5, <2>6
  <1>11. CASE StoreCursor
    BY <1>1, <1>2, <1>11, StoreCursorIs
  <1>12. CASE HandOver
    BY <1>1, <1>2, <1>12, HandOverIs
  <1>13. CASE UNCHANGED vars
    <2>1. NextOf' = NextOf
      BY <1>13 DEF vars, NextOf
    <2> QED
      BY <2>1, <1>4, <1>13 DEF vars, history
  <1> QED
    BY <1>5, <1>6, <1>7, <1>8, <1>9, <1>10, <1>11, <1>12, <1>13, StepCases

\* An event that is put behind a greater id is late, and one that was late stays so.
LEMMA PutIs ==
    ASSUME TypeOK, PutEvent
    PROVE  \E e \in Event \ ToSet(bus) :
             /\ ToSet(bus') = ToSet(bus) \cup {e}
             /\ \A x \in ToSet(bus) : Late(x) => Late(x)'
             /\ \A c \in ToSet(bus) : c.id > e.id => Late(e)'
  <1>1. PICK e \in Event \ ToSet(bus) : bus' = Append(bus, e)
    BY DEF PutEvent
  <1>2. bus \in Seq(Event) /\ Len(bus) \in Nat /\ DOMAIN bus = 1..Len(bus)
    BY DEF TypeOK
  <1>3. /\ bus' \in Seq(Event) /\ DOMAIN bus' = 1..(Len(bus) + 1) /\ Len(bus') = Len(bus) + 1
        /\ \A i \in 1..Len(bus) : bus'[i] = bus[i]
        /\ bus'[Len(bus) + 1] = e
    BY <1>1, <1>2
  <1>4. \A i \in 1..(Len(bus) + 1) : i \in 1..Len(bus) \/ i = Len(bus) + 1
    BY <1>2
  <1>5. \A i \in 1..Len(bus) : i \in 1..(Len(bus) + 1) /\ i < Len(bus) + 1
    BY <1>2
  <1>6. Len(bus) + 1 \in 1..(Len(bus) + 1)
    BY <1>2
  <1>7. ToSet(bus') = ToSet(bus) \cup {e}
    BY <1>2, <1>3, <1>4, <1>5, <1>6 DEF ToSet
  <1>8. ASSUME NEW x \in ToSet(bus), Late(x) PROVE Late(x)'
    <2>1. PICK i \in 1..Len(bus), j \in 1..Len(bus) : i < j /\ bus[j] = x /\ bus[i].id > x.id
      BY <1>8 DEF Late
    <2>2. i \in 1..Len(bus') /\ j \in 1..Len(bus') /\ bus'[j] = x /\ bus'[i].id > x.id
      BY <2>1, <1>3, <1>5
    <2> QED
      BY <2>1, <2>2 DEF Late
  <1>9. ASSUME NEW c \in ToSet(bus), c.id > e.id PROVE Late(e)'
    <2>1. PICK i \in 1..Len(bus) : bus[i] = c
      BY <1>2 DEF ToSet
    <2>2. /\ i \in 1..Len(bus') /\ Len(bus) + 1 \in 1..Len(bus') /\ i < Len(bus) + 1
          /\ bus'[Len(bus) + 1] = e /\ bus'[i].id > e.id
      BY <2>1, <1>3, <1>5, <1>6, <1>9
    <2> QED
      BY <2>2 DEF Late
  <1> QED
    BY <1>7, <1>8, <1>9

\* Ids of events and cursors are numbers, and no event has the empty cursor.
LEMMA BusNumbers ==
    ASSUME TypeOK
    PROVE  /\ \A e \in ToSet(bus) : e \in Event /\ e.id \in Nat \ {0}
           /\ pipe # None => pipe.cursor \in Nat
           /\ Polling => poll.next \in Nat
  <1>1. \A e \in ToSet(bus) : e \in Event /\ e.id \in Events
    BY BusIs
  <1>2. {Start} \cup Events \cup Iterators \subseteq Nat
    BY IdsAssumption DEF Start
  <1>3. pipe # None => pipe.cursor \in {Start} \cup Events \cup Iterators
    BY DEF TypeOK, Pipe
  <1>4. Polling => poll.next \in {Start} \cup Events \cup Iterators
    BY PollIs
  <1>5. Events \subseteq Nat \ {0}
    BY IdsAssumption
  <1> HIDE DEF Start
  <1> QED
    BY <1>1, <1>2, <1>3, <1>4, <1>5

\* How a step of an undisturbed pipe of a bus moves its cursor: not at all, or to
\* where the last of its own poll stands.
LEMMA BusMove ==
    ASSUME SkipInv, StoreCursor \/ StoreLast,
           pipe' # None, pipe'.source = "bus", pipe'.n \notin disturbed'
    PROVE  /\ pipe # None /\ pipe.source = "bus" /\ pipe.n \notin disturbed /\ pipe'.n = pipe.n
           /\ UNCHANGED <<bus, handed>>
           /\ ~PollOf(pipe.n)'
           /\ \/ pipe' = pipe
              \/ PollOf(pipe.n) /\ poll.at = "last" /\ poll.batch = <<>> /\ pipe'.cursor = poll.next
  <1>1. TypeOK /\ Staged /\ SameSource
    BY DEF SkipInv, OnceInv, BaseInv
  <1>2. poll' = Idle => ~Polling'
    BY NoPoll DEF Polling
  <1>3. CASE StoreCursor
    <2>1. /\ Polling /\ poll.at = "store" /\ SetPipeSourceCursor
          /\ UNCHANGED <<bus, handed>>
          /\ poll' = Idle \/ poll'.pipe = poll.pipe
          /\ poll.pipe.source = "stream"
      BY <1>1, <1>3, StoreCursorIs DEF Staged
    <2>2. /\ disturbed \subseteq disturbed' /\ pipe # None
          /\ pipe'.source = pipe.source /\ pipe'.n = pipe.n
          /\ \/ pipe' = pipe /\ poll.pipe.n # pipe.n
             \/ poll.pipe.n = pipe.n /\ pipe'.cursor = poll.next
      BY <2>1, <1>1, CursorStored
    <2>3. poll.pipe.n # pipe.n
      BY <2>1, <2>2, <1>1 DEF SameSource, PollOf
    <2> QED
      BY <2>1, <2>2, <2>3, <1>2 DEF PollOf
  <1>4. CASE StoreLast
    <2>1. /\ Polling /\ poll.at = "last" /\ SetPipeSourceCursor
          /\ UNCHANGED <<bus, handed>> /\ poll' = Idle
          /\ poll.batch = <<>>
      BY <1>1, <1>4, StoreLastIs DEF Staged
    <2>2. /\ disturbed \subseteq disturbed' /\ pipe # None
          /\ pipe'.source = pipe.source /\ pipe'.n = pipe.n
          /\ \/ pipe' = pipe /\ poll.pipe.n # pipe.n
             \/ poll.pipe.n = pipe.n /\ pipe'.cursor = poll.next
      BY <2>1, <1>1, CursorStored
    <2> QED
      BY <2>1, <2>2, <1>2 DEF PollOf
  <1> QED
    BY <1>3, <1>4

\* The cursor of an undisturbed pipe of a bus is the id of an event on it.
LEMMA BusCursorStep == SkipInv /\ [Next]_vars => BusCursor'
  <1> SUFFICES ASSUME SkipInv, [Next]_vars,
                      pipe' # None, pipe'.source = "bus", pipe'.n \notin disturbed'
               PROVE  pipe'.cursor \in {Start} \cup Ids'
    BY DEF BusCursor
  <1>1. TypeOK /\ NoGap /\ Staged /\ BusCursor /\ PassedOfBusPoll
    BY DEF SkipInv, OnceInv, BaseInv
  <1>2. CASE UNCHANGED <<pipe, bus, disturbed>>
    BY <1>1, <1>2 DEF BusCursor, Ids
  <1>3. CASE Elsewhere
    <2>1. CASE CreatePipe
      BY <2>1 DEF CreatePipe
    <2>2. CASE DeletePipe
      BY <2>2 DEF DeletePipe
    <2>3. CASE PutEvent
      BY <2>3, <1>1, PutIs DEF BusCursor, PutEvent, history, Ids
    <2>4. CASE UNCHANGED <<pipe, created>> /\ UNCHANGED bus
      BY <2>4, <1>2, <1>3, ElsewhereIs
    <2> QED
      BY <2>1, <2>2, <2>3, <2>4, <1>3, ElsewhereIs
  <1>4. CASE Ending \/ GetPipe \/ Receive \/ OpenIterator \/ ReadPage
    BY <1>1, <1>2, <1>4, EndingIs, GetPipeIs, ReceiveIs, OpenIteratorIs, ReadPageIs
  <1>5. CASE ReadBus \/ HandOver \/ DeleteMessage
    BY <1>1, <1>2, <1>5, ReadBusIs, HandOverIs, DeleteMessageIs
  <1>6. CASE StoreCursor \/ StoreLast
    <2>1. /\ pipe # None /\ pipe.source = "bus" /\ pipe.n \notin disturbed /\ bus' = bus
          /\ \/ pipe' = pipe
             \/ PollOf(pipe.n) /\ poll.at = "last" /\ pipe'.cursor = poll.next
      BY <1>6, BusMove
    <2>2. CASE pipe' = pipe
      BY <2>1, <2>2, <1>1 DEF BusCursor, Ids
    <2>3. CASE PollOf(pipe.n) /\ poll.at = "last" /\ pipe'.cursor = poll.next
      BY <2>1, <2>3, <1>1 DEF PassedOfBusPoll, Ids
    <2> QED
      BY <2>1, <2>2, <2>3
  <1>7. CASE ListRunningPipes
    BY <1>2, <1>7 DEF ListRunningPipes, history
  <1>8. CASE UNCHANGED vars
    BY <1>2, <1>8 DEF vars, history
  <1> QED
    BY <1>3, <1>4, <1>5, <1>6, <1>7, <1>8, StepCases

\* What was passed on a bus stays passed.
LEMMA BusPassedStep == SkipInv /\ [Next]_vars => BusPassed'
  <1> SUFFICES ASSUME SkipInv, [Next]_vars,
                      pipe' # None, pipe'.n \notin disturbed', pipe'.source = "bus",
                      NEW e \in ToSet(bus'), e.id <= pipe'.cursor
               PROVE  Handed(pipe.n, e)' \/ Late(e)'
    BY DEF BusPassed
  <1>1. TypeOK /\ NoGap /\ Staged /\ BusCursor /\ PassedOfBusPoll /\ BusPassed
    BY DEF SkipInv, OnceInv, BaseInv
  <1>2. CASE UNCHANGED <<pipe, bus, disturbed>> /\ handed \subseteq handed'
    <2>1. Handed(pipe.n, e) \/ Late(e)
      BY <1>1, <1>2 DEF BusPassed
    <2> QED
      BY <2>1, <1>2 DEF Handed, Late
  <1>3. CASE Elsewhere
    <2>1. CASE CreatePipe
      <3>1. pipe'.cursor = 0 /\ bus' = bus
        BY <2>1 DEF CreatePipe, Start
      <3>2. e.id \in Nat \ {0}
        BY <3>1, <1>1, BusNumbers
      <3> QED
        BY <3>1, <3>2
    <2>2. CASE DeletePipe
      BY <2>2 DEF DeletePipe
    <2>3. CASE PutEvent
      <3>1. UNCHANGED <<pipe, handed, disturbed>>
        BY <2>3 DEF PutEvent, history
      <3>2. PICK x \in Event \ ToSet(bus) :
              /\ ToSet(bus') = ToSet(bus) \cup {x}
              /\ \A y \in ToSet(bus) : Late(y) => Late(y)'
              /\ \A c \in ToSet(bus) : c.id > x.id => Late(x)'
        BY <2>3, <1>1, PutIs
      <3>3. CASE e \in ToSet(bus)
        BY <3>1, <3>2, <3>3, <1>1 DEF BusPassed, Handed
      <3>4. CASE e = x
        <4>1. e.id \in Nat \ {0} /\ pipe.cursor \in Nat /\ x \notin ToSet(bus)
          BY <3>1, <3>4, <1>1, BusNumbers, IdsAssumption DEF Event
        <4>2. PICK c \in ToSet(bus) : pipe.cursor = c.id
          BY <3>1, <4>1, <1>1 DEF BusCursor, Start, Ids
        <4>3. c.id # e.id
          <5>1. c \in Event /\ x \in Event /\ c # x
            BY <4>1, <1>1, BusNumbers
          <5> QED
            BY <5>1, <3>4 DEF Event
        <4>4. c.id > e.id
          BY <3>1, <4>1, <4>2, <4>3
        <4> QED
          BY <3>2, <3>4, <4>4
      <3> QED
        BY <3>2, <3>3, <3>4
    <2>4. CASE UNCHANGED <<pipe, created>> /\ UNCHANGED bus
      BY <2>4, <1>2, <1>3, ElsewhereIs
    <2> QED
      BY <2>1, <2>2, <2>3, <2>4, <1>3, ElsewhereIs
  <1>4. CASE Ending \/ GetPipe \/ Receive \/ OpenIterator \/ ReadPage
    BY <1>1, <1>2, <1>4, EndingIs, GetPipeIs, ReceiveIs, OpenIteratorIs, ReadPageIs
  <1>5. CASE ReadBus \/ HandOver \/ DeleteMessage
    BY <1>1, <1>2, <1>5, ReadBusIs, HandOverIs, DeleteMessageIs
  <1>6. CASE StoreCursor \/ StoreLast
    <2>1. /\ pipe # None /\ pipe.source = "bus" /\ pipe.n \notin disturbed /\ pipe'.n = pipe.n
          /\ UNCHANGED <<bus, handed>>
          /\ \/ pipe' = pipe
             \/ PollOf(pipe.n) /\ poll.at = "last" /\ poll.batch = <<>> /\ pipe'.cursor = poll.next
      BY <1>6, BusMove
    <2>2. Handed(pipe.n, e) \/ Late(e)
      <3>1. CASE pipe' = pipe
        BY <2>1, <3>1, <1>1 DEF BusPassed
      <3>2. CASE PollOf(pipe.n) /\ poll.at = "last" /\ poll.batch = <<>> /\ pipe'.cursor = poll.next
        <4>1. Handed(pipe.n, e) \/ e \in ToSet(poll.batch) \/ Late(e)
          BY <2>1, <3>2, <1>1 DEF PassedOfBusPoll
        <4> QED
          BY <3>2, <4>1, EmptyBatch
      <3> QED
        BY <2>1, <3>1, <3>2
    <2> QED
      BY <2>1, <2>2 DEF Handed, Late
  <1>7. CASE ListRunningPipes
    BY <1>2, <1>7 DEF ListRunningPipes, history
  <1>8. CASE UNCHANGED vars
    BY <1>2, <1>8 DEF vars, history
  <1> QED
    BY <1>3, <1>4, <1>5, <1>6, <1>7, <1>8, StepCases

\* Up to where a poll of a bus will store the cursor everything was passed or is in its batch.
LEMMA PassedOfBusPollStep == SkipInv /\ [Next]_vars => PassedOfBusPoll'
  <1> DEFINE Goal ==
        /\ poll'.at = "page" => poll'.pipe.cursor = pipe'.cursor
        /\ poll'.at \in {"item", "last"} =>
             /\ poll'.next \in Ids'
             /\ \A e \in ToSet(bus') : e.id <= poll'.next =>
                  Handed(pipe.n, e)' \/ e \in ToSet(poll'.batch) \/ Late(e)'
  <1> SUFFICES ASSUME SkipInv, [Next]_vars,
                      pipe' # None, pipe'.source = "bus", pipe'.n \notin disturbed', PollOf(pipe.n)'
               PROVE  Goal
    BY DEF PassedOfBusPoll
  <1>1. TypeOK /\ NoGap /\ Staged /\ SameSource /\ Numbered
        /\ BusCursor /\ PassedOfBusPoll /\ BusPassed
    BY DEF SkipInv, OnceInv, BaseInv
  <1>2. poll' # Idle
    BY NoPoll DEF PollOf, Polling
  <1>3. CASE UNCHANGED <<pipe, bus, disturbed, poll, handed>>
    <2>1. PollOf(pipe.n)
      BY <1>3 DEF PollOf, Polling
    <2> QED
      BY <1>1, <1>3, <2>1 DEF PassedOfBusPoll, Handed, Late, Ids
  <1>4. CASE Elsewhere
    <2>1. CASE CreatePipe
      <3>1. poll' = poll /\ pipe'.n = created + 1
        BY <2>1 DEF CreatePipe
      <3>2. Polling /\ poll.pipe.n = created + 1
        BY <3>1 DEF PollOf, Polling
      <3> QED
        BY <3>2, <1>1 DEF Numbered, TypeOK
    <2>2. CASE DeletePipe
      BY <2>2 DEF DeletePipe
    <2>3. CASE PutEvent
      <3>1. UNCHANGED <<pipe, handed, disturbed, poll>>
        BY <2>3 DEF PutEvent, history
      <3>2. PICK x \in Event \ ToSet(bus) :
              /\ ToSet(bus') = ToSet(bus) \cup {x}
              /\ \A y \in ToSet(bus) : Late(y) => Late(y)'
              /\ \A c \in ToSet(bus) : c.id > x.id => Late(x)'
        BY <2>3, <1>1, PutIs
      <3>3. PollOf(pipe.n)
        BY <3>1 DEF PollOf, Polling
      <3>4. poll.at = "page" => poll.pipe.cursor = pipe.cursor
        BY <3>1, <3>3, <1>1 DEF PassedOfBusPoll
      <3>5. ASSUME poll.at \in {"item", "last"}
            PROVE  /\ poll.next \in Ids'
                   /\ \A e \in ToSet(bus') : e.id <= poll.next =>
                        Handed(pipe.n, e) \/ e \in ToSet(poll.batch) \/ Late(e)'
        <4>1. /\ poll.next \in Ids
              /\ \A e \in ToSet(bus) : e.id <= poll.next =>
                   Handed(pipe.n, e) \/ e \in ToSet(poll.batch) \/ Late(e)
          BY <3>1, <3>3, <3>5, <1>1 DEF PassedOfBusPoll
        <4>2. ASSUME x.id <= poll.next PROVE Late(x)'
          <5>1. PICK c \in ToSet(bus) : poll.next = c.id
            BY <4>1 DEF Ids
          <5>2. c \in Event /\ x \in Event /\ c # x
            BY <1>1, BusNumbers
          <5>3. x.id \in Nat /\ c.id \in Nat /\ x.id # c.id
            <6>1. x.id \in Events /\ c.id \in Events /\ x.id # c.id
              BY <5>2 DEF Event
            <6> QED
              BY <6>1, IdsAssumption
          <5>4. c.id > x.id
            BY <5>1, <5>3, <4>2
          <5> QED
            BY <5>4, <3>2
        <4>3. poll.next \in Ids'
          BY <4>1, <3>2 DEF Ids
        <4>4. ASSUME NEW e \in ToSet(bus'), e.id <= poll.next
              PROVE  Handed(pipe.n, e) \/ e \in ToSet(poll.batch) \/ Late(e)'
          <5>1. CASE e \in ToSet(bus)
            BY <4>1, <4>4, <5>1, <3>2
          <5>2. CASE e = x
            BY <4>2, <4>4, <5>2
          <5> QED
            BY <5>1, <5>2, <3>2
        <4> QED
          BY <4>3, <4>4
      <3> QED
        BY <3>1, <3>4, <3>5 DEF Handed
    <2>4. CASE UNCHANGED <<pipe, created>> /\ UNCHANGED bus
      BY <2>4, <1>3, <1>4, ElsewhereIs
    <2> QED
      BY <2>1, <2>2, <2>3, <2>4, <1>4, ElsewhereIs
  <1>5. CASE Ending \/ ListRunningPipes
    BY <1>1, <1>2, <1>5, EndingIs, NoPoll DEF ListRunningPipes, PollOf, Polling
  <1>6. CASE GetPipe
    <2>1. /\ pipe' = pipe /\ poll'.pipe = pipe /\ poll'.at = First(pipe.source, pipe.cursor)
      BY <1>1, <1>2, <1>6, GetPipeIs
    <2>2. poll'.at = "page"
      BY <2>1, FirstIs
    <2> QED
      BY <2>1, <2>2
  <1>7. CASE Receive \/ OpenIterator \/ ReadPage \/ DeleteMessage
    <2>1. /\ Polling /\ poll.pipe.source \in {"queue", "stream"} /\ pipe' = pipe /\ poll'.pipe = poll.pipe
      BY <1>1, <1>2, <1>7, ReceiveIs, OpenIteratorIs, ReadPageIs, DeleteMessageIs DEF Staged
    <2> QED
      BY <2>1, <1>1 DEF SameSource, PollOf
  <1>8. CASE StoreCursor \/ StoreLast
    BY <1>8, BusMove
  <1>9. CASE ReadBus
    <2>1. /\ Polling /\ poll.at = "page" /\ UNCHANGED <<pipe, bus, handed, disturbed>>
          /\ poll'.at = "item" /\ poll'.pipe = poll.pipe /\ poll'.next \in Ids
          /\ \A e \in ToSet(bus) : e.id > poll.pipe.cursor /\ e.id <= poll'.next => e \in ToSet(poll'.batch)
      BY <1>1, <1>2, <1>9, ReadBusIs
    <2>2. PollOf(pipe.n)
      BY <2>1 DEF PollOf
    <2>3. poll.pipe.cursor = pipe.cursor
      BY <2>1, <2>2, <1>1 DEF PassedOfBusPoll
    <2>4. ASSUME NEW e \in ToSet(bus), e.id <= poll'.next
          PROVE  Handed(pipe.n, e) \/ e \in ToSet(poll'.batch) \/ Late(e)
      <3>1. e.id \in Nat /\ pipe.cursor \in Nat
        BY <2>1, <1>1, BusNumbers
      <3>2. CASE e.id > pipe.cursor
        BY <2>1, <2>3, <2>4, <3>2
      <3>3. CASE e.id <= pipe.cursor
        BY <2>1, <3>3, <1>1 DEF BusPassed
      <3> QED
        BY <3>1, <3>2, <3>3
    <2> QED
      BY <2>1, <2>4 DEF Handed, Late, Ids
  <1>10. CASE HandOver
    <2>1. /\ Polling /\ poll.at = "item" /\ poll.batch # <<>>
          /\ UNCHANGED <<pipe, bus, disturbed>>
          /\ handed' = handed \cup {<<poll.pipe.n, Head(poll.batch)>>}
          /\ poll'.pipe = poll.pipe /\ poll'.next = poll.next
          /\ \/ poll.pipe.source = "queue"
             \/ poll'.at \in {"item", "last"} /\ poll'.batch = Tail(poll.batch)
      BY <1>1, <1>2, <1>10, HandOverIs
    <2>2. PollOf(pipe.n) /\ poll.pipe.n = pipe.n
      BY <2>1 DEF PollOf
    <2>3. poll.pipe.source = "bus"
      BY <2>1, <2>2, <1>1 DEF SameSource
    <2>4. ToSet(poll.batch) = {Head(poll.batch)} \cup ToSet(Tail(poll.batch))
      BY <2>1, <1>1, PollIs, BatchSplit
    <2>5. /\ poll.next \in Ids
          /\ \A e \in ToSet(bus) : e.id <= poll.next =>
               Handed(pipe.n, e) \/ e \in ToSet(poll.batch) \/ Late(e)
      BY <2>1, <2>2, <1>1 DEF PassedOfBusPoll
    <2> QED
      BY <2>1, <2>2, <2>3, <2>4, <2>5 DEF Handed, Late, Ids
  <1>11. CASE UNCHANGED vars
    BY <1>3, <1>11 DEF vars, history
  <1> QED
    BY <1>4, <1>5, <1>6, <1>7, <1>8, <1>9, <1>10, <1>11, StepCases

\* Initially.
LEMMA SkipInit == Init => SkipInv
  <1> SUFFICES ASSUME Init PROVE SkipInv
    OBVIOUS
  <1>1. OnceInv
    BY OnceInit
  <1>2. pipe = None /\ ~Polling
    BY NoPoll DEF Init, Polling
  <1> QED
    BY <1>1, <1>2 DEF SkipInv, PassedOfPoll, StreamPassed, BusCursor, PassedOfBusPoll, BusPassed

\* Nothing behind a pipe's cursor was passed over, of a stream or of a bus, unless the
\* cursor was not stored or was stored by the poll of an earlier pipe.
THEOREM NothingSkippedHolds == Spec => []NothingSkipped
  <1>1. Init => SkipInv
    BY SkipInit
  <1>2. SkipInv /\ [Next]_vars => SkipInv'
    <2> SUFFICES ASSUME SkipInv, [Next]_vars PROVE SkipInv'
      OBVIOUS
    <2>1. OnceInv /\ BaseInv
      BY DEF SkipInv, OnceInv
    <2>2. OnceInv'
      BY <2>1, BaseStep, NumberedStep, OncePipeStep, OncePollStep, OnceStep DEF OnceInv
    <2> QED
      BY <2>2, StreamPassedStep, PassedOfPollStep, BusCursorStep, BusPassedStep, PassedOfBusPollStep DEF SkipInv
  <1>3. SkipInv => NothingSkipped
    BY Halves DEF SkipInv, OnceInv, BaseInv
  <1> QED
    BY <1>1, <1>2, <1>3, PTL DEF Spec
=============================================================================
