--------------------------- MODULE LambdaESMProofs ---------------------------
(***************************************************************************)
(* Proofs about LambdaESM, for any number of mappings, iterators, writers, *)
(* records and restarts, and whatever goes wrong.                          *)
(***************************************************************************)
EXTENDS LambdaESM, FiniteSetTheorems, TLAPS

\* A nonempty finite set of numbers has a largest element: the poller's last ordinal
\* of a batch is defined.
LEMMA LargestExists ==
  ASSUME NEW S \in SUBSET Nat, IsFiniteSet(S), S # {}
  PROVE  \E n \in S : \A k \in S : k <= n
<1> DEFINE Above(n) == {k \in S : k > n}
           Tops == {Above(n) : n \in S}
<1>1. Tops \subseteq SUBSET S /\ Tops # {}
  OBVIOUS
<1>2. PICK T \in Tops : \A U \in Tops : <<U, T>> \notin StrictSubsetOrdering(S)
  <2> HIDE DEF Tops
  <2>1. Tops \subseteq FiniteSubsetsOf(S)
    BY <1>1, FS_FiniteSubsetsOfFinite
  <2> QED BY <1>1, <2>1, FS_StrictSubsetOrderingWellFounded, WFMin
<1>3. PICK n \in S : T = Above(n)
  BY <1>2
<1>4. ASSUME NEW k \in S, k > n PROVE FALSE
  <2>1. k \in Nat /\ n \in Nat /\ S \subseteq Nat
    OBVIOUS
  <2>2. \A j \in Nat : j > k => j > n
    BY <1>4, <2>1
  <2>3. k \in T
    BY <1>3, <1>4
  <2>4. k \notin Above(k)
    BY <2>1
  <2>5. Above(k) \subseteq T
    BY <1>3, <2>1, <2>2
  <2>6. <<Above(k), T>> \in StrictSubsetOrdering(S)
    BY <1>3, <2>3, <2>4, <2>5 DEF StrictSubsetOrdering
  <2> QED BY <1>2, <2>6
<1> QED BY <1>4

\* Every ordinal below n is that of a record: what is appended below n shares
\* its ordinal with another record.
Filled(n) == \A o \in Nat : o < n => \E r \in stream : r.ord = o

OrdinalsFilled ==
    /\ \A r \in stream : Filled(r.ord)
    /\ \A w \in Writers : Filled(claimed[w])
    /\ \A i \in Iterators : iterators[i] # None => Filled(iterators[i].next)

\* recs holds every record below n that has its ordinal for itself.
Covers(n, recs) == \A r \in stream : r.ord < n /\ Alone(r) => r \in recs

\* The same for the position of iterator i, as long as i is there.
CoversTo(i, recs) == iterators[i] # None => Covers(iterators[i].next, recs)

CursorOK(m) ==
    mappings[m] # None /\ mappings[m].cursor # None => CoversTo(mappings[m].cursor, handled[m])

\* What a poll counts on: the records behind the iterator it found, behind
\* the position it read from, and behind the iterator it is to store.
PollOK(p) ==
    LET of == poll[p].of
    IN /\ poll[p].phase = "idle" => poll[p] = Idle
       /\ poll[p].phase # "idle" => of \in Mappings
       /\ poll[p].phase = "find" => poll[p].it \in Iterators /\ CoversTo(poll[p].it, handled[of])
       /\ poll[p].phase = "read" => Filled(poll[p].from) /\ Covers(poll[p].from, handled[of])
       /\ poll[p].phase \in {"invoke", "store"} => poll[p].next \in Iterators
       /\ poll[p].phase = "invoke" => CoversTo(poll[p].next, handled[of] \cup Matched(p, poll[p].page))
       /\ poll[p].phase = "store" => CoversTo(poll[p].next, handled[of])

IInv ==
    /\ TypeOK
    /\ OrdinalsFilled
    /\ \A m \in Mappings : CursorOK(m)
    /\ \A p \in Pollers : PollOK(p)

-----------------------------------------------------------------------------
(* The operators the steps are built from.                                 *)

\* The highest ordinal of a nonempty finite set of records is the ordinal of
\* one of them, and no other is higher.
LEMMA MaxOrdReached ==
    ASSUME NEW S \in SUBSET Record, IsFiniteSet(S), S # {}
    PROVE  \E r \in S : MaxOrd(S) = r.ord /\ \A s \in S : s.ord <= r.ord
<1> DEFINE O == {r.ord : r \in S}
           f == [r \in S |-> r.ord]
<1>1. O \in SUBSET Nat /\ O # {}
  BY DEF Record
<1>2. IsFiniteSet(O)
  <2>1. f \in Surjection(S, O)
    BY DEF Surjection
  <2> HIDE DEF O, f
  <2> QED  BY <2>1, FS_Surjection
<1>3. MaxOrd(S) = Max(O)
  BY DEF MaxOrd
<1>4. PICK n \in O : \A k \in O : k <= n
  <2> HIDE DEF O
  <2> QED  BY <1>1, <1>2, LargestExists
<1>5. Max(O) \in O /\ \A k \in O : k <= Max(O)
  <2>1. \E x \in O : \A y \in O : x >= y
    BY <1>1, <1>4
  <2> HIDE DEF O
  <2> QED  BY <1>1, <2>1 DEF Max
<1>6. PICK r \in S : Max(O) = r.ord
  BY <1>5
<1> QED  BY <1>3, <1>5, <1>6

\* A new iterator has an id that no cursor and no poll names.
LEMMA NewIteratorFresh ==
    ASSUME Fresh # {}
    PROVE  NewIterator \in Iterators \ Named
BY DEF NewIterator, Fresh

\* The rows that are written are rows of the table that was to be written.
LEMMA RowsWritten ==
    ASSUME NEW table \in [Iterators -> IteratorRow \cup {None}], WriteIterators(table)
    PROVE  /\ iterators' \in [Iterators -> IteratorRow \cup {None}]
           /\ \A i \in Iterators : iterators'[i] # None => iterators'[i] = table[i]
BY DEF WriteIterators

LEMMA NewRowType ==
    ASSUME NEW n \in Nat, TypeOK
    PROVE  NewRow(n) \in IteratorRow /\ NewRow(n).next = n /\ NewRow(n) # None
BY NoneAssumption, TimeAssumption DEF NewRow, IteratorRow, TypeOK

-----------------------------------------------------------------------------
(* What the steps of others leave a mapping or a poll.                     *)

\* Below a filled position nothing is ever added that has its ordinal alone.
Steady == \A n \in Int : Filled(n) =>
              /\ Filled(n)'
              /\ \A r \in stream' : r.ord < n /\ Alone(r)' => r \in stream /\ Alone(r)

\* Iterators that are named keep their position, or go.
NamedKept == \A i \in Iterators : i \in Named /\ iterators'[i] # None => iterators'[i] = iterators[i]

HandledGrows == \A m \in Mappings : handled[m] \subseteq handled'[m]

LEMMA SameStream ==
    ASSUME stream' = stream
    PROVE  Steady
BY DEF Steady, Filled, Alone

\* A position that was covered is covered by whatever has grown from recs.
LEMMA CoversStays ==
    ASSUME OrdinalsFilled, Steady, NamedKept, TypeOK,
           NEW i \in Iterators, i \in Named, NEW recs, NEW more, recs \subseteq more,
           CoversTo(i, recs)
    PROVE  iterators'[i] # None => \A r \in stream' : r.ord < iterators'[i].next /\ Alone(r)' => r \in more
<1> SUFFICES ASSUME iterators'[i] # None, NEW r \in stream', r.ord < iterators'[i].next, Alone(r)'
             PROVE  r \in more
  OBVIOUS
<1>1. iterators'[i] = iterators[i] /\ iterators[i] # None
  BY DEF NamedKept
<1>2. Filled(iterators[i].next) /\ iterators[i].next \in Int
  BY <1>1 DEF OrdinalsFilled, TypeOK, IteratorRow
<1>3. r \in stream /\ Alone(r)
  BY <1>1, <1>2 DEF Steady
<1> QED  BY <1>1, <1>3 DEF CoversTo, Covers

LEMMA CursorStays ==
    ASSUME IInv, Steady, NamedKept, HandledGrows, NEW m \in Mappings,
           mappings'[m] # None => mappings[m] # None /\ mappings'[m].cursor = mappings[m].cursor
    PROVE  CursorOK(m)'
<1> DEFINE c == mappings[m].cursor
<1> SUFFICES ASSUME mappings'[m] # None, mappings'[m].cursor # None
             PROVE  CoversTo(mappings[m].cursor, handled[m])'
  BY DEF CursorOK
<1>1. mappings[m] # None /\ c # None /\ mappings'[m].cursor = c
  OBVIOUS
<1>2. c \in Iterators
  BY <1>1 DEF IInv, TypeOK, Row
<1>3. c \in Named
  BY <1>1 DEF Named
<1>4. CoversTo(c, handled[m])
  BY <1>1 DEF IInv, CursorOK
<1>5. handled[m] \subseteq handled'[m]
  BY DEF HandledGrows
<1>6. iterators'[c] # None => \A r \in stream' : r.ord < iterators'[c].next /\ Alone(r)' => r \in handled'[m]
  <2> HIDE DEF c
  <2> QED  BY <1>2, <1>3, <1>4, <1>5, CoversStays DEF IInv
<1> QED  BY <1>1, <1>6 DEF CoversTo, Covers

LEMMA PollStays ==
    ASSUME IInv, Steady, NamedKept, HandledGrows, NEW p \in Pollers, poll'[p] = poll[p]
    PROVE  PollOK(p)'
<1> DEFINE of == poll[p].of
<1> poll[p] \in Poll /\ PollOK(p)
  BY DEF IInv, TypeOK
<1>1. poll[p].phase # "idle" => of \in Mappings /\ handled[of] \subseteq handled'[of]
  BY DEF PollOK, HandledGrows
<1>2. poll[p].it \in Iterators => poll[p].it \in Named
  BY DEF Named
<1>3. poll[p].next \in Iterators => poll[p].next \in Named
  BY DEF Named
<1>4. ASSUME poll[p].phase = "find"
      PROVE  poll[p].it \in Iterators /\ CoversTo(poll[p].it, handled[of])'
  <2>1. poll[p].it \in Iterators /\ CoversTo(poll[p].it, handled[of])
    BY <1>4 DEF PollOK
  <2>2. iterators'[poll[p].it] # None =>
          \A r \in stream' : r.ord < iterators'[poll[p].it].next /\ Alone(r)' => r \in handled'[of]
    BY <1>1, <1>2, <1>4, <2>1, CoversStays DEF IInv
  <2> QED  BY <2>1, <2>2 DEF CoversTo, Covers
<1>5. ASSUME poll[p].phase = "read"
      PROVE  Filled(poll[p].from)' /\ Covers(poll[p].from, handled[of])'
  <2>1. Filled(poll[p].from) /\ Covers(poll[p].from, handled[of]) /\ poll[p].from \in Int
    BY <1>5 DEF PollOK, Poll
  <2>2. handled[of] \subseteq handled'[of]
    BY <1>1, <1>5
  <2>3. Filled(poll[p].from)'
    BY <2>1 DEF Steady, Filled
  <2>4. \A r \in stream' : r.ord < poll[p].from /\ Alone(r)' => r \in handled'[of]
    BY <2>1, <2>2 DEF Steady, Covers
  <2> QED  BY <2>3, <2>4 DEF Covers
<1>6. ASSUME poll[p].phase = "invoke"
      PROVE  CoversTo(poll[p].next, handled[of] \cup Matched(p, poll[p].page))'
  <2> DEFINE mm == Matched(p, poll[p].page)
  <2>1. poll[p].next \in Iterators /\ CoversTo(poll[p].next, handled[of] \cup mm)
    BY <1>6 DEF PollOK
  <2>2. handled[of] \cup mm \subseteq handled'[of] \cup mm
    BY <1>1, <1>6
  <2>3. mm' = mm
    BY DEF Matched
  <2>4. iterators'[poll[p].next] # None =>
          \A r \in stream' : r.ord < iterators'[poll[p].next].next /\ Alone(r)' => r \in handled'[of] \cup mm
    <3> HIDE DEF mm
    <3> QED  BY <1>3, <2>1, <2>2, CoversStays DEF IInv
  <2> HIDE DEF mm
  <2> QED  BY <2>3, <2>4 DEF CoversTo, Covers, mm
<1>7. ASSUME poll[p].phase = "store"
      PROVE  CoversTo(poll[p].next, handled[of])'
  <2>1. poll[p].next \in Iterators /\ CoversTo(poll[p].next, handled[of])
    BY <1>7 DEF PollOK
  <2>2. iterators'[poll[p].next] # None =>
          \A r \in stream' : r.ord < iterators'[poll[p].next].next /\ Alone(r)' => r \in handled'[of]
    BY <1>1, <1>3, <1>7, <2>1, CoversStays DEF IInv
  <2> QED  BY <2>2 DEF CoversTo, Covers
<1>8. poll[p].phase \in {"invoke", "store"} => poll[p].next \in Iterators
  BY DEF PollOK
<1> QED  BY <1>1, <1>4, <1>5, <1>6, <1>7, <1>8 DEF PollOK

-----------------------------------------------------------------------------
(* One step of poll p: it becomes q, and what it leaves is in order.       *)

LEMMA PollerStep ==
    ASSUME IInv, TypeOK', NEW p \in Pollers, NEW q, poll' = [poll EXCEPT ![p] = q],
           stream' = stream, claimed' = claimed, NamedKept, HandledGrows,
           \A i \in Iterators : iterators'[i] # None =>
               iterators'[i] = iterators[i] \/ Filled(iterators'[i].next),
           PollOK(p)', \A m \in Mappings : CursorOK(m)'
    PROVE  IInv'
<1> Steady
  BY SameStream
<1>1. OrdinalsFilled'
  <2>1. \A n : Filled(n)' <=> Filled(n)
    BY DEF Filled
  <2>2. \A i \in Iterators : iterators'[i] # None => Filled(iterators'[i].next)
    BY DEF IInv, OrdinalsFilled
  <2> QED  BY <2>1, <2>2 DEF IInv, OrdinalsFilled, Filled
<1>2. \A o \in Pollers : o # p => poll'[o] = poll[o]
  BY DEF IInv, TypeOK
<1>3. \A o \in Pollers : PollOK(o)'
  BY <1>2, PollStays
<1> QED  BY <1>1, <1>3 DEF IInv

\* A poll that ends leaves at most a row less behind.
LEMMA StopStep ==
    ASSUME IInv, NEW p \in Pollers, Stop(p),
           stream' = stream, claimed' = claimed, mappings' = mappings, created' = created,
           handled' = handled, now' = now, running' = running, due' \subseteq due,
           redelivered' = redelivered, NEW ms \in SUBSET Mappings, Disturb(ms),
           iterators' \in [Iterators -> IteratorRow \cup {None}],
           \A i \in Iterators : iterators'[i] # None => iterators'[i] = iterators[i]
    PROVE  IInv'
<1> poll' = [poll EXCEPT ![p] = Idle]
  BY DEF Stop, Move
<1>1. TypeOK'
  <2>1. Idle \in Poll
    BY DEF Idle, Poll, Phases, Row
  <2> QED  BY <2>1 DEF IInv, TypeOK, Disturb
<1>2. NamedKept /\ HandledGrows /\ Steady
  BY SameStream DEF NamedKept, HandledGrows
<1>3. PollOK(p)'
  <2>1. poll'[p] = Idle
    BY DEF IInv, TypeOK
  <2> QED  BY <2>1 DEF PollOK, Idle
<1>4. \A m \in Mappings : CursorOK(m)'
  BY <1>2, CursorStays
<1> QED  BY <1>1, <1>2, <1>3, <1>4, PollerStep

\* Steps of requests and of the clock: neither polls nor rows are touched,
\* but for mappings that go or change their settings.
LEMMA RequestStep ==
    ASSUME IInv, TypeOK', stream' = stream, claimed' = claimed,
           handled' = handled, poll' = poll,
           \A i \in Iterators : iterators'[i] # None => iterators'[i] = iterators[i],
           \A m \in Mappings : mappings'[m] # None =>
               mappings'[m].cursor = None \/ (mappings[m] # None /\ mappings'[m].cursor = mappings[m].cursor)
    PROVE  IInv'
<1>1. NamedKept /\ HandledGrows /\ Steady
  BY SameStream DEF NamedKept, HandledGrows
<1>2. \A m \in Mappings : CursorOK(m)'
  <2> SUFFICES ASSUME NEW m \in Mappings PROVE CursorOK(m)'
    OBVIOUS
  <2>1. CASE mappings'[m] # None /\ mappings'[m].cursor = None
    BY <2>1 DEF CursorOK
  <2>2. CASE mappings'[m] = None \/ mappings'[m].cursor # None
    BY <1>1, <2>2, CursorStays
  <2> QED  BY <2>1, <2>2
<1>3. \A p \in Pollers : PollOK(p)'
  BY <1>1, PollStays
<1>4. OrdinalsFilled'
  BY DEF IInv, OrdinalsFilled, Filled
<1> QED  BY <1>2, <1>3, <1>4 DEF IInv

-----------------------------------------------------------------------------
(* The writers of the stream.                                              *)

LEMMA NextOrdFilled ==
    ASSUME IInv
    PROVE  NextOrd(stream) \in Nat /\ Filled(NextOrd(stream))
<1>1. CASE stream = {}
  BY <1>1 DEF NextOrd, MaxOrd, Filled
<1>2. CASE stream # {}
  <2>1. PICK r \in stream : MaxOrd(stream) = r.ord
    BY <1>2, MaxOrdReached DEF IInv, TypeOK
  <2>2. r.ord \in Nat /\ Filled(r.ord)
    BY <2>1 DEF IInv, TypeOK, Record, OrdinalsFilled
  <2>3. NextOrd(stream) = r.ord + 1
    BY <2>1 DEF NextOrd
  <2> QED  BY <2>2, <2>3 DEF Filled
<1> QED  BY <1>1, <1>2

LEMMA ClaimStep ==
    ASSUME IInv, NEW w \in Writers, Claim(w)
    PROVE  IInv'
<1> UNCHANGED <<stream, mappings, created, iterators, now, running, due, poll, handled, redelivered, disturbed>>
  BY DEF Claim, rows, history
<1>1. claimed' = [claimed EXCEPT ![w] = NextOrd(stream)] /\ NextOrd(stream) \in Nat /\ Filled(NextOrd(stream))
  BY NextOrdFilled DEF Claim
<1>2. TypeOK'
  BY <1>1 DEF IInv, TypeOK
<1>3. OrdinalsFilled'
  <2>1. \A v \in Writers : Filled(claimed'[v])
    BY <1>1 DEF IInv, OrdinalsFilled, TypeOK
  <2> QED  BY <2>1 DEF IInv, OrdinalsFilled, Filled
<1>4. NamedKept /\ HandledGrows /\ Steady
  BY SameStream DEF NamedKept, HandledGrows
<1>5. \A m \in Mappings : CursorOK(m)'
  BY <1>4, CursorStays
<1>6. \A p \in Pollers : PollOK(p)'
  BY <1>4, PollStays
<1> QED  BY <1>2, <1>3, <1>5, <1>6 DEF IInv

LEMMA AppendStep ==
    ASSUME IInv, NEW w \in Writers, Append(w)
    PROVE  IInv'
<1> UNCHANGED <<mappings, created, iterators, now, running, due, poll, handled, redelivered, disturbed>>
  BY DEF Append, history
<1> DEFINE new(k) == [ord |-> claimed[w], n |-> Cardinality(stream) + 1, kind |-> k]
<1>1. PICK k \in Kinds : stream' = stream \cup {new(k)}
  BY DEF Append
<1>2. claimed' = [claimed EXCEPT ![w] = -1] /\ claimed[w] \in Nat
  BY DEF Append, IInv, TypeOK
<1>3. new(k) \in Record
  <2>1. Cardinality(stream) \in Nat
    BY FS_CardinalityType DEF IInv, TypeOK
  <2> QED  BY <1>2, <2>1 DEF Record
<1> HIDE DEF new
<1>4. TypeOK'
  <2>1. stream' \subseteq Record /\ IsFiniteSet(stream')
    BY <1>1, <1>3, FS_AddElement DEF IInv, TypeOK
  <2> QED  BY <1>2, <2>1 DEF IInv, TypeOK
<1>5. new(k).ord = claimed[w] /\ Filled(claimed[w])
  BY DEF IInv, OrdinalsFilled, new
<1>6. Steady
  <2> SUFFICES ASSUME NEW n \in Int, Filled(n)
               PROVE  /\ Filled(n)'
                      /\ \A r \in stream' : r.ord < n /\ Alone(r)' => r \in stream /\ Alone(r)
    BY DEF Steady
  <2>1. Filled(n)'
    BY <1>1 DEF Filled
  <2>2. ASSUME NEW r \in stream', r.ord < n, Alone(r)'
        PROVE  r \in stream /\ Alone(r)
    <3>1. r.ord \in Nat
      BY <1>4 DEF TypeOK, Record
    <3>2. PICK s \in stream : s.ord = r.ord
      BY <2>2, <3>1 DEF Filled
    <3>3. s = r
      BY <1>1, <2>2, <3>2 DEF Alone
    <3> QED  BY <1>1, <2>2, <3>2, <3>3 DEF Alone
  <2> QED  BY <2>1, <2>2
<1>7. OrdinalsFilled'
  <2>1. \A n : Filled(n) => Filled(n)'
    BY <1>1 DEF Filled
  <2>2. \A r \in stream' : Filled(r.ord)
    BY <1>1, <1>5 DEF IInv, OrdinalsFilled
  <2>3. \A v \in Writers : Filled(claimed'[v])
    BY <1>2 DEF IInv, OrdinalsFilled, Filled, TypeOK
  <2>4. \A i \in Iterators : iterators[i] # None => Filled(iterators[i].next)
    BY DEF IInv, OrdinalsFilled
  <2> QED  BY <1>1, <2>2, <2>3, <2>4 DEF OrdinalsFilled, Filled
<1>8. NamedKept /\ HandledGrows
  BY DEF NamedKept, HandledGrows
<1>9. \A m \in Mappings : CursorOK(m)'
  BY <1>6, <1>8, CursorStays
<1>10. \A p \in Pollers : PollOK(p)'
  BY <1>6, <1>8, PollStays
<1> QED  BY <1>4, <1>7, <1>9, <1>10 DEF IInv

-----------------------------------------------------------------------------
(* The requests, the clock and the restart.                                *)

LEMMA CreateStep ==
    ASSUME IInv, NEW m \in Mappings, CreateEventSourceMapping(m)
    PROVE  IInv'
<1> UNCHANGED <<stream, claimed, iterators, now, due, handled, redelivered, disturbed>>
  BY DEF CreateEventSourceMapping, history
<1>1. PICK s \in Settings :
          /\ mappings' = [mappings EXCEPT ![m] = [set |-> s, cursor |-> None]]
          /\ IF Inline /\ s.enabled
               THEN Move(m, [Idle EXCEPT !.phase = "load", !.of = m])
               ELSE UNCHANGED poll
  BY DEF CreateEventSourceMapping
<1> DEFINE row == [set |-> s, cursor |-> None]
           q == [Idle EXCEPT !.phase = "load", !.of = m]
<1>2. row \in Row /\ row.cursor = None
  BY SettingsAssumption DEF Row
<1>3. \A x \in Mappings : x # m => mappings'[x] = mappings[x]
  BY <1>1 DEF IInv, TypeOK
<1>4. mappings' \in [Mappings -> Row \cup {None}] /\ mappings'[m] = row
  BY <1>1, <1>2 DEF IInv, TypeOK
<1>5. created' \subseteq Mappings /\ running' \in BOOLEAN
  BY DEF CreateEventSourceMapping, IInv, TypeOK
<1>6. CASE poll' = poll
  <2>1. TypeOK'
    BY <1>4, <1>5, <1>6 DEF IInv, TypeOK
  <2>2. \A x \in Mappings : mappings'[x] # None =>
            mappings'[x].cursor = None \/ (mappings[x] # None /\ mappings'[x].cursor = mappings[x].cursor)
    BY <1>2, <1>3, <1>4
  <2> QED  BY <1>6, <2>1, <2>2, RequestStep
<1>7. CASE poll' = [poll EXCEPT ![m] = q]
  <2>1. q \in Poll /\ q.phase = "load" /\ q.of = m
    BY DEF Idle, Poll, Phases
  <2> HIDE DEF q
  <2>2. m \in Pollers
    BY DEF Pollers
  <2>3. poll' \in [Pollers -> Poll] /\ poll'[m] = q
    BY <1>7, <2>1, <2>2 DEF IInv, TypeOK
  <2>4. TypeOK'
    BY <1>4, <1>5, <2>3 DEF IInv, TypeOK
  <2>5. NamedKept /\ HandledGrows /\ Steady
    BY SameStream DEF NamedKept, HandledGrows
  <2>6. \A x \in Mappings : CursorOK(x)'
    <3>1. CursorOK(m)'
      BY <1>2, <1>4 DEF CursorOK
    <3>2. \A x \in Mappings : x # m => CursorOK(x)'
      BY <1>3, <2>5, CursorStays
    <3> QED  BY <3>1, <3>2
  <2>7. PollOK(m)'
    BY <2>1, <2>3 DEF PollOK
  <2> QED  BY <1>7, <2>2, <2>4, <2>5, <2>6, <2>7, PollerStep
<1> QED  BY <1>1, <1>6, <1>7 DEF Move

LEMMA RefuseStep ==
    ASSUME IInv, RefuseCreate
    PROVE  IInv'
<1> UNCHANGED <<stream, mappings, created, iterators, claimed, now, due, poll, handled, redelivered, disturbed>> /\ running' = TRUE
  BY DEF RefuseCreate, rows, history
<1>1. TypeOK'
  BY DEF IInv, TypeOK
<1> QED  BY <1>1, RequestStep

LEMMA UpdateStep ==
    ASSUME IInv, NEW m \in Mappings, UpdateEventSourceMapping(m)
    PROVE  IInv'
<1> UNCHANGED <<stream, claimed, created, iterators, now, running, due, poll, handled, redelivered, disturbed>>
  BY DEF UpdateEventSourceMapping, history
<1>1. PICK s \in Settings : mappings' = [mappings EXCEPT ![m].set = s]
  BY DEF UpdateEventSourceMapping
<1>2. mappings[m] \in Row /\ s \in Setting
  BY SettingsAssumption DEF UpdateEventSourceMapping, IInv, TypeOK
<1> DEFINE row == [mappings[m] EXCEPT !.set = s]
<1>3. row \in Row /\ row.cursor = mappings[m].cursor
  BY <1>2 DEF Row
<1>4. mappings' = [mappings EXCEPT ![m] = row]
  BY <1>1
<1> HIDE DEF row
<1>5. mappings' \in [Mappings -> Row \cup {None}] /\ mappings'[m] = row
      /\ \A x \in Mappings : x # m => mappings'[x] = mappings[x]
  BY <1>3, <1>4 DEF IInv, TypeOK
<1>6. TypeOK'
  BY <1>5 DEF IInv, TypeOK
<1>7. mappings[m] # None
  BY DEF UpdateEventSourceMapping
<1>8. \A x \in Mappings : mappings'[x] # None =>
          mappings'[x].cursor = None \/ (mappings[x] # None /\ mappings'[x].cursor = mappings[x].cursor)
  BY <1>3, <1>5, <1>7
<1> QED  BY <1>6, <1>8, RequestStep

LEMMA DeleteStep ==
    ASSUME IInv, NEW m \in Mappings, DeleteEventSourceMapping(m)
    PROVE  IInv'
<1> /\ UNCHANGED <<stream, claimed, created, now, running, due, poll, handled, redelivered, disturbed>>
    /\ mappings' = [mappings EXCEPT ![m] = None]
  BY DEF DeleteEventSourceMapping, history
<1>1. /\ iterators' \in [Iterators -> IteratorRow \cup {None}]
      /\ \A i \in Iterators : iterators'[i] # None => iterators'[i] = iterators[i]
  BY RowsWritten DEF DeleteEventSourceMapping, IInv, TypeOK
<1>2. TypeOK'
  BY <1>1 DEF IInv, TypeOK
<1>3. \A x \in Mappings : mappings'[x] # None => mappings[x] # None /\ mappings'[x].cursor = mappings[x].cursor
  BY DEF IInv, TypeOK
<1> QED  BY <1>1, <1>2, <1>3, RequestStep

LEMMA TickStep ==
    ASSUME IInv, Tick
    PROVE  IInv'
<1> UNCHANGED <<stream, mappings, created, iterators, claimed, running, due, poll, handled, redelivered, disturbed>> /\ now' = now + 1
  BY DEF Tick, rows, history
<1>1. TypeOK'
  BY DEF IInv, TypeOK
<1> QED  BY <1>1, RequestStep

LEMMA RestartStep ==
    ASSUME IInv, Restart
    PROVE  IInv'
<1> /\ UNCHANGED <<stream, mappings, created, now, handled, redelivered>>
    /\ running' = FALSE /\ due' = {} /\ poll' = [p \in Pollers |-> Idle]
    /\ claimed' = [w \in Writers |-> -1]
    /\ Disturb({m \in Mappings : Polling(m) # {}})
  BY DEF Restart
<1>1. /\ iterators' \in [Iterators -> IteratorRow \cup {None}]
      /\ \A i \in Iterators : iterators'[i] # None => iterators'[i] = iterators[i]
  BY RowsWritten DEF Restart, IInv, TypeOK
<1>2. TypeOK'
  <2>1. Idle \in Poll
    BY DEF Idle, Poll, Phases
  <2>2. disturbed' \subseteq Mappings
    BY DEF Disturb, IInv, TypeOK
  <2> QED  BY <1>1, <2>1, <2>2 DEF IInv, TypeOK
<1>3. NamedKept /\ HandledGrows /\ Steady
  BY <1>1, SameStream DEF NamedKept, HandledGrows
<1>4. OrdinalsFilled'
  BY <1>1 DEF IInv, OrdinalsFilled, Filled
<1>5. \A m \in Mappings : CursorOK(m)'
  BY <1>3, CursorStays
<1>6. \A p \in Pollers : PollOK(p)'
  BY DEF PollOK, Idle
<1> QED  BY <1>2, <1>4, <1>5, <1>6 DEF IInv

-----------------------------------------------------------------------------
(* The polls.                                                              *)

LEMMA ListStep ==
    ASSUME IInv, ListEnabled
    PROVE  IInv'
<1> UNCHANGED <<stream, mappings, created, iterators, claimed, now, running, poll, handled, redelivered, disturbed>>
  BY DEF ListEnabled, rows, history
<1>1. TypeOK'
  BY DEF IInv, TypeOK, ListEnabled
<1> QED  BY <1>1, RequestStep

\* A poll that begins holds a copy of the row, and its cursor.
LEMMA LoadStep ==
    ASSUME IInv, NEW p \in Pollers, NEW m \in Mappings, Load(p, m), due' \subseteq due,
           UNCHANGED <<rows, claimed, now, running, handled, redelivered>>
    PROVE  IInv'
<1> UNCHANGED <<stream, mappings, created, iterators, claimed, now, running, handled, redelivered>>
  BY DEF rows
<1>1. CASE ~Enabled(m)
  <2>1. Stop(p) /\ Disturb({})
    BY <1>1 DEF Load, Disturb
  <2> QED  BY <2>1, StopStep DEF IInv, TypeOK
<1>2. CASE Enabled(m)
  <2> DEFINE c == mappings[m].cursor
             q == [Idle EXCEPT !.phase = IF c = None THEN "open" ELSE "find",
                               !.of = m, !.set = mappings[m].set, !.it = c]
  <2>1. /\ poll' = [poll EXCEPT ![p] = q]
        /\ Disturb(IF Polling(m) \subseteq {p} THEN {} ELSE {m})
    BY <1>2 DEF Load, Move
  <2>2. mappings[m] \in Row /\ mappings[m] # None
    BY <1>2 DEF Enabled, IInv, TypeOK
  <2>3. c \in Iterators \cup {None} /\ mappings[m].set \in Setting
    BY <2>2 DEF Row
  <2>4. q \in Poll /\ q.of = m /\ q.it = c /\ q.phase = IF c = None THEN "open" ELSE "find"
    BY <2>3 DEF Idle, Poll, Phases
  <2> HIDE DEF q
  <2>5. poll' \in [Pollers -> Poll] /\ poll'[p] = q
    BY <2>1, <2>4 DEF IInv, TypeOK
  <2>6. TypeOK'
    <3>1. disturbed' \subseteq Mappings
      BY <2>1 DEF Disturb, IInv, TypeOK
    <3> QED  BY <2>5, <3>1 DEF IInv, TypeOK
  <2>7. NamedKept /\ HandledGrows /\ Steady
    BY SameStream DEF NamedKept, HandledGrows
  <2>8. \A x \in Mappings : CursorOK(x)'
    BY <2>7, CursorStays
  <2>9. PollOK(p)'
    <3>1. c # None => CoversTo(c, handled[m])'
      BY <2>2, <2>8 DEF CursorOK
    <3> QED  BY <2>3, <2>4, <2>5, <3>1 DEF PollOK, CoversTo, Covers
  <2> QED  BY <2>1, <2>6, <2>7, <2>8, <2>9, PollerStep
<1> QED  BY <1>1, <1>2

LEMMA LoadDueStep ==
    ASSUME IInv, LoadDue
    PROVE  IInv'
<1>1. PICK m \in due : Load(Poller, m) /\ due' = due \ {m}
  BY DEF LoadDue
<1>2. m \in Mappings /\ Poller \in Pollers
  BY DEF IInv, TypeOK, Pollers
<1> QED  BY <1>1, <1>2, LoadStep DEF LoadDue

LEMMA LoadCreatedStep ==
    ASSUME IInv, NEW p \in Pollers, LoadCreated(p)
    PROVE  IInv'
<1>1. poll[p].of \in Mappings
  BY DEF LoadCreated, IInv, PollOK
<1> QED  BY <1>1, LoadStep DEF LoadCreated

LEMMA OpenStep ==
    ASSUME IInv, NEW p \in Pollers, OpenIterator(p)
    PROVE  IInv'
<1> DEFINE new == NewIterator
           q == [poll[p] EXCEPT !.phase = "find", !.it = new]
           table == [iterators EXCEPT ![new] = NewRow(0)]
<1>1. /\ UNCHANGED <<stream, mappings, created, claimed, now, running, due, handled, redelivered, disturbed>>
      /\ poll' = [poll EXCEPT ![p] = q] /\ poll[p].phase = "open"
  BY DEF OpenIterator, Move, history
<1>2. new \in Iterators /\ new \notin Named
  BY NewIteratorFresh DEF OpenIterator
<1>3. poll[p] \in Poll /\ poll[p].of \in Mappings
  BY <1>1 DEF IInv, TypeOK, PollOK
<1>4. q \in Poll /\ q.of = poll[p].of /\ q.phase = "find" /\ q.it = new
  BY <1>2, <1>3 DEF Poll, Phases
<1>5. table \in [Iterators -> IteratorRow \cup {None}]
  BY <1>2, NewRowType DEF IInv, TypeOK
<1>6. /\ iterators' \in [Iterators -> IteratorRow \cup {None}]
      /\ \A i \in Iterators : iterators'[i] # None => iterators'[i] = table[i]
  BY <1>5, RowsWritten DEF OpenIterator
<1>7. \A i \in Iterators : i # new => table[i] = iterators[i]
  BY DEF IInv, TypeOK
<1>8. table[new] = NewRow(0)
  BY <1>2 DEF IInv, TypeOK
<1> HIDE DEF new, q, table
<1>9. poll' \in [Pollers -> Poll] /\ poll'[p] = q
  BY <1>1, <1>4 DEF IInv, TypeOK
<1>10. TypeOK'
  BY <1>1, <1>6, <1>9 DEF IInv, TypeOK
<1>11. NamedKept
  BY <1>2, <1>6, <1>7 DEF NamedKept
<1>12. HandledGrows /\ Steady
  BY <1>1, SameStream DEF HandledGrows
<1>13. \A m \in Mappings : CursorOK(m)'
  BY <1>1, <1>11, <1>12, CursorStays
<1>14. \A r \in stream : ~(r.ord < 0)
  BY DEF IInv, TypeOK, Record
<1>15. NewRow(0).next = 0
  BY NewRowType DEF IInv
<1>16. PollOK(p)'
  <2>1. iterators'[new] # None => iterators'[new].next = 0
    BY <1>2, <1>6, <1>8, <1>15
  <2>2. iterators'[new] # None => \A r \in stream' : ~(r.ord < iterators'[new].next)
    BY <1>1, <1>14, <2>1
  <2>3. poll'[p].phase = "find" /\ poll'[p].of \in Mappings /\ poll'[p].it = new
    BY <1>3, <1>4, <1>9
  <2> QED  BY <1>2, <2>2, <2>3 DEF PollOK, CoversTo, Covers
<1>17. \A i \in Iterators : iterators'[i] # None => iterators'[i] = iterators[i] \/ Filled(iterators'[i].next)
  BY <1>6, <1>7, <1>8, <1>15 DEF Filled
<1> QED  BY <1>1, <1>10, <1>11, <1>12, <1>13, <1>16, <1>17, PollerStep

LEMMA FindStep ==
    ASSUME IInv, NEW p \in Pollers, FindIterator(p)
    PROVE  IInv'
<1> UNCHANGED <<stream, mappings, created, iterators, claimed, now, running, due, handled, redelivered, disturbed>>
  BY DEF FindIterator, rows, history
<1> DEFINE it == poll[p].it
           of == poll[p].of
           q == [poll[p] EXCEPT !.phase = "read", !.from = iterators[it].next]
<1>1. poll' = [poll EXCEPT ![p] = q] /\ poll[p].phase = "find" /\ iterators[it] # None
  BY DEF FindIterator, Move, Readable
<1>2. poll[p] \in Poll /\ of \in Mappings /\ it \in Iterators /\ CoversTo(it, handled[of])
  BY <1>1 DEF IInv, TypeOK, PollOK
<1>3. iterators[it].next \in Nat /\ Filled(iterators[it].next)
  BY <1>1, <1>2 DEF IInv, TypeOK, IteratorRow, OrdinalsFilled
<1>4. q \in Poll /\ q.phase = "read" /\ q.of = of /\ q.from = iterators[it].next
  BY <1>2, <1>3 DEF Poll, Phases
<1>5. Covers(iterators[it].next, handled[of])
  BY <1>1, <1>2 DEF CoversTo
<1> HIDE DEF q
<1>6. poll' \in [Pollers -> Poll] /\ poll'[p] = q
  BY <1>1, <1>4 DEF IInv, TypeOK
<1>7. TypeOK'
  BY <1>6 DEF IInv, TypeOK
<1>8. NamedKept /\ HandledGrows /\ Steady
  BY SameStream DEF NamedKept, HandledGrows
<1>9. \A m \in Mappings : CursorOK(m)'
  BY <1>8, CursorStays
<1>10. PollOK(p)'
  <2>1. poll'[p].phase = "read" /\ poll'[p].of = of /\ poll'[p].from = iterators[it].next
    BY <1>4, <1>6
  <2> HIDE DEF of, it
  <2>2. \A r \in stream' : r.ord < poll'[p].from /\ Alone(r)' => r \in handled'[of]
    BY <1>5, <2>1 DEF Covers, Alone
  <2>3. \A o \in Nat : o < poll'[p].from => \E r \in stream' : r.ord = o
    BY <1>3, <2>1 DEF Filled
  <2> QED  BY <1>2, <2>1, <2>2, <2>3 DEF PollOK, Filled, Covers
<1> QED  BY <1>1, <1>7, <1>8, <1>9, <1>10, PollerStep

LEMMA ExpiredStep ==
    ASSUME IInv, NEW p \in Pollers, IteratorExpired(p)
    PROVE  IInv'
<1> DEFINE it == poll[p].it
           table == [iterators EXCEPT ![it] = None]
           ms == IF iterators[it] = None THEN {} ELSE {poll[p].of}
<1>1. /\ Stop(p) /\ Disturb(ms) /\ WriteIterators(table) /\ poll[p].phase = "find"
      /\ UNCHANGED <<stream, mappings, created, claimed, now, running, due, handled, redelivered>>
  BY DEF IteratorExpired
<1>2. ms \subseteq Mappings
  BY <1>1 DEF IInv, PollOK
<1>3. /\ table \in [Iterators -> IteratorRow \cup {None}]
      /\ \A i \in Iterators : table[i] # None => table[i] = iterators[i]
  BY DEF IInv, TypeOK
<1> HIDE DEF table, ms
<1>4. /\ iterators' \in [Iterators -> IteratorRow \cup {None}]
      /\ \A i \in Iterators : iterators'[i] # None => iterators'[i] = iterators[i]
  BY <1>1, <1>3, RowsWritten
<1> QED  BY <1>1, <1>2, <1>4, StopStep

\* A page ends at a position that covers what was behind the old one and the
\* page: a record of the last ordinal that was cut off has a twin on the page.
LEMMA PageCovers ==
    ASSUME IInv, NEW from \in Nat, NEW limit, NEW page \in Pages(stream, from, limit),
           NEW recs, Filled(from), Covers(from, recs)
    PROVE  /\ page \subseteq stream /\ Following(page, from) \in Nat
           /\ Filled(Following(page, from)) /\ Covers(Following(page, from), recs \cup page)
<1> DEFINE behind == {r \in stream : r.ord >= from}
<1>1. page \subseteq stream /\ \A r \in page, d \in behind \ page : r.ord <= d.ord
  BY DEF Pages
<1>2. stream \subseteq Record /\ IsFiniteSet(page)
  BY <1>1, FS_Subset DEF IInv, TypeOK
<1>3. CASE page = {}
  BY <1>1, <1>3 DEF Following, After, Covers
<1>4. CASE page # {}
  <2>1. PICK q \in page : MaxOrd(page) = q.ord /\ \A s \in page : s.ord <= q.ord
    BY <1>1, <1>2, <1>4, MaxOrdReached
  <2>2. Following(page, from) = q.ord + 1 /\ q.ord \in Nat
    BY <1>1, <1>2, <1>4, <2>1 DEF Following, After, Record
  <2>3. Filled(q.ord + 1)
    <3>1. Filled(q.ord) /\ q \in stream
      BY <1>1, <2>1 DEF IInv, OrdinalsFilled
    <3> QED  BY <2>2, <3>1 DEF Filled
  <2>4. ASSUME NEW r \in stream, r.ord < q.ord + 1, Alone(r)
        PROVE  r \in recs \cup page
    <3>1. r.ord \in Nat
      BY <1>2 DEF Record
    <3>2. CASE r.ord < from
      BY <2>4, <3>2 DEF Covers
    <3>3. CASE r.ord >= from /\ r \notin page
      <4>1. q.ord <= r.ord
        BY <1>1, <2>1, <3>3
      <4>2. q.ord = r.ord /\ q \in stream
        BY <1>1, <2>1, <2>2, <2>4, <3>1, <4>1
      <4>3. q = r
        BY <2>4, <4>2 DEF Alone
      <4> QED  BY <2>1, <3>3, <4>3
    <3> QED  BY <3>1, <3>2, <3>3
  <2> QED  BY <1>1, <2>2, <2>3, <2>4 DEF Covers
<1> QED  BY <1>3, <1>4

LEMMA ReadStep ==
    ASSUME IInv, NEW p \in Pollers, ReadPage(p)
    PROVE  IInv'
<1> DEFINE m == poll[p].of
           from == poll[p].from
           it == poll[p].it
           new == NewIterator
<1>1. PICK page \in Pages(stream, from, poll[p].set.batch) :
          /\ Move(p, [poll[p] EXCEPT !.phase = IF Matched(p, page) = {} THEN "store" ELSE "invoke",
                                     !.page = page, !.it = None, !.from = 0, !.next = new])
          /\ handled' = [handled EXCEPT ![m] = @ \cup (page \ Matched(p, page))]
          /\ UNCHANGED <<stream, mappings, created, claimed, now, running, due, redelivered, disturbed>>
          /\ WriteIterators([iterators EXCEPT ![it] = None, ![new] = NewRow(Following(page, from))])
  BY DEF ReadPage
<1> DEFINE mm == Matched(p, page)
           phase == IF mm = {} THEN "store" ELSE "invoke"
           q == [poll[p] EXCEPT !.phase = phase, !.page = page, !.it = None, !.from = 0, !.next = new]
           after == Following(page, from)
           gone == [iterators EXCEPT ![it] = None]
           table == [gone EXCEPT ![new] = NewRow(after)]
<1>2. /\ poll' = [poll EXCEPT ![p] = q]
      /\ handled' = [handled EXCEPT ![m] = handled[m] \cup (page \ mm)]
      /\ UNCHANGED <<stream, mappings, created, claimed, now, running, due, redelivered, disturbed>>
      /\ WriteIterators(table)
  BY <1>1 DEF Move
<1>3. poll[p].phase = "read" /\ new \in Iterators /\ new \notin Named
  BY NewIteratorFresh DEF ReadPage
<1>4. poll[p] \in Poll /\ m \in Mappings /\ from \in Nat /\ Filled(from) /\ Covers(from, handled[m])
  BY <1>3 DEF IInv, TypeOK, PollOK, Poll
<1>5. /\ page \subseteq stream /\ after \in Nat
      /\ Filled(after) /\ Covers(after, handled[m] \cup page)
  <2> HIDE DEF from, m
  <2> QED  BY <1>4, PageCovers
<1>6. page \subseteq Record /\ mm \subseteq page
  BY <1>5 DEF IInv, TypeOK, Matched
<1>7. NewRow(after) \in IteratorRow /\ NewRow(after).next = after
  <2> HIDE DEF after
  <2> QED  BY <1>5, NewRowType DEF IInv
<1> HIDE DEF after, mm
<1>8. q \in Poll /\ q.phase = phase /\ q.of = m /\ q.page = page /\ q.next = new /\ q.set = poll[p].set
  BY <1>3, <1>4, <1>6 DEF Poll, Phases
<1> HIDE DEF q
<1>9. poll' \in [Pollers -> Poll] /\ poll'[p] = q
  BY <1>2, <1>8 DEF IInv, TypeOK
<1>10. /\ gone \in [Iterators -> IteratorRow \cup {None}]
       /\ \A i \in Iterators : gone[i] # None => gone[i] = iterators[i]
  BY DEF IInv, TypeOK
<1> HIDE DEF gone
<1>11. /\ table \in [Iterators -> IteratorRow \cup {None}] /\ table[new] = NewRow(after)
       /\ \A i \in Iterators : i # new => table[i] = gone[i]
  BY <1>3, <1>7, <1>10
<1> HIDE DEF table
<1>12. /\ iterators' \in [Iterators -> IteratorRow \cup {None}]
       /\ \A i \in Iterators : iterators'[i] # None => iterators'[i] = table[i]
  BY <1>2, <1>11, RowsWritten
<1>13. /\ handled' \in [Mappings -> SUBSET Record] /\ handled'[m] = handled[m] \cup (page \ mm)
       /\ HandledGrows
  BY <1>2, <1>4, <1>6 DEF IInv, TypeOK, HandledGrows
<1> HIDE DEF m
<1>14. TypeOK'
  BY <1>2, <1>9, <1>12, <1>13 DEF IInv, TypeOK
<1>15. NamedKept
  BY <1>3, <1>10, <1>11, <1>12 DEF NamedKept
<1>16. \A x \in Mappings : CursorOK(x)'
  <2>1. Steady
    BY <1>2, SameStream
  <2> QED  BY <1>2, <1>13, <1>15, <2>1, CursorStays
<1>17. \A i \in Iterators : iterators'[i] # None => iterators'[i] = iterators[i] \/ Filled(iterators'[i].next)
  BY <1>5, <1>7, <1>10, <1>11, <1>12
<1>18. iterators'[new] # None => \A r \in stream' : r.ord < iterators'[new].next /\ Alone(r)' => r \in handled'[m] \cup mm
  <2>1. iterators'[new] # None => iterators'[new].next = after
    BY <1>3, <1>7, <1>11, <1>12
  <2>2. handled[m] \cup page \subseteq handled'[m] \cup mm
    BY <1>13
  <2>3. \A r \in stream' : r.ord < after /\ Alone(r)' => r \in handled'[m] \cup mm
    BY <1>2, <1>5, <2>2 DEF Covers, Alone
  <2> QED  BY <2>1, <2>3
<1>19. PollOK(p)'
  <2>1. poll'[p].of = m /\ poll'[p].next = new /\ poll'[p].page = page /\ poll'[p].phase = phase
    BY <1>8, <1>9
  <2>2. Matched(p, poll[p].page)' = mm
    BY <1>8, <1>9 DEF Matched, mm
  <2> HIDE DEF new
  <2>3. CASE mm = {}
    BY <1>3, <1>4, <1>18, <2>1, <2>3 DEF PollOK, CoversTo, Covers
  <2>4. CASE mm # {}
    <3>1. phase = "invoke"
      BY <2>4
    <3>2. CoversTo(poll[p].next, handled[poll[p].of] \cup Matched(p, poll[p].page))'
      BY <1>18, <2>1, <2>2 DEF CoversTo, Covers
    <3> QED  BY <1>3, <1>4, <2>1, <3>1, <3>2 DEF PollOK
  <2> QED  BY <2>3, <2>4
<1> QED  BY <1>2, <1>13, <1>14, <1>15, <1>16, <1>17, <1>19, PollerStep

LEMMA SucceedStep ==
    ASSUME IInv, NEW p \in Pollers, InvokeSucceeds(p)
    PROVE  IInv'
<1> UNCHANGED <<stream, mappings, created, iterators, claimed, now, running, due, disturbed>>
  BY DEF InvokeSucceeds, rows
<1> DEFINE m == poll[p].of
           mm == Matched(p, poll[p].page)
           q == [poll[p] EXCEPT !.phase = "store"]
<1>1. /\ poll' = [poll EXCEPT ![p] = q] /\ poll[p].phase = "invoke"
      /\ handled' = [handled EXCEPT ![m] = handled[m] \cup mm]
      /\ redelivered' = redelivered \cup (IF mm \cap handled[m] = {} THEN {} ELSE {m})
  BY DEF InvokeSucceeds, Move
<1>2. /\ poll[p] \in Poll /\ m \in Mappings /\ poll[p].next \in Iterators
      /\ CoversTo(poll[p].next, handled[m] \cup mm)
  BY <1>1 DEF IInv, TypeOK, PollOK
<1>3. mm \subseteq Record
  BY <1>2 DEF Matched, Poll
<1> HIDE DEF mm
<1>4. q \in Poll /\ q.phase = "store" /\ q.of = m /\ q.next = poll[p].next
  BY <1>2 DEF Poll, Phases
<1> HIDE DEF q
<1>5. poll' \in [Pollers -> Poll] /\ poll'[p] = q
  BY <1>1, <1>4 DEF IInv, TypeOK
<1>6. /\ handled' \in [Mappings -> SUBSET Record] /\ handled'[m] = handled[m] \cup mm
      /\ HandledGrows
  BY <1>1, <1>2, <1>3 DEF IInv, TypeOK, HandledGrows
<1>7. TypeOK'
  BY <1>1, <1>2, <1>5, <1>6 DEF IInv, TypeOK
<1>8. NamedKept /\ Steady
  BY SameStream DEF NamedKept
<1>9. \A x \in Mappings : CursorOK(x)'
  BY <1>6, <1>8, CursorStays
<1>10. PollOK(p)'
  <2>1. poll'[p].phase = "store" /\ poll'[p].of = m /\ poll'[p].next = poll[p].next
    BY <1>4, <1>5
  <2> HIDE DEF m
  <2>2. iterators[poll[p].next] # None =>
          \A r \in stream : r.ord < iterators[poll[p].next].next /\ Alone(r) => r \in handled'[m]
    BY <1>2, <1>6 DEF CoversTo, Covers
  <2>3. CoversTo(poll[p].next, handled[poll[p].of])'
    BY <2>1, <2>2 DEF CoversTo, Covers, Alone
  <2> QED  BY <1>2, <2>1, <2>3 DEF PollOK
<1> QED  BY <1>1, <1>6, <1>7, <1>8, <1>9, <1>10, PollerStep

LEMMA FailStep ==
    ASSUME IInv, NEW p \in Pollers, InvokeFails(p) \/ StatementFails(p)
    PROVE  IInv'
<1>1. /\ Stop(p) /\ Disturb({poll[p].of}) /\ WriteIterators(iterators)
      /\ UNCHANGED <<stream, mappings, created, claimed, now, running, due, handled, redelivered>>
  BY DEF InvokeFails, StatementFails
<1>2. poll[p].of \in Mappings
  <2>1. CASE InvokeFails(p)
    BY <2>1 DEF InvokeFails, IInv, PollOK
  <2>2. CASE StatementFails(p)
    BY <2>2 DEF StatementFails, IInv, PollOK
  <2> QED  BY <2>1, <2>2
<1>3. /\ iterators' \in [Iterators -> IteratorRow \cup {None}]
      /\ \A i \in Iterators : iterators'[i] # None => iterators'[i] = iterators[i]
  BY <1>1, RowsWritten DEF IInv, TypeOK
<1> QED  BY <1>1, <1>2, <1>3, StopStep

LEMMA StoreStep ==
    ASSUME IInv, NEW p \in Pollers, StoreCursor(p)
    PROVE  IInv'
<1> DEFINE m == poll[p].of
           c == poll[p].next
           row == [mappings[m] EXCEPT !.cursor = c]
<1>1. /\ poll[p].phase = "store" /\ poll' = [poll EXCEPT ![p] = Idle]
      /\ UNCHANGED <<stream, created, claimed, now, running, due, handled, redelivered, disturbed>>
      /\ WriteIterators(iterators)
      /\ mappings' = IF mappings[m] = None THEN mappings ELSE [mappings EXCEPT ![m] = row]
  BY DEF StoreCursor, Stop, Move, history
<1>2. m \in Mappings /\ c \in Iterators /\ CoversTo(c, handled[m])
  BY <1>1 DEF IInv, PollOK
<1>3. /\ iterators' \in [Iterators -> IteratorRow \cup {None}]
      /\ \A i \in Iterators : iterators'[i] # None => iterators'[i] = iterators[i]
  BY <1>1, RowsWritten DEF IInv, TypeOK
<1>4. mappings[m] # None => row \in Row /\ row.cursor = c
  BY <1>2 DEF IInv, TypeOK, Row
<1>5. Idle \in Poll
  BY DEF Idle, Poll, Phases
<1> HIDE DEF row
<1>6. mappings' \in [Mappings -> Row \cup {None}]
  BY <1>1, <1>4 DEF IInv, TypeOK
<1>7. TypeOK'
  BY <1>1, <1>3, <1>5, <1>6 DEF IInv, TypeOK
<1>8. NamedKept /\ HandledGrows /\ Steady
  BY <1>1, <1>3, SameStream DEF NamedKept, HandledGrows
<1>9. PollOK(p)'
  <2>1. poll'[p] = Idle
    BY <1>1 DEF IInv, TypeOK
  <2> QED  BY <2>1 DEF PollOK, Idle
<1>10. \A x \in Mappings : CursorOK(x)'
  <2>1. ASSUME NEW x \in Mappings, x # m PROVE CursorOK(x)'
    <3>1. mappings'[x] = mappings[x]
      BY <1>1, <2>1 DEF IInv, TypeOK
    <3> QED  BY <1>8, <3>1, CursorStays
  <2>2. ASSUME NEW x \in Mappings, x = m PROVE CursorOK(x)'
    <3>1. CASE mappings[x] = None
      BY <1>1, <2>2, <3>1 DEF CursorOK
    <3>2. CASE mappings[x] # None
      <4>1. mappings'[x] = row /\ row.cursor = c
        BY <1>1, <1>2, <1>4, <2>2, <3>2 DEF IInv, TypeOK
      <4>2. CoversTo(c, handled[x])
        BY <1>2, <2>2
      <4> HIDE DEF m, c
      <4>3. iterators'[c] # None => iterators[c] # None /\ iterators'[c] = iterators[c]
        BY <1>2, <1>3
      <4>4. iterators'[c] # None =>
              \A r \in stream' : r.ord < iterators'[c].next /\ Alone(r)' => r \in handled'[x]
        BY <1>1, <4>2, <4>3 DEF CoversTo, Covers, Alone
      <4> QED  BY <4>1, <4>4 DEF CursorOK, CoversTo, Covers
    <3> QED  BY <3>1, <3>2
  <2> QED  BY <2>1, <2>2
<1> QED  BY <1>1, <1>3, <1>7, <1>8, <1>9, <1>10, PollerStep

-----------------------------------------------------------------------------
(* The theorems.                                                           *)

\* A process that has just been installed: nothing is stored, nothing polls.
LEMMA InitIInv == Init => IInv
<1> SUFFICES ASSUME Init PROVE IInv
  OBVIOUS
<1>1. Idle \in Poll /\ Idle.phase = "idle"
  BY DEF Idle, Poll, Phases
<1>2. TypeOK
  BY <1>1, FS_EmptySet DEF Init, TypeOK
<1>3. OrdinalsFilled
  BY DEF Init, OrdinalsFilled, Filled
<1>4. \A m \in Mappings : CursorOK(m)
  BY DEF Init, CursorOK
<1>5. \A p \in Pollers : PollOK(p)
  BY <1>1 DEF Init, PollOK
<1> QED  BY <1>2, <1>3, <1>4, <1>5 DEF IInv

\* One case for each action.
LEMMA NextIInv == IInv /\ [Next]_vars => IInv'
<1> SUFFICES ASSUME IInv, [Next]_vars PROVE IInv'
  OBVIOUS
<1>1. CASE UNCHANGED vars
  <2>1. TypeOK'
    BY <1>1 DEF vars, rows, history, IInv, TypeOK
  <2> QED  BY <1>1, <2>1, RequestStep DEF vars, rows, history
<1>2. CASE \E w \in Writers : Claim(w) \/ Append(w)
  BY <1>2, ClaimStep, AppendStep
<1>3. CASE \E m \in Mappings : \/ CreateEventSourceMapping(m)
                               \/ UpdateEventSourceMapping(m)
                               \/ DeleteEventSourceMapping(m)
  BY <1>3, CreateStep, UpdateStep, DeleteStep
<1>4. CASE RefuseCreate \/ ListEnabled \/ LoadDue
  BY <1>4, RefuseStep, ListStep, LoadDueStep
<1>5. CASE \E p \in Pollers : Proceed(p) \/ StatementFails(p)
  BY <1>5, LoadCreatedStep, OpenStep, FindStep, ExpiredStep, ReadStep, SucceedStep, FailStep, StoreStep
     DEF Proceed
<1>6. CASE Restart \/ Tick
  BY <1>6, RestartStep, TickStep
<1> QED  BY <1>1, <1>2, <1>3, <1>4, <1>5, <1>6 DEF Next

LEMMA InvariantHolds == Spec => []IInv
<1> QED  BY InitIInv, NextIInv, PTL DEF Spec

\* The rows of mappings, records and iterators and the state of polls keep
\* their types; in particular positions are natural numbers.
THEOREM TypeCorrect == Spec => []TypeOK
<1>1. IInv => TypeOK
  BY DEF IInv
<1> QED  BY <1>1, InvariantHolds, PTL

\* PollEventSourceMappingOnce "advances the source on success": no mapping
\* goes on from behind a record its function did not get, however many
\* mappings, writers, failures, restarts and overlapping polls there are.
THEOREM NothingIsSkipped == Spec => []NothingSkipped
<1>1. IInv => NothingSkipped
  BY DEF IInv, CursorOK, CoversTo, Covers, NothingSkipped
<1> QED  BY <1>1, InvariantHolds, PTL

-----------------------------------------------------------------------------
(* Mappings whose polls came one after the other and did not fail.         *)

\* These records are behind the position of iterator i, as long as i is there.
BehindOf(i, recs) == iterators[i] # None => \A r \in recs : r.ord < iterators[i].next

\* What the function got is behind the position the mapping goes on from.
AtRest(m) ==
    mappings[m] # None =>
        IF mappings[m].cursor = None THEN handled[m] = {} ELSE BehindOf(mappings[m].cursor, handled[m])

\* The same of the position a poll is at; the page it is to invoke the
\* function with holds nothing the function got before.
Ahead(p) ==
    LET got == handled[poll[p].of]
    IN /\ poll[p].phase = "open" => got = {}
       /\ poll[p].phase = "find" => BehindOf(poll[p].it, got)
       /\ poll[p].phase = "read" => \A r \in got : r.ord < poll[p].from
       /\ poll[p].phase = "invoke" =>
            /\ BehindOf(poll[p].next, got \cup Matched(p, poll[p].page))
            /\ Matched(p, poll[p].page) \cap got = {}
       /\ poll[p].phase = "store" => BehindOf(poll[p].next, got)

\* Phases of a poll that has not read its page.
Unread == {"load", "open", "find", "read"}

\* The mapping is polled once at a time, and until a poll has read its page
\* the cursor still is where the function got to.
InOrder(m) ==
    /\ m \notin redelivered
    /\ \A p, q \in Polling(m) : p = q
    /\ (\A p \in Polling(m) : poll[p].phase \in Unread) => AtRest(m)
    /\ \A p \in Polling(m) : Ahead(p)

\* A uuid that was not given out yet.
Unused(m) == mappings[m] = None /\ Polling(m) = {} /\ handled[m] = {}

\* The invariant of RedeliveredOnlyWhenDisturbed: the request that creates a mapping polls
\* that one only.
OnceInv ==
    /\ \A m \in Mappings : poll[m].of \in {None, m}
    /\ \A m \in Mappings : m \notin created => Unused(m)
    /\ \A m \in Mappings : m \notin disturbed => InOrder(m)

\* What was behind a named iterator stays behind it, as long as it is there.
LEMMA BehindKept ==
    ASSUME NamedKept, NEW i \in Iterators, i \in Named, NEW recs, BehindOf(i, recs)
    PROVE  iterators'[i] # None => \A r \in recs : r.ord < iterators'[i].next
BY DEF NamedKept, BehindOf

\* A mapping that rests goes on resting when nothing of it changes.
LEMMA RestKept ==
    ASSUME IInv, NamedKept, NEW m \in Mappings, AtRest(m), handled'[m] = handled[m],
           mappings'[m] # None => mappings[m] # None /\ mappings'[m].cursor = mappings[m].cursor
    PROVE  AtRest(m)'
<1> SUFFICES ASSUME mappings'[m] # None
             PROVE  IF mappings'[m].cursor = None THEN handled'[m] = {} ELSE BehindOf(mappings[m].cursor, handled[m])'
  BY DEF AtRest
<1>1. CASE mappings'[m].cursor = None
  BY <1>1 DEF AtRest
<1>2. CASE mappings'[m].cursor # None
  <2>1. mappings[m].cursor \in Iterators /\ mappings[m].cursor \in Named
    BY <1>2 DEF IInv, TypeOK, Row, Named
  <2>2. BehindOf(mappings[m].cursor, handled[m])
    BY <1>2 DEF AtRest
  <2>3. LET i == mappings[m].cursor
        IN iterators'[i] # None => \A r \in handled[m] : r.ord < iterators'[i].next
    BY <2>1, <2>2, BehindKept
  <2> QED BY <1>2, <2>3 DEF BehindOf
<1> QED BY <1>1, <1>2

\* Nor does anything change for a poll that does not move, or its mapping.
LEMMA AheadKept ==
    ASSUME IInv, NamedKept, NEW p \in Pollers, poll'[p] = poll[p], poll[p].of \in Mappings,
           handled'[poll[p].of] = handled[poll[p].of], Ahead(p)
    PROVE  Ahead(p)'
<1> DEFINE got == handled[poll[p].of]
           mm == Matched(p, poll[p].page)
<1>1. got' = got /\ mm' = mm
  BY DEF Matched
<1>2. ASSUME poll[p].phase = "find"
      PROVE  iterators'[poll[p].it] # None => \A r \in got : r.ord < iterators'[poll[p].it].next
  <2>1. poll[p].it \in Iterators
    BY <1>2 DEF IInv, PollOK
  <2>2. poll[p].it \in Named
    BY DEF Named
  <2>3. BehindOf(poll[p].it, got)
    BY <1>2 DEF Ahead
  <2> QED BY <2>1, <2>2, <2>3, BehindKept
<1>3. ASSUME poll[p].phase \in {"invoke", "store"} PROVE poll[p].next \in Iterators /\ poll[p].next \in Named
  <2>1. poll[p].next \in Iterators
    BY <1>3 DEF IInv, PollOK
  <2> QED BY <2>1 DEF Named
<1>4. ASSUME poll[p].phase = "invoke"
      PROVE  iterators'[poll[p].next] # None => \A r \in got \cup mm : r.ord < iterators'[poll[p].next].next
  <2>1. BehindOf(poll[p].next, got \cup mm)
    BY <1>4 DEF Ahead
  <2> QED BY <1>3, <1>4, <2>1, BehindKept
<1>5. ASSUME poll[p].phase = "store"
      PROVE  iterators'[poll[p].next] # None => \A r \in got : r.ord < iterators'[poll[p].next].next
  <2>1. BehindOf(poll[p].next, got)
    BY <1>5 DEF Ahead
  <2> QED BY <1>3, <1>5, <2>1, BehindKept
<1>6. /\ poll[p].phase = "open" => got = {}
      /\ poll[p].phase = "read" => \A r \in got : r.ord < poll[p].from
      /\ poll[p].phase = "invoke" => mm \cap got = {}
  BY DEF Ahead
<1>7. BehindOf(poll[p].next, got \cup mm)' <=>
        (iterators'[poll[p].next] # None => \A r \in got \cup mm : r.ord < iterators'[poll[p].next].next)
  BY <1>1 DEF BehindOf
<1> HIDE DEF mm
<1> QED BY <1>1, <1>2, <1>4, <1>5, <1>6, <1>7 DEF Ahead, BehindOf, mm

\* What a step leaves of mapping x when it is about another one.
Untouched(x) ==
    /\ \A p \in Pollers : poll[p].of = x \/ poll'[p].of = x => poll'[p] = poll[p]
    /\ mappings'[x] # None => mappings[x] # None /\ mappings'[x].cursor = mappings[x].cursor
    /\ handled'[x] = handled[x]
    /\ x \in redelivered' => x \in redelivered

\* Such a step leaves the invariant of x as it was.
LEMMA UntouchedKept ==
    ASSUME IInv, OnceInv, NamedKept, NEW x \in Mappings, Untouched(x),
           created \subseteq created', disturbed \subseteq disturbed'
    PROVE  /\ x \notin created' => Unused(x)'
           /\ x \notin disturbed' => InOrder(x)'
<1>1. Polling(x)' = Polling(x) /\ \A p \in Polling(x) : p \in Pollers /\ poll'[p] = poll[p] /\ poll[p].of = x
  BY DEF Polling, Untouched
<1>2. ASSUME x \notin created' PROVE Unused(x)'
  BY <1>1, <1>2 DEF Unused, OnceInv, Untouched
<1>3. ASSUME x \notin disturbed' PROVE InOrder(x)'
  <2>1. InOrder(x)
    BY <1>3 DEF OnceInv
  <2>2. x \notin redelivered' /\ \A p, q \in Polling(x)' : p = q
    BY <1>1, <2>1 DEF InOrder, Untouched
  <2>3. (\A p \in Polling(x)' : poll'[p].phase \in Unread) => AtRest(x)'
    BY <1>1, <2>1, RestKept DEF InOrder, Untouched
  <2>4. \A p \in Polling(x)' : Ahead(p)'
    BY <1>1, <2>1, AheadKept DEF InOrder, Untouched
  <2> QED BY <2>2, <2>3, <2>4 DEF InOrder
<1> QED BY <1>2, <1>3

\* A step that touches no poll, and no mapping but one it creates.
LEMMA RequestOnce ==
    ASSUME IInv, OnceInv, NamedKept, poll' = poll, handled' = handled, redelivered' = redelivered,
           created \subseteq created', disturbed \subseteq disturbed',
           \A x \in Mappings :
               \/ mappings'[x] # None => mappings[x] # None /\ mappings'[x].cursor = mappings[x].cursor
               \/ x \notin created /\ x \in created' /\ mappings'[x].cursor = None
    PROVE  OnceInv'
<1>1. ASSUME NEW x \in Mappings
      PROVE  /\ x \notin created' => Unused(x)'
             /\ x \notin disturbed' => InOrder(x)'
  <2>1. CASE mappings'[x] # None => mappings[x] # None /\ mappings'[x].cursor = mappings[x].cursor
    BY <2>1, UntouchedKept DEF Untouched
  <2>2. CASE x \notin created /\ x \in created' /\ mappings'[x].cursor = None
    <3>1. Polling(x)' = {} /\ handled'[x] = {}
      BY <2>2 DEF OnceInv, Unused, Polling
    <3>2. ASSUME x \notin disturbed' PROVE x \notin redelivered'
      BY <3>2 DEF OnceInv, InOrder
    <3>3. AtRest(x)'
      BY <2>2, <3>1 DEF AtRest
    <3> QED BY <2>2, <3>1, <3>2, <3>3 DEF InOrder
  <2> QED BY <1>1, <2>1, <2>2
<1> QED BY <1>1 DEF OnceInv

\* What a poll of m knows.
LEMMA PollKnows ==
    ASSUME IInv, OnceInv, NEW p \in Pollers, NEW m \in Mappings, poll[p].of = m
    PROVE  /\ m \in created /\ (p \in Mappings => p = m)
           /\ m \notin disturbed =>
                /\ m \notin redelivered /\ Polling(m) \subseteq {p} /\ Ahead(p)
                /\ poll[p].phase \in Unread => AtRest(m)
<1>1. p \in Polling(m)
  BY DEF Polling
<1>2. m \in created
  BY <1>1 DEF OnceInv, Unused
<1>3. p \in Mappings => p = m
  BY NoneAssumption DEF OnceInv
<1>4. ASSUME m \notin disturbed
      PROVE  /\ m \notin redelivered /\ Polling(m) \subseteq {p} /\ Ahead(p)
             /\ poll[p].phase \in Unread => AtRest(m)
  BY <1>1, <1>4 DEF OnceInv, InOrder
<1> QED BY <1>2, <1>3, <1>4

\* One step of a poll p of m, or the one that begins it.
LEMMA PollOnce ==
    ASSUME IInv, OnceInv, NamedKept, NEW p \in Pollers, NEW m \in Mappings, NEW q,
           poll' = [poll EXCEPT ![p] = q], poll[p].of \in {None, m}, q.of \in {None, m},
           p \in Mappings => p = m,
           m \in created', created \subseteq created', disturbed \subseteq disturbed',
           \A x \in Mappings : x # m =>
               mappings'[x] = mappings[x] /\ handled'[x] = handled[x] /\ (x \in redelivered' => x \in redelivered),
           m \notin disturbed' =>
               /\ m \notin redelivered' /\ Polling(m) \subseteq {p}
               /\ q.of = None \/ q.phase \in Unread => AtRest(m)'
               /\ q.of = m => Ahead(p)'
    PROVE  OnceInv'
<1>1. poll'[p] = q /\ \A o \in Pollers : o # p => poll'[o] = poll[o]
  BY DEF IInv, TypeOK
<1>2. \A x \in Mappings : poll'[x].of \in {None, x}
  BY <1>1 DEF OnceInv, Pollers
<1>3. ASSUME NEW x \in Mappings, x # m
      PROVE  /\ x \notin created' => Unused(x)'
             /\ x \notin disturbed' => InOrder(x)'
  <2>1. Untouched(x)
    BY <1>1, <1>3, NoneAssumption DEF Untouched
  <2> QED BY <2>1, UntouchedKept
<1>4. ASSUME m \notin disturbed' PROVE InOrder(m)'
  <2>1. \A o \in Pollers : poll'[o].of = m => o = p
    BY <1>1, <1>4 DEF Polling
  <2>2. \A o \in Polling(m)' : o = p /\ q.of = m
    BY <1>1, <2>1 DEF Polling
  <2>3. q.of # None => p \in Polling(m)'
    BY <1>1 DEF Polling
  <2>4. (\A o \in Polling(m)' : poll'[o].phase \in Unread) => AtRest(m)'
    BY <1>1, <1>4, <2>3
  <2>5. \A o \in Polling(m)' : Ahead(o)'
    BY <1>4, <2>2
  <2> QED BY <1>4, <2>2, <2>4, <2>5 DEF InOrder
<1> QED BY <1>2, <1>3, <1>4 DEF OnceInv

\* Iterators are written as the table says.
LEMMA NamedWritten ==
    ASSUME NEW table, WriteIterators(table),
           \A i \in Iterators : i \in Named /\ table[i] # None => table[i] = iterators[i]
    PROVE  NamedKept
BY DEF WriteIterators, NamedKept

-----------------------------------------------------------------------------
(* The steps.                                                              *)

\* Writers, requests other than a create, the clock and the ticker's list.
LEMMA OthersOnce ==
    ASSUME IInv, OnceInv,
           \/ \E w \in Writers : Claim(w) \/ Append(w)
           \/ \E m \in Mappings : UpdateEventSourceMapping(m) \/ DeleteEventSourceMapping(m)
           \/ RefuseCreate \/ ListEnabled \/ Tick
           \/ UNCHANGED vars
    PROVE  OnceInv'
<1>1. UNCHANGED <<created, poll, handled, redelivered, disturbed>>
  BY DEF Claim, Append, UpdateEventSourceMapping, DeleteEventSourceMapping, RefuseCreate,
         ListEnabled, Tick, vars, rows, history
<1>2. iterators' = iterators \/ WriteIterators(iterators)
  BY DEF Claim, Append, UpdateEventSourceMapping, DeleteEventSourceMapping, RefuseCreate,
         ListEnabled, Tick, vars, rows, history
<1>3. NamedKept
  BY <1>2, NamedWritten DEF NamedKept
<1>4. \A x \in Mappings : mappings'[x] # None => mappings[x] # None /\ mappings'[x].cursor = mappings[x].cursor
  <2>1. CASE \E m \in Mappings : UpdateEventSourceMapping(m)
    <3>1. PICK m \in Mappings : UpdateEventSourceMapping(m)
      BY <2>1
    <3>2. PICK s \in Settings : mappings' = [mappings EXCEPT ![m].set = s]
      BY <3>1 DEF UpdateEventSourceMapping
    <3>3. mappings[m] \in Row /\ mappings[m] # None
      BY <3>1 DEF UpdateEventSourceMapping, IInv, TypeOK
    <3>4. mappings' = [mappings EXCEPT ![m] = [mappings[m] EXCEPT !.set = s]]
      BY <3>2
    <3>5. [mappings[m] EXCEPT !.set = s].cursor = mappings[m].cursor
      BY <3>3 DEF Row
    <3> QED BY <3>3, <3>4, <3>5 DEF IInv, TypeOK
  <2>2. CASE \E m \in Mappings : DeleteEventSourceMapping(m)
    BY <2>2 DEF DeleteEventSourceMapping, IInv, TypeOK
  <2>3. CASE mappings' = mappings
    BY <2>3
  <2> QED BY <2>1, <2>2, <2>3
       DEF Claim, Append, RefuseCreate, ListEnabled, Tick, vars, rows
<1> QED BY <1>1, <1>3, <1>4, RequestOnce

\* A created mapping was never polled and rests at the beginning of the stream.
LEMMA CreateOnce ==
    ASSUME IInv, OnceInv, NEW m \in Mappings, CreateEventSourceMapping(m)
    PROVE  OnceInv'
<1>1. /\ UNCHANGED <<iterators, handled, redelivered, disturbed>>
      /\ m \notin created /\ created' = created \cup {m}
  BY DEF CreateEventSourceMapping, history
<1>2. PICK s \in Settings :
          /\ mappings' = [mappings EXCEPT ![m] = [set |-> s, cursor |-> None]]
          /\ IF Inline /\ s.enabled
               THEN Move(m, [Idle EXCEPT !.phase = "load", !.of = m])
               ELSE UNCHANGED poll
  BY DEF CreateEventSourceMapping
<1>3. mappings'[m].cursor = None /\ \A x \in Mappings : x # m => mappings'[x] = mappings[x]
  BY <1>2 DEF IInv, TypeOK
<1>4. NamedKept
  BY <1>1 DEF NamedKept
<1>5. CASE poll' = poll
  BY <1>1, <1>3, <1>4, <1>5, RequestOnce
<1>6. CASE Move(m, [Idle EXCEPT !.phase = "load", !.of = m])
  <2> DEFINE q == [Idle EXCEPT !.phase = "load", !.of = m]
  <2>1. poll' = [poll EXCEPT ![m] = q] /\ q.of = m /\ q.phase = "load"
    BY <1>6 DEF Move, Idle
  <2> HIDE DEF q
  <2>2. m \in Pollers /\ poll[m].of \in {None, m}
    BY DEF Pollers, OnceInv
  <2>3. Polling(m) = {} /\ handled[m] = {}
    BY <1>1 DEF OnceInv, Unused
  <2>4. AtRest(m)'
    BY <1>1, <1>3, <2>3 DEF AtRest
  <2>5. poll'[m] = q
    BY <2>1, <2>2 DEF IInv, TypeOK
  <2>6. Ahead(m)'
    BY <2>1, <2>5 DEF Ahead
  <2>7. m \notin disturbed' => m \notin redelivered'
    BY <1>1 DEF OnceInv, InOrder
  <2>8. m \in created' /\ created \subseteq created' /\ disturbed \subseteq disturbed'
    BY <1>1
  <2>9. \A x \in Mappings : x # m =>
            mappings'[x] = mappings[x] /\ handled'[x] = handled[x] /\ (x \in redelivered' => x \in redelivered)
    BY <1>1, <1>3
  <2>10. m \notin disturbed' =>
            /\ m \notin redelivered' /\ Polling(m) \subseteq {m}
            /\ q.of = None \/ q.phase \in Unread => AtRest(m)'
            /\ q.of = m => Ahead(m)'
    BY <2>3, <2>4, <2>6, <2>7
  <2>11. poll' = [poll EXCEPT ![m] = q] /\ q.of \in {None, m}
    BY <2>1
  <2> QED BY <1>4, <2>2, <2>8, <2>9, <2>10, <2>11, PollOnce
<1> QED BY <1>2, <1>5, <1>6

\* A restart disturbs every mapping that is polled; the others rest.
LEMMA RestartOnce ==
    ASSUME IInv, OnceInv, Restart
    PROVE  OnceInv'
<1>1. /\ UNCHANGED <<mappings, created, handled, redelivered>>
      /\ poll' = [p \in Pollers |-> Idle]
      /\ disturbed' = disturbed \cup {m \in Mappings : Polling(m) # {}}
      /\ WriteIterators(iterators)
  BY DEF Restart, Disturb
<1>2. NamedKept
  BY <1>1, NamedWritten
<1>3. Idle.of = None
  BY DEF Idle
<1>4. ASSUME NEW x \in Mappings
      PROVE  /\ x \notin created' => Unused(x)'
             /\ x \notin disturbed' => InOrder(x)'
  <2>1. CASE Polling(x) = {}
    <3>1. Untouched(x)
      BY <1>1, <1>3, <2>1, NoneAssumption DEF Untouched, Polling
    <3> QED BY <1>1, <1>2, <3>1, UntouchedKept
  <2>2. CASE Polling(x) # {}
    BY <1>1, <2>2 DEF OnceInv, Unused
  <2> QED BY <2>1, <2>2
<1>5. \A m \in Mappings : poll'[m].of = None
  BY <1>1, <1>3 DEF Pollers
<1> QED BY <1>4, <1>5 DEF OnceInv

\* A poll that begins beside none takes the cursor of a mapping that rests.
LEMMA LoadOnce ==
    ASSUME IInv, OnceInv, NEW p \in Pollers, NEW m \in Mappings, Load(p, m),
           UNCHANGED <<rows, handled, redelivered>>,
           \/ poll[p] = Idle /\ p \notin Mappings
           \/ poll[p].phase = "load" /\ poll[p].of = m
    PROVE  OnceInv'
<1>1. UNCHANGED <<mappings, created, iterators, handled, redelivered>>
  BY DEF rows
<1>2. NamedKept
  BY <1>1 DEF NamedKept
<1>3. Idle.of = None /\ Idle.phase = "idle"
  BY DEF Idle
<1>4. poll[p].of \in {None, m} /\ (p \in Mappings => p = m)
  BY <1>3, PollKnows
<1>5. AtRest(m) => AtRest(m)'
  BY <1>1, <1>2, RestKept
<1>6. CASE ~Enabled(m)
  <2>1. poll' = [poll EXCEPT ![p] = Idle] /\ disturbed' = disturbed
    BY <1>6 DEF Load, Stop, Move
  <2>2. CASE poll[p] = Idle
    <3>1. poll' = poll
      BY <2>1, <2>2 DEF IInv, TypeOK
    <3> QED BY <1>1, <1>2, <2>1, <3>1, RequestOnce
  <2>3. CASE poll[p].phase = "load" /\ poll[p].of = m
    <3>1. /\ m \in created
          /\ m \notin disturbed => m \notin redelivered /\ Polling(m) \subseteq {p} /\ AtRest(m)
      BY <2>3, PollKnows DEF Unread
    <3> QED BY <1>1, <1>2, <1>3, <1>4, <1>5, <2>1, <3>1, NoneAssumption, PollOnce
  <2> QED BY <2>2, <2>3
<1>7. CASE Enabled(m)
  <2> DEFINE c == mappings[m].cursor
             q == [Idle EXCEPT !.phase = IF c = None THEN "open" ELSE "find",
                               !.of = m, !.set = mappings[m].set, !.it = c]
  <2>1. /\ poll' = [poll EXCEPT ![p] = q]
        /\ disturbed' = disturbed \cup (IF Polling(m) \subseteq {p} THEN {} ELSE {m})
    BY <1>7 DEF Load, Move, Disturb
  <2>2. q.of = m /\ q.it = c /\ q.phase = IF c = None THEN "open" ELSE "find"
    BY DEF Idle
  <2> HIDE DEF q
  <2>3. poll'[p] = q
    BY <2>1 DEF IInv, TypeOK
  <2>4. m \in created
    BY <1>7 DEF Enabled, OnceInv, Unused
  <2>5. ASSUME m \notin disturbed'
        PROVE  m \notin redelivered' /\ Polling(m) \subseteq {p} /\ AtRest(m)' /\ Ahead(p)'
    <3>1. InOrder(m) /\ Polling(m) \subseteq {p}
      BY <2>1, <2>5 DEF OnceInv
    <3>2. \A o \in Polling(m) : poll[o].phase \in Unread
      BY <1>3, <3>1, NoneAssumption DEF Polling, Unread
    <3>3. AtRest(m) /\ m \notin redelivered
      BY <3>1, <3>2 DEF InOrder
    <3>4. mappings[m] # None
      BY <1>7 DEF Enabled
    <3>5. /\ c = None => handled'[m] = {}
          /\ c # None => BehindOf(c, handled[m])'
      BY <1>1, <3>3, <3>4 DEF AtRest, BehindOf
    <3>6. Ahead(p)'
      BY <1>1, <2>2, <2>3, <3>5 DEF Ahead, BehindOf
    <3>7. AtRest(m)'
      BY <1>5, <3>3
    <3>8. m \notin redelivered'
      BY <1>1, <3>3
    <3> QED BY <3>1, <3>6, <3>7, <3>8
  <2> QED BY <1>1, <1>2, <1>4, <2>1, <2>2, <2>4, <2>5, PollOnce
<1> QED BY <1>6, <1>7

\* A new iterator is opened for a function that got nothing yet.
LEMMA OpenOnce ==
    ASSUME IInv, OnceInv, NEW p \in Pollers, OpenIterator(p)
    PROVE  OnceInv'
<1>0. PICK m \in Mappings : poll[p].of = m
  BY DEF OpenIterator, IInv, PollOK
<1> DEFINE new == NewIterator
           q == [poll[p] EXCEPT !.phase = "find", !.it = new]
           table == [iterators EXCEPT ![new] = NewRow(0)]
<1>1. /\ UNCHANGED <<mappings, created, handled, redelivered, disturbed>>
      /\ poll' = [poll EXCEPT ![p] = q] /\ poll[p].phase = "open" /\ WriteIterators(table)
  BY <1>0 DEF OpenIterator, Move, history
<1>2. new \in Iterators /\ new \notin Named
  BY NewIteratorFresh DEF OpenIterator
<1>3. poll[p] \in Poll /\ m \in Mappings
  BY <1>0, <1>1 DEF IInv, TypeOK, PollOK
<1>4. q.phase = "find" /\ q.of = m /\ q.it = new
  BY <1>0, <1>3 DEF Poll
<1>5. \A i \in Iterators : i \in Named => table[i] = iterators[i]
  BY <1>0, <1>2 DEF IInv, TypeOK
<1> HIDE DEF new, q, table
<1>6. NamedKept
  BY <1>0, <1>1, <1>5, NamedWritten
<1>7. poll'[p] = q
  BY <1>0, <1>1 DEF IInv, TypeOK
<1>8. /\ m \in created /\ (p \in Mappings => p = m)
      /\ m \notin disturbed => m \notin redelivered /\ Polling(m) \subseteq {p} /\ Ahead(p) /\ AtRest(m)
  BY <1>0, <1>1, <1>3, PollKnows DEF Unread
<1>9. AtRest(m) => AtRest(m)'
  <2> QED BY <1>0, <1>1, <1>3, <1>6, RestKept
<1>10. Ahead(p) => Ahead(p)'
  BY <1>0, <1>1, <1>4, <1>7 DEF Ahead, BehindOf
<1> QED BY <1>0, <1>1, <1>3, <1>4, <1>6, <1>8, <1>9, <1>10, PollOnce

\* The position that is read from is that of the iterator.
LEMMA FindOnce ==
    ASSUME IInv, OnceInv, NEW p \in Pollers, FindIterator(p)
    PROVE  OnceInv'
<1>0. PICK m \in Mappings : poll[p].of = m
  BY DEF FindIterator, IInv, PollOK
<1> DEFINE q == [poll[p] EXCEPT !.phase = "read", !.from = iterators[poll[p].it].next]
<1>1. /\ UNCHANGED <<mappings, created, iterators, handled, redelivered, disturbed>>
      /\ poll' = [poll EXCEPT ![p] = q] /\ poll[p].phase = "find" /\ iterators[poll[p].it] # None
  BY DEF FindIterator, Move, Readable, rows, history
<1>2. poll[p] \in Poll /\ m \in Mappings
  BY <1>0, <1>1 DEF IInv, TypeOK, PollOK
<1>3. q.phase = "read" /\ q.of = m /\ q.from = iterators[poll[p].it].next
  BY <1>0, <1>2 DEF Poll
<1> HIDE DEF q
<1>4. NamedKept
  BY <1>0, <1>1 DEF NamedKept
<1>5. poll'[p] = q
  BY <1>0, <1>1 DEF IInv, TypeOK
<1>6. /\ m \in created /\ (p \in Mappings => p = m)
      /\ m \notin disturbed => m \notin redelivered /\ Polling(m) \subseteq {p} /\ Ahead(p) /\ AtRest(m)
  BY <1>0, <1>1, <1>2, PollKnows DEF Unread
<1>7. AtRest(m) => AtRest(m)'
  <2> QED BY <1>0, <1>1, <1>2, <1>4, RestKept
<1>8. Ahead(p) => Ahead(p)'
  BY <1>0, <1>1, <1>3, <1>5 DEF Ahead, BehindOf
<1> QED BY <1>0, <1>1, <1>2, <1>3, <1>4, <1>6, <1>7, <1>8, PollOnce

\* A poll of m that ends where m disturbed or m still rests.
LEMMA StopOnce ==
    ASSUME IInv, OnceInv, NamedKept, NEW p \in Pollers, Stop(p), poll[p].phase # "idle",
           UNCHANGED <<mappings, created, handled, redelivered>>, NEW ms, Disturb(ms),
           poll[p].of \in ms \/ poll[p].phase \in Unread
    PROVE  OnceInv'
<1>0. PICK m \in Mappings : poll[p].of = m
  BY DEF IInv, PollOK
<1>1. m \in Mappings
  BY DEF IInv, PollOK
<1>2. poll' = [poll EXCEPT ![p] = Idle] /\ Idle.of = None /\ disturbed' = disturbed \cup ms
  BY DEF Stop, Move, Idle, Disturb
<1>3. /\ m \in created /\ (p \in Mappings => p = m)
      /\ m \notin disturbed' => m \notin redelivered /\ Polling(m) \subseteq {p} /\ AtRest(m)
  BY <1>0, <1>1, <1>2, PollKnows
<1>4. AtRest(m) => AtRest(m)'
  <2> QED BY <1>0, <1>1, RestKept
<1> QED BY <1>0, <1>1, <1>2, <1>3, <1>4, NoneAssumption, PollOnce

\* An iterator that expired disturbs the mapping, or had gone before.
LEMMA ExpiredOnce ==
    ASSUME IInv, OnceInv, NEW p \in Pollers, IteratorExpired(p)
    PROVE  OnceInv'
<1> DEFINE table == [iterators EXCEPT ![poll[p].it] = None]
           ms == IF iterators[poll[p].it] = None THEN {} ELSE {poll[p].of}
<1>1. /\ Stop(p) /\ Disturb(ms) /\ WriteIterators(table) /\ poll[p].phase = "find"
      /\ UNCHANGED <<mappings, created, handled, redelivered>>
  BY DEF IteratorExpired
<1>2. \A i \in Iterators : table[i] # None => table[i] = iterators[i]
  BY DEF IInv, TypeOK
<1> HIDE DEF table, ms
<1>3. NamedKept
  BY <1>1, <1>2, NamedWritten
<1> QED BY <1>1, <1>3, StopOnce DEF Unread

\* A poll that fails disturbs the mapping.
LEMMA FailOnce ==
    ASSUME IInv, OnceInv, NEW p \in Pollers, InvokeFails(p) \/ StatementFails(p)
    PROVE  OnceInv'
<1>1. /\ Stop(p) /\ Disturb({poll[p].of}) /\ WriteIterators(iterators)
      /\ UNCHANGED <<mappings, created, handled, redelivered>>
  BY DEF InvokeFails, StatementFails
<1>2. poll[p].phase # "idle"
  BY DEF InvokeFails, StatementFails, IInv, PollOK
<1>3. NamedKept
  BY <1>1, NamedWritten
<1> QED BY <1>1, <1>2, <1>3, StopOnce

\* A page holds nothing that lies behind where it was read from, and the position
\* after it is behind neither.
LEMMA PageAhead ==
    ASSUME IInv, NEW from \in Nat, NEW limit, NEW page \in Pages(stream, from, limit),
           NEW recs \in SUBSET Record, \A r \in recs : r.ord < from
    PROVE  /\ page \cap recs = {} /\ page \subseteq stream
           /\ \A r \in recs \cup page : r.ord < Following(page, from)
<1>1. page \subseteq stream /\ \A r \in page : r.ord >= from
  BY DEF Pages
<1>2. stream \subseteq Record /\ IsFiniteSet(page)
  BY <1>1, FS_Subset DEF IInv, TypeOK
<1>3. \A r \in page \cup recs : r.ord \in Nat
  BY <1>1, <1>2 DEF Record
<1>4. page \cap recs = {}
  BY <1>1, <1>3
<1>5. CASE page = {}
  BY <1>4, <1>5 DEF Following, After
<1>6. CASE page # {}
  <2>1. PICK q \in page : MaxOrd(page) = q.ord /\ \A s \in page : s.ord <= q.ord
    BY <1>1, <1>2, <1>6, MaxOrdReached
  <2>2. Following(page, from) = q.ord + 1
    BY <1>6, <2>1 DEF Following, After
  <2>3. q.ord \in Nat /\ q.ord >= from
    BY <1>1, <1>3
  <2>4. ASSUME NEW r \in recs \cup page PROVE r.ord < q.ord + 1
    BY <1>3, <2>1, <2>3
  <2> QED BY <1>1, <1>4, <2>2, <2>4
<1> QED BY <1>5, <1>6

\* The new iterator lies behind the page, and the page behind what was handled.
LEMMA ReadOnce ==
    ASSUME IInv, OnceInv, NEW p \in Pollers, ReadPage(p)
    PROVE  OnceInv'
<1>0. PICK m \in Mappings : poll[p].of = m
  BY DEF ReadPage, IInv, PollOK
<1> DEFINE from == poll[p].from
           it == poll[p].it
           new == NewIterator
<1>1. PICK page \in Pages(stream, from, poll[p].set.batch) :
          /\ Move(p, [poll[p] EXCEPT !.phase = IF Matched(p, page) = {} THEN "store" ELSE "invoke",
                                     !.page = page, !.it = None, !.from = 0, !.next = new])
          /\ handled' = [handled EXCEPT ![m] = @ \cup (page \ Matched(p, page))]
          /\ UNCHANGED <<stream, mappings, created, claimed, now, running, due, redelivered, disturbed>>
          /\ WriteIterators([iterators EXCEPT ![it] = None, ![new] = NewRow(Following(page, from))])
  BY <1>0 DEF ReadPage
<1> DEFINE mm == Matched(p, page)
           phase == IF mm = {} THEN "store" ELSE "invoke"
           q == [poll[p] EXCEPT !.phase = phase, !.page = page, !.it = None, !.from = 0, !.next = new]
           after == Following(page, from)
           gone == [iterators EXCEPT ![it] = None]
           table == [gone EXCEPT ![new] = NewRow(after)]
<1>2. /\ poll' = [poll EXCEPT ![p] = q]
      /\ handled' = [handled EXCEPT ![m] = handled[m] \cup (page \ mm)]
      /\ UNCHANGED <<mappings, created, redelivered, disturbed>>
      /\ WriteIterators(table)
  BY <1>0, <1>1 DEF Move
<1>3. poll[p].phase = "read" /\ new \in Iterators /\ new \notin Named
  BY NewIteratorFresh DEF ReadPage
<1>4. /\ poll[p] \in Poll /\ m \in Mappings /\ from \in Nat /\ Filled(from) /\ Covers(from, handled[m])
      /\ handled[m] \in SUBSET Record
  BY <1>0, <1>3 DEF IInv, TypeOK, PollOK, Poll
<1>5. after \in Nat
  <2> HIDE DEF from
  <2> QED BY <1>0, <1>4, PageCovers
<1>6. mm \subseteq page
  BY DEF Matched
<1>7. NewRow(after).next = after
  <2> HIDE DEF after
  <2> QED BY <1>0, <1>5, NewRowType DEF IInv
<1>8. ASSUME \A r \in handled[m] : r.ord < from
      PROVE  page \cap handled[m] = {} /\ \A r \in handled[m] \cup page : r.ord < after
  <2> DEFINE got == handled[m]
  <2>1. got \in SUBSET Record /\ \A r \in got : r.ord < from
    BY <1>4, <1>8
  <2> HIDE DEF from, got
  <2>2. page \cap got = {} /\ \A r \in got \cup page : r.ord < Following(page, from)
    BY <1>4, <2>1, PageAhead
  <2> QED BY <2>2 DEF got
<1> HIDE DEF after, mm
<1>9. q.phase = phase /\ q.of = m /\ q.page = page /\ q.next = new /\ q.set = poll[p].set
  BY <1>0, <1>4 DEF Poll
<1> HIDE DEF q
<1>10. poll'[p] = q
  BY <1>0, <1>2 DEF IInv, TypeOK
<1>11. \A i \in Iterators : gone[i] # None => gone[i] = iterators[i]
  BY DEF IInv, TypeOK
<1>12. gone \in [Iterators -> IteratorRow \cup {None}]
  BY DEF IInv, TypeOK
<1> HIDE DEF gone
<1>13. table[new] = NewRow(after) /\ \A i \in Iterators : i # new => table[i] = gone[i]
  BY <1>0, <1>3, <1>12
<1> HIDE DEF table
<1>14. NamedKept
  BY <1>0, <1>2, <1>3, <1>11, <1>13, NamedWritten
<1>15. iterators'[new] # None => iterators'[new].next = after
  BY <1>0, <1>2, <1>3, <1>7, <1>13 DEF WriteIterators
<1>16. handled'[m] = handled[m] \cup (page \ mm) /\ \A x \in Mappings : x # m => handled'[x] = handled[x]
  BY <1>0, <1>2, <1>4 DEF IInv, TypeOK
<1>17. /\ m \in created /\ (p \in Mappings => p = m)
       /\ m \notin disturbed => m \notin redelivered /\ Polling(m) \subseteq {p} /\ Ahead(p)
  BY <1>0, <1>3, <1>4, PollKnows
<1>18. ASSUME Ahead(p) PROVE Ahead(p)'
  <2>1. \A r \in handled[m] : r.ord < from
    BY <1>0, <1>3, <1>18 DEF Ahead
  <2>2. page \cap handled[m] = {} /\ \A r \in handled[m] \cup page : r.ord < after
    BY <1>0, <1>8, <2>1
  <2>3. Matched(p, poll[p].page)' = mm
    BY <1>0, <1>9, <1>10 DEF Matched, mm
  <2>4. /\ poll'[p].of = m /\ poll'[p].next = new /\ poll'[p].phase = phase
        /\ phase \in {"store", "invoke"} /\ (phase = "store" => mm = {})
    BY <1>0, <1>9, <1>10
  <2> HIDE DEF new, from, phase
  <2>5. iterators'[new] # None => \A r \in handled'[m] \cup mm : r.ord < iterators'[new].next
    BY <1>0, <1>6, <1>15, <1>16, <2>2
  <2>6. mm \cap handled'[m] = {}
    BY <1>0, <1>6, <1>16, <2>2
  <2>7. BehindOf(poll[p].next, handled[poll[p].of] \cup Matched(p, poll[p].page))'
    BY <2>3, <2>4, <2>5 DEF BehindOf
  <2>8. BehindOf(poll[p].next, handled[poll[p].of])'
    BY <2>4, <2>5 DEF BehindOf
  <2>9. (Matched(p, poll[p].page) \cap handled[poll[p].of])' = {}
    BY <2>3, <2>4, <2>6
  <2> QED BY <2>4, <2>7, <2>8, <2>9 DEF Ahead
<1>19. q.phase \notin Unread
  BY <1>0, <1>9 DEF Unread
<1>20. q.of # None
  BY <1>0, <1>4, <1>9, NoneAssumption
<1> HIDE DEF phase
<1> QED BY <1>0, <1>2, <1>4, <1>9, <1>14, <1>16, <1>17, <1>18, <1>19, <1>20, PollOnce

\* The function gets a page it did not get before.
LEMMA SucceedOnce ==
    ASSUME IInv, OnceInv, NEW p \in Pollers, InvokeSucceeds(p)
    PROVE  OnceInv'
<1>0. PICK m \in Mappings : poll[p].of = m
  BY DEF InvokeSucceeds, IInv, PollOK
<1> DEFINE mm == Matched(p, poll[p].page)
           q == [poll[p] EXCEPT !.phase = "store"]
<1>1. /\ poll' = [poll EXCEPT ![p] = q] /\ poll[p].phase = "invoke"
      /\ handled' = [handled EXCEPT ![m] = handled[m] \cup mm]
      /\ redelivered' = redelivered \cup (IF mm \cap handled[m] = {} THEN {} ELSE {m})
      /\ UNCHANGED <<mappings, created, iterators, disturbed>>
  BY <1>0 DEF InvokeSucceeds, Move, rows
<1>2. poll[p] \in Poll /\ m \in Mappings
  BY <1>0, <1>1 DEF IInv, TypeOK, PollOK
<1> HIDE DEF mm
<1>3. q.phase = "store" /\ q.of = m /\ q.next = poll[p].next
  BY <1>0, <1>2 DEF Poll
<1> HIDE DEF q
<1>4. poll'[p] = q
  BY <1>0, <1>1 DEF IInv, TypeOK
<1>5. handled'[m] = handled[m] \cup mm /\ \A x \in Mappings : x # m => handled'[x] = handled[x]
  BY <1>0, <1>1, <1>2 DEF IInv, TypeOK
<1>6. NamedKept
  BY <1>0, <1>1 DEF NamedKept
<1>7. /\ m \in created /\ (p \in Mappings => p = m)
      /\ m \notin disturbed => m \notin redelivered /\ Polling(m) \subseteq {p} /\ Ahead(p)
  BY <1>0, <1>1, <1>2, PollKnows
<1>8. ASSUME Ahead(p) PROVE Ahead(p)' /\ mm \cap handled[m] = {}
  <2>1. BehindOf(poll[p].next, handled[m] \cup mm) /\ mm \cap handled[m] = {}
    BY <1>0, <1>1, <1>8 DEF Ahead, mm
  <2>2. poll'[p].phase = "store" /\ poll'[p].of = m /\ poll'[p].next = poll[p].next
    BY <1>0, <1>3, <1>4
  <2>3. BehindOf(poll[p].next, handled[poll[p].of])'
    BY <1>0, <1>1, <1>5, <2>1, <2>2 DEF BehindOf
  <2> QED BY <2>1, <2>2, <2>3 DEF Ahead
<1>9. q.phase \notin Unread /\ q.of # None
  BY <1>0, <1>2, <1>3, NoneAssumption DEF Unread
<1>10. m \notin disturbed' => m \notin redelivered'
  BY <1>0, <1>1, <1>7, <1>8
<1>11. \A x \in Mappings : x # m =>
           mappings'[x] = mappings[x] /\ handled'[x] = handled[x] /\ (x \in redelivered' => x \in redelivered)
  BY <1>0, <1>1, <1>5
<1>12. m \notin disturbed' =>
           /\ m \notin redelivered' /\ Polling(m) \subseteq {p}
           /\ q.of = None \/ q.phase \in Unread => AtRest(m)'
           /\ q.of = m => Ahead(p)'
  BY <1>1, <1>7, <1>8, <1>9, <1>10
<1>13. m \in created' /\ created \subseteq created' /\ disturbed \subseteq disturbed'
  BY <1>1, <1>7
<1>14. /\ poll' = [poll EXCEPT ![p] = q] /\ poll[p].of \in {None, m} /\ q.of \in {None, m}
       /\ p \in Mappings => p = m
  BY <1>0, <1>1, <1>3, <1>7
<1> QED BY <1>2, <1>6, <1>11, <1>12, <1>13, <1>14, PollOnce

\* The cursor that is stored lies behind all the function got.
LEMMA StoreOnce ==
    ASSUME IInv, OnceInv, NEW p \in Pollers, StoreCursor(p)
    PROVE  OnceInv'
<1>0. PICK m \in Mappings : poll[p].of = m
  BY DEF StoreCursor, IInv, PollOK
<1> DEFINE c == poll[p].next
           row == [mappings[m] EXCEPT !.cursor = c]
<1>1. /\ poll[p].phase = "store" /\ poll' = [poll EXCEPT ![p] = Idle]
      /\ UNCHANGED <<created, handled, redelivered, disturbed>>
      /\ WriteIterators(iterators)
      /\ mappings' = IF mappings[m] = None THEN mappings ELSE [mappings EXCEPT ![m] = row]
  BY <1>0 DEF StoreCursor, Stop, Move, history
<1>2. m \in Mappings /\ c \in Iterators
  BY <1>0, <1>1 DEF IInv, PollOK
<1>3. mappings[m] # None => row.cursor = c
  BY <1>0, <1>2 DEF IInv, TypeOK, Row
<1> HIDE DEF row
<1>4. /\ mappings'[m] # None => mappings'[m].cursor = c
      /\ \A x \in Mappings : x # m => mappings'[x] = mappings[x]
  BY <1>0, <1>1, <1>2, <1>3 DEF IInv, TypeOK
<1>5. NamedKept
  BY <1>0, <1>1, NamedWritten
<1>6. /\ m \in created /\ (p \in Mappings => p = m)
      /\ m \notin disturbed => m \notin redelivered /\ Polling(m) \subseteq {p} /\ Ahead(p)
  BY <1>0, <1>2, PollKnows
<1>7. Idle.of = None
  BY DEF Idle
<1>8. ASSUME Ahead(p) PROVE AtRest(m)'
  <2>1. BehindOf(c, handled[m])
    BY <1>0, <1>1, <1>8 DEF Ahead
  <2>2. c \in Named
    BY DEF Named
  <2> HIDE DEF c
  <2>3. iterators'[c] # None => \A r \in handled[m] : r.ord < iterators'[c].next
    BY <1>0, <1>2, <1>5, <2>1, <2>2, BehindKept
  <2>4. c # None
    BY <1>0, <1>2, NoneAssumption
  <2>5. ASSUME mappings'[m] # None
        PROVE  mappings'[m].cursor # None /\ BehindOf(mappings[m].cursor, handled[m])'
    BY <1>0, <1>1, <1>4, <2>3, <2>4, <2>5 DEF BehindOf
  <2> QED BY <2>5 DEF AtRest
<1>9. \A x \in Mappings : x # m =>
          mappings'[x] = mappings[x] /\ handled'[x] = handled[x] /\ (x \in redelivered' => x \in redelivered)
  BY <1>1, <1>4
<1>10. m \notin disturbed' =>
          /\ m \notin redelivered' /\ Polling(m) \subseteq {p}
          /\ Idle.of = None \/ Idle.phase \in Unread => AtRest(m)'
          /\ Idle.of = m => Ahead(p)'
  BY <1>1, <1>6, <1>7, <1>8, NoneAssumption
<1>11. m \in created' /\ created \subseteq created' /\ disturbed \subseteq disturbed'
  BY <1>1, <1>6
<1>12. /\ poll' = [poll EXCEPT ![p] = Idle] /\ poll[p].of \in {None, m} /\ Idle.of \in {None, m}
       /\ p \in Mappings => p = m
  BY <1>0, <1>1, <1>6, <1>7
<1> QED BY <1>0, <1>2, <1>5, <1>9, <1>10, <1>11, <1>12, PollOnce

\* One case for each action.
LEMMA OnceStep == IInv /\ OnceInv /\ [Next]_vars => OnceInv'
<1> SUFFICES ASSUME IInv, OnceInv, [Next]_vars PROVE OnceInv'
  OBVIOUS
<1>1. CASE \/ \E w \in Writers : Claim(w) \/ Append(w)
           \/ \E m \in Mappings : UpdateEventSourceMapping(m) \/ DeleteEventSourceMapping(m)
           \/ RefuseCreate \/ ListEnabled \/ Tick
           \/ UNCHANGED vars
  BY <1>1, OthersOnce
<1>2. CASE \E m \in Mappings : CreateEventSourceMapping(m)
  BY <1>2, CreateOnce
<1>3. CASE LoadDue
  <2>1. PICK m \in due : Load(Poller, m)
    BY <1>3 DEF LoadDue
  <2>2. m \in Mappings /\ Poller \in Pollers /\ Poller \notin Mappings
    BY MappingAssumption DEF IInv, TypeOK, Pollers
  <2> QED BY <1>3, <2>1, <2>2, LoadOnce DEF LoadDue
<1>4. ASSUME NEW p \in Pollers, LoadCreated(p) PROVE OnceInv'
  <2>1. poll[p].of \in Mappings
    BY <1>4 DEF LoadCreated, IInv, PollOK
  <2> QED BY <1>4, <2>1, LoadOnce DEF LoadCreated
<1>5. CASE Restart
  BY <1>5, RestartOnce
<1> QED
  BY <1>1, <1>2, <1>3, <1>4, <1>5, OpenOnce, FindOnce, ExpiredOnce, ReadOnce, SucceedOnce, FailOnce, StoreOnce
     DEF Next, Proceed

\* Initially no mapping was polled.
LEMMA OnceInit == Init => OnceInv
<1> SUFFICES ASSUME Init PROVE OnceInv
  OBVIOUS
<1>1. Idle.of = None
  BY DEF Idle
<1>2. \A m \in Mappings : poll[m].of = None
  BY <1>1 DEF Init, Pollers
<1>3. \A m \in Mappings : Polling(m) = {} /\ mappings[m] = None /\ handled[m] = {} /\ redelivered = {}
  BY <1>1, NoneAssumption DEF Init, Polling
<1>4. \A m \in Mappings : Unused(m) /\ InOrder(m)
  BY <1>3 DEF Unused, InOrder, AtRest
<1> QED BY <1>2, <1>4 DEF OnceInv

\* A record reaches a mapping's function twice only after a poll of the mapping
\* failed, overlapped another or came too late for its iterator
\* (pollDynamoEventSourceMappingOnce).
THEOREM RedeliveryIsDisturbed == Spec => []RedeliveredOnlyWhenDisturbed
<1>1. IInv /\ OnceInv => RedeliveredOnlyWhenDisturbed
  BY DEF IInv, TypeOK, OnceInv, InOrder, RedeliveredOnlyWhenDisturbed
<1> QED BY <1>1, InvariantHolds, OnceInit, OnceStep, PTL DEF Spec

=============================================================================
