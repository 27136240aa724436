-------------------------- MODULE DynamoWritesProofs --------------------------
(***************************************************************************)
(* Proofs about DynamoWrites, for any number of clients, keys, tokens and  *)
(* requests: first what every state satisfies (IInv), then, on top of it,  *)
(* tokens whose requests come one after the other (TokenInv) and keys      *)
(* whose writers do (ReplayInv).                                           *)
(***************************************************************************)
EXTENDS DynamoWrites, FiniteSetTheorems, TLAPS, SequenceTheorems

\* A nonempty finite set of numbers has a largest element, so the SELECT MAX(..)
\* of maxDynamoStreamSeqOrd is defined.
LEMMA LargestExists ==
  ASSUME NEW S \in SUBSET Nat, IsFiniteSet(S), S # {}
  PROVE  \E n \in S : \A k \in S : k <= n
<1> DEFINE Above(n) == {k \in S : k > n}
           Tops == {Above(n) : n \in S}
<1>1. Tops \subseteq SUBSET S /\ Tops # {}
  OBVIOUS
<1>2. PICK T \in Tops : \A U \in Tops : <<U, T>> \notin StrictSubsetOrdering(S)
  <2> HIDE DEF Tops
  <2>1. Tops \subseteq FiniteSubsetsOf(S)
    BY <1>1, FS_FiniteSubsetsOfFinite
  <2> QED BY <1>1, <2>1, FS_StrictSubsetOrderingWellFounded, WFMin
<1>3. PICK n \in S : T = Above(n)
  BY <1>2
<1>4. ASSUME NEW k \in S, k > n PROVE FALSE
  <2>1. k \in Nat /\ n \in Nat /\ S \subseteq Nat
    OBVIOUS
  <2>2. \A j \in Nat : j > k => j > n
    BY <1>4, <2>1
  <2>3. k \in T
    BY <1>3, <1>4
  <2>4. k \notin Above(k)
    BY <2>1
  <2>5. Above(k) \subseteq T
    BY <1>3, <2>1, <2>2
  <2>6. <<Above(k), T>> \in StrictSubsetOrdering(S)
    BY <1>3, <2>3, <2>4, <2>5 DEF StrictSubsetOrdering
  <2> QED BY <1>2, <2>6
<1> QED BY <1>4

SinglePhases == {"check", "load", "read", "write"}
TransactPhases == {"token", "sweep", "apply"}
AppendPhases == {"ord", "append"}
Uncommitted == SinglePhases \cup TransactPhases
AfterCommit == AppendPhases \cup {"store"}

\* What a running request o knows of itself and may count on.
RequestOK(o) ==
    /\ o.n < started /\ o.outcome = "none"
    /\ o.phase \in SinglePhases => o.body.writes # <<>>
    /\ o.phase \in {"token", "sweep", "store"} => o.tok \in Tokens
    /\ o.phase \in TransactPhases => DistinctKeys(o.body)
    /\ o.phase \in Uncommitted => o.owed = <<>> /\ \A w \in written : w.by # o.n
    /\ o.phase \in AfterCommit =>
         \E x \in commits : x.n = o.n /\ x.tok = o.tok /\ x.body = o.body
    /\ o.phase \in AppendPhases => o.owed # <<>>
    /\ o.phase = "store" => o.owed = <<>>
    /\ \A i \in DOMAIN o.owed :
         o.owed[i] \in written /\ o.owed[i].by = o.n /\ ~Recorded(o.owed[i])
    /\ \A i, j \in DOMAIN o.owed : i # j => o.owed[i] # o.owed[j]

RequestsOK == \A c \in Clients : Running(c) => RequestOK(op[c])

OwnNumbers ==
    \A c, d \in Clients : Running(c) /\ Running(d) /\ c # d => op[c].n # op[d].n

NumbersBegun ==
    /\ \A x \in commits : x.n < started
    /\ \A w \in written : w.by < started

\* A stored token is the token of a request that committed.
TokensOfCommits ==
    \A t \in Tokens : tokens[t] # NoToken =>
        \E x \in commits : x.tok = t /\ x.body = tokens[t].body

IInv ==
    /\ TypeOK
    /\ RequestsOK
    /\ OwnNumbers
    /\ NumbersBegun
    /\ TokensOfCommits
    /\ ReplayOfCommitted
    /\ ChangesAccounted

-----------------------------------------------------------------------------
(* The operators the steps are built from.                                 *)

LEMMA EffectType ==
    ASSUME NEW a \in Action, NEW item \in Images
    PROVE  Effect(a, item) \in Images
BY DEF Effect, Action, Images

LEMMA ChangeType ==
    ASSUME NEW n \in Nat, NEW a \in Action, NEW old \in Images, NEW new \in Images
    PROVE  Change(n, a, old, new) \in Changes
BY DEF Change, Changes, EventName, Action

\* The highest ordinal of the stream is the ordinal of a record.
LEMMA NextOrdType ==
    ASSUME TypeOK
    PROVE  NextOrd(stream) \in Nat
<1>1. CASE stream = {}
  BY <1>1 DEF NextOrd, MaxOrd
<1>2. CASE stream # {}
  <2> DEFINE S == {r.ord : r \in stream}
             f == [r \in stream |-> r.ord]
  <2>1. S \in SUBSET Nat /\ S # {}
    BY <1>2 DEF TypeOK, Record
  <2>2. IsFiniteSet(S)
    <3>1. f \in Surjection(stream, S)
      BY DEF Surjection
    <3>2. IsFiniteSet(stream)
      BY DEF TypeOK
    <3> HIDE DEF S, f
    <3> QED  BY <3>1, <3>2, FS_Surjection
  <2>3. MaxOrd(stream) = Max(S)
    BY <1>2 DEF MaxOrd
  <2> HIDE DEF S
  <2>4. \E n \in S : \A k \in S : k <= n
    BY <2>1, <2>2, LargestExists
  <2>5. \E n \in S : \A k \in S : n >= k
    BY <2>1, <2>4
  <2>6. Max(S) \in S
    BY <2>5 DEF Max
  <2>7. MaxOrd(stream) \in Nat
    BY <2>1, <2>3, <2>6
  <2> QED  BY <2>7 DEF NextOrd
<1> QED  BY <1>1, <1>2

-----------------------------------------------------------------------------
(* One client's step, whatever it does: c's request becomes o, the         *)
(* histories and the stream grow by what is c's, and what c owed is        *)
(* recorded, still owed, or counted as lost.                               *)

LEMMA ClientStep ==
    ASSUME IInv, TypeOK',
           NEW c \in Clients, NEW o \in Op,
           op' = [op EXCEPT ![c] = o],
           \/ Running(c) /\ o.n = op[c].n /\ started' = started
           \/ ~Running(c) /\ o.n = started /\ started' = started + 1,
           commits \subseteq commits', \A x \in commits' : x \in commits \/ (x.n = op[c].n /\ Running(c)),
           written \subseteq written', \A w \in written' : w \in written \/ (w.by = op[c].n /\ Running(c)),
           stream \subseteq stream',
           \A r \in stream' : r \in stream \/ (r.change \in written' /\ r.change.by = op[c].n /\ Running(c)),
           lost \subseteq lost',
           o.phase # "idle" => RequestOK(o)',
           o.outcome = "replayed" => \E x \in commits' : x.tok = o.tok /\ x.body = o.body,
           \A w \in written' : w \notin written \/ Owed(c, w) =>
               \/ Recorded(w)'
               \/ w.by \in lost'
               \/ o.phase # "idle" /\ \E i \in DOMAIN o.owed : o.owed[i] = w,
           TokensOfCommits'
    PROVE  IInv'
<1> op \in [Clients -> Op] /\ started \in Nat
  BY DEF IInv, TypeOK
<1>1. op'[c] = o /\ \A d \in Clients : d # c => op'[d] = op[d]
  OBVIOUS
<1>2. \A d \in Clients : d # c /\ Running(d) => op[d].n # o.n /\ (Running(c) => op[d].n # op[c].n)
  <2> SUFFICES ASSUME NEW d \in Clients, d # c, Running(d)
               PROVE  op[d].n # o.n /\ (Running(c) => op[d].n # op[c].n)
    OBVIOUS
  <2>1. op[d].n < started
    BY DEF IInv, RequestsOK, RequestOK
  <2>2. Running(c) => op[d].n # op[c].n
    BY DEF IInv, OwnNumbers
  <2>3. op[d].n \in Nat
    BY DEF Op
  <2> QED  BY <2>1, <2>2, <2>3
<1>3. \A d \in Clients : d # c /\ Running(d) => RequestOK(op[d])'
  <2> SUFFICES ASSUME NEW d \in Clients, d # c, Running(d)
               PROVE  RequestOK(op[d])'
    OBVIOUS
  <2>1. RequestOK(op[d]) /\ op'[d] = op[d] /\ (Running(c) => op[d].n # op[c].n)
    BY <1>1, <1>2 DEF IInv, RequestsOK
  <2>2. op[d].n < started'
    <3>1. op[d].n \in Nat  BY DEF Op
    <3> QED  BY <2>1, <3>1 DEF RequestOK
  <2>3. \A w \in written' : w.by = op[d].n => w \in written
    BY <2>1
  <2>4. \A w : w.by = op[d].n => (Recorded(w)' => Recorded(w))
    BY <2>1 DEF Recorded
  <2>5. op[d].phase \in Uncommitted => op[d].owed = <<>> /\ \A w \in written' : w.by # op[d].n
    BY <2>1, <2>3 DEF RequestOK
  <2>6. op[d].phase \in AfterCommit =>
          \E x \in commits' : x.n = op[d].n /\ x.tok = op[d].tok /\ x.body = op[d].body
    BY <2>1 DEF RequestOK
  <2>7. \A i \in DOMAIN op[d].owed :
          op[d].owed[i] \in written' /\ op[d].owed[i].by = op[d].n /\ ~Recorded(op[d].owed[i])'
    <3> SUFFICES ASSUME NEW i \in DOMAIN op[d].owed
                 PROVE op[d].owed[i] \in written' /\ op[d].owed[i].by = op[d].n /\ ~Recorded(op[d].owed[i])'
      OBVIOUS
    <3>1. op[d].owed[i] \in written /\ op[d].owed[i].by = op[d].n /\ ~Recorded(op[d].owed[i])
      BY <2>1 DEF RequestOK
    <3>2. PICK w : w = op[d].owed[i]
      OBVIOUS
    <3>3. ~Recorded(w)'
      BY <2>4, <3>1, <3>2
    <3> QED  BY <2>1, <3>1, <3>2, <3>3 DEF Recorded
  <2> QED  BY <2>1, <2>2, <2>5, <2>6, <2>7 DEF RequestOK, Recorded
<1>4. RequestsOK'
  <2> SUFFICES ASSUME NEW d \in Clients, Running(d)'
               PROVE  RequestOK(op[d])'
    BY DEF RequestsOK
  <2>1. CASE d = c
    BY <1>1, <2>1 DEF Running, RequestOK, Recorded
  <2>2. CASE d # c
    BY <1>1, <1>3, <2>2 DEF Running
  <2> QED  BY <2>1, <2>2
<1>5. OwnNumbers'
  <2> SUFFICES ASSUME NEW d \in Clients, NEW e \in Clients, Running(d)', Running(e)', d # e
               PROVE  op'[d].n # op'[e].n
    BY DEF OwnNumbers
  <2>1. CASE d # c /\ e # c
    BY <1>1, <2>1 DEF IInv, OwnNumbers, Running
  <2>2. CASE d = c \/ e = c
    BY <1>1, <1>2, <2>2 DEF Running
  <2> QED  BY <2>1, <2>2
<1>6. NumbersBegun'
  <2>1. Running(c) => op[c].n < started'
    <3>1. op[c].n \in Nat  BY DEF Op
    <3> QED  BY <3>1 DEF IInv, RequestsOK, RequestOK
  <2>2. \A x \in commits' : x.n < started'
    <3> SUFFICES ASSUME NEW x \in commits'  PROVE x.n < started'
      OBVIOUS
    <3>1. CASE x \in commits
      <4>1. x.n < started /\ x.n \in Nat
        BY <3>1 DEF IInv, NumbersBegun, TypeOK, Commit
      <4> QED  BY <4>1
    <3> QED  BY <2>1, <3>1
  <2>3. \A w \in written' : w.by < started'
    <3> SUFFICES ASSUME NEW w \in written'  PROVE w.by < started'
      OBVIOUS
    <3>1. CASE w \in written
      <4>1. w.by < started /\ w.by \in Nat
        BY <3>1 DEF IInv, NumbersBegun, TypeOK, Changes
      <4> QED  BY <4>1
    <3> QED  BY <2>1, <3>1
  <2> QED  BY <2>2, <2>3 DEF NumbersBegun
<1>7. ReplayOfCommitted'
  <2> SUFFICES ASSUME NEW d \in Clients, op'[d].outcome = "replayed"
               PROVE  \E x \in commits' : x.tok = op'[d].tok /\ x.body = op'[d].body
    BY DEF ReplayOfCommitted
  <2>1. CASE d = c
    BY <1>1, <2>1
  <2>2. CASE d # c
    BY <1>1, <2>2 DEF IInv, ReplayOfCommitted
  <2> QED  BY <2>1, <2>2
<1>8. ChangesAccounted'
  <2>1. \A w \in written' : \/ Recorded(w)' \/ w.by \in lost' \/ \E d \in Clients : Owed(d, w)'
    <3> SUFFICES ASSUME NEW w \in written'
                 PROVE  \/ Recorded(w)' \/ w.by \in lost' \/ \E d \in Clients : Owed(d, w)'
      OBVIOUS
    <3>1. CASE w \notin written \/ Owed(c, w)
      BY <1>1, <3>1 DEF Owed, Running
    <3>2. CASE w \in written /\ ~Owed(c, w)
      <4>1. \/ Recorded(w) \/ w.by \in lost \/ \E d \in Clients : d # c /\ Owed(d, w)
        BY <3>2 DEF IInv, ChangesAccounted
      <4>2. Recorded(w) => Recorded(w)'
        BY DEF Recorded
      <4>3. \A d \in Clients : d # c /\ Owed(d, w) => Owed(d, w)'
        BY <1>1 DEF Owed, Running
      <4> QED  BY <4>1, <4>2, <4>3
    <3> QED  BY <3>1, <3>2
  <2>2. \A d \in Clients, w \in written' : Owed(d, w)' => ~Recorded(w)'
    BY <1>4 DEF Owed, RequestsOK, RequestOK, Recorded
  <2>3. \A r \in stream' : r.change \in written'
    BY DEF IInv, ChangesAccounted
  <2> QED  BY <2>1, <2>2, <2>3 DEF ChangesAccounted
<1> QED  BY <1>4, <1>5, <1>6, <1>7, <1>8 DEF IInv

-----------------------------------------------------------------------------
(* Steps of a running request that neither write items nor append records. *)

LEMMA QuietStep ==
    ASSUME IInv, TypeOK',
           NEW c \in Clients, Running(c), NEW o \in Op,
           op' = [op EXCEPT ![c] = o], o.n = op[c].n,
           stream' = stream, commits' = commits, written' = written, started' = started,
           lost \subseteq lost',
           o.phase # "idle" => RequestOK(o),
           o.outcome = "replayed" => \E x \in commits : x.tok = o.tok /\ x.body = o.body,
           \/ o.phase # "idle" /\ o.owed = op[c].owed
           \/ \A i \in DOMAIN op[c].owed : op[c].owed[i].by \in lost',
           TokensOfCommits'
    PROVE  IInv'
<1>1. o.phase # "idle" => RequestOK(o)'
  BY DEF RequestOK, Recorded
<1>2. \A w \in written' : w \notin written \/ Owed(c, w) =>
               \/ Recorded(w)'
               \/ w.by \in lost'
               \/ o.phase # "idle" /\ \E i \in DOMAIN o.owed : o.owed[i] = w
  BY DEF Owed
<1>3. \A r \in stream' : r \in stream
  OBVIOUS
<1>4. IInv
  OBVIOUS
<1> QED  BY <1>1, <1>2, <1>3, <1>4, ClientStep

LEMMA RequestType ==
    ASSUME NEW phase \in Phases, NEW outcome \in Outcomes, NEW n \in Nat, NEW body \in Body,
           NEW tok \in Tokens \cup {NoToken}, NEW new \in Images
    PROVE  Request(phase, outcome, n, body, tok, new) \in Op
BY DEF Request, Op, Images

\* A request that owes nothing is answered.
LEMMA AnswerStep ==
    ASSUME IInv, NEW c \in Clients, Running(c), NEW outcome \in Outcomes,
           Answer(c, outcome),
           items' = items, stream' = stream, commits' = commits, written' = written,
           started' = started, now' = now, tangled' = tangled, lost' = lost,
           tokens' \in [Tokens -> Token \cup {NoToken}], TokensOfCommits',
           op[c].owed = <<>>,
           outcome = "replayed" => \E x \in commits : x.tok = op[c].tok /\ x.body = op[c].body
    PROVE  IInv'
<1> op \in [Clients -> Op]
  BY DEF IInv, TypeOK
<1>1. PICK o \in Op : o = Request("idle", outcome, op[c].n, op[c].body, op[c].tok, NoItem)
  <2>1. op[c].n \in Nat /\ op[c].body \in Body /\ op[c].tok \in Tokens \cup {NoToken}
    BY DEF Op
  <2>2. "idle" \in Phases /\ NoItem \in Images
    BY DEF Phases, Images
  <2> QED  BY <2>1, <2>2, RequestType
<1>2. op' = [op EXCEPT ![c] = o]
  BY <1>1 DEF Answer
<1>3. o.phase = "idle" /\ o.outcome = outcome /\ o.n = op[c].n /\ o.tok = op[c].tok /\ o.body = op[c].body
  BY <1>1 DEF Request
<1>4. TypeOK'
  BY <1>2 DEF IInv, TypeOK
<1>5. \A i \in DOMAIN op[c].owed : op[c].owed[i].by \in lost'
  OBVIOUS
<1>6. lost \subseteq lost'
  OBVIOUS
<1> QED  BY <1>2, <1>3, <1>4, <1>5, <1>6, QuietStep

\* A request goes on to its next phase and owes what it owed.
LEMMA MoveStep ==
    ASSUME IInv, NEW c \in Clients, Running(c), NEW o \in Op,
           op' = [op EXCEPT ![c] = o],
           items' = items, stream' = stream, commits' = commits, written' = written,
           started' = started, now' = now, tangled' = tangled, lost' = lost,
           tokens' \in [Tokens -> Token \cup {NoToken}], TokensOfCommits',
           o.n = op[c].n, o.owed = op[c].owed, o.phase # "idle",
           RequestOK(o)
    PROVE  IInv'
<1>1. TypeOK'
  BY DEF IInv, TypeOK
<1>2. o.outcome # "replayed"
  BY DEF RequestOK
<1> QED  BY <1>1, <1>2, QuietStep

LEMMA TokensStay ==
    ASSUME IInv, tokens' = tokens, commits \subseteq commits'
    PROVE  TokensOfCommits' /\ tokens' \in [Tokens -> Token \cup {NoToken}]
BY DEF IInv, TypeOK, TokensOfCommits

\* What is known of the request c is running.
LEMMA OfRunning ==
    ASSUME IInv, NEW c \in Clients, Running(c)
    PROVE  op \in [Clients -> Op] /\ op[c] \in Op /\ RequestOK(op[c]) /\ op[c].phase # "idle"
BY DEF IInv, TypeOK, RequestsOK, Running

\* A request that owes nothing yet moves to phase, with the images it read.
LEMMA ReadingStep ==
    ASSUME IInv, NEW c \in Clients, op[c].phase \in Uncommitted,
           NEW phase \in Uncommitted, NEW old \in Images, NEW new \in Images, NEW o,
           o = [op[c] EXCEPT !.phase = phase, !.old = old, !.new = new],
           op' = [op EXCEPT ![c] = o],
           items' = items, stream' = stream, commits' = commits, written' = written,
           started' = started, now' = now, tangled' = tangled, lost' = lost,
           tokens' \in [Tokens -> Token \cup {NoToken}], TokensOfCommits',
           phase \in SinglePhases => op[c].phase \in SinglePhases,
           phase \in TransactPhases => op[c].phase \in TransactPhases,
           phase # "token", phase = "sweep" => op[c].phase = "token"
    PROVE  IInv'
<1>1. Running(c)
  BY DEF Running, Uncommitted, SinglePhases, TransactPhases
<1>2. op \in [Clients -> Op] /\ op[c] \in Op /\ RequestOK(op[c])
  BY <1>1, OfRunning
<1>3. phase \in Phases /\ phase # "idle"
  BY DEF Uncommitted, SinglePhases, TransactPhases, Phases
<1>4. o \in Op
  BY <1>2, <1>3 DEF Op
<1>5. /\ o.phase = phase /\ o.n = op[c].n /\ o.body = op[c].body /\ o.tok = op[c].tok
      /\ o.owed = op[c].owed /\ o.outcome = op[c].outcome
  BY <1>2 DEF Op
<1>6. RequestOK(o)
  <2>1. o.n < started /\ o.outcome = "none" /\ o.owed = <<>> /\ \A w \in written : w.by # o.n
    BY <1>2, <1>5 DEF RequestOK
  <2>2. phase \notin AfterCommit /\ phase \notin AppendPhases /\ phase # "store"
    BY DEF Uncommitted, SinglePhases, TransactPhases, AfterCommit, AppendPhases
  <2>3. o.phase \in SinglePhases => o.body.writes # <<>>
    BY <1>2, <1>5 DEF RequestOK
  <2>4. o.phase \in TransactPhases => DistinctKeys(o.body)
    BY <1>2, <1>5 DEF RequestOK
  <2>5. o.phase \in {"token", "sweep", "store"} => o.tok \in Tokens
    BY <1>2, <1>5, <2>2 DEF RequestOK
  <2>6. DOMAIN o.owed = {}
    BY <2>1
  <2> QED  BY <1>5, <2>1, <2>2, <2>3, <2>4, <2>5, <2>6 DEF RequestOK
<1> QED  BY <1>1, <1>3, <1>4, <1>5, <1>6, MoveStep

\* The first write of a single-item request, and its key.
LEMMA FirstWrite ==
    ASSUME IInv, NEW c \in Clients, op[c].phase \in SinglePhases
    PROVE  /\ op[c].body.writes[1] \in Action
           /\ op[c].body.writes[1].key \in Keys
           /\ items[op[c].body.writes[1].key] \in Images
<1>1. Running(c)
  BY DEF Running, SinglePhases
<1>2. op[c].body.writes \in Seq(Action) /\ op[c].body.writes # <<>>
  BY <1>1, OfRunning DEF Op, Body, RequestOK
<1>3. op[c].body.writes[1] \in Action
  BY <1>2
<1> QED  BY <1>3 DEF Action, IInv, TypeOK

LEMMA CheckConditionOK ==
    ASSUME IInv, NEW c \in Clients, CheckCondition(c)
    PROVE  IInv'
<1>1. op[c].phase = "check" /\ Running(c)
  BY DEF CheckCondition, Running
<1>2. op \in [Clients -> Op] /\ op[c] \in Op /\ RequestOK(op[c])
  BY <1>1, OfRunning
<1>3. TokensOfCommits' /\ tokens' \in [Tokens -> Token \cup {NoToken}]
  BY TokensStay DEF CheckCondition, history
<1>4. CASE Goto(c, "read")
  <2>1. PICK o : o = [op[c] EXCEPT !.phase = "read", !.old = op[c].old, !.new = op[c].new]
    OBVIOUS
  <2>2. o = [op[c] EXCEPT !.phase = "read"]
    BY <2>1, <1>2 DEF Op
  <2>3. op' = [op EXCEPT ![c] = o]
    BY <1>4, <2>2 DEF Goto
  <2>4. op[c].old \in Images /\ op[c].new \in Images
    BY <1>2 DEF Op
  <2>5. "read" \in SinglePhases /\ "read" \in Uncommitted /\ "read" \notin TransactPhases
        /\ op[c].phase \in SinglePhases /\ op[c].phase \in Uncommitted
    BY <1>1 DEF SinglePhases, Uncommitted, TransactPhases
  <2> QED  BY <1>3, <2>1, <2>3, <2>4, <2>5, ReadingStep DEF CheckCondition, history
<1>5. CASE Answer(c, "canceled")
  <2>1. op[c].owed = <<>> /\ "canceled" \in Outcomes
    BY <1>1, <1>2 DEF RequestOK, Uncommitted, SinglePhases, Outcomes
  <2> QED  BY <1>1, <1>3, <1>5, <2>1, AnswerStep DEF CheckCondition, history
<1> QED  BY <1>4, <1>5 DEF CheckCondition

LEMMA LoadForUpdateOK ==
    ASSUME IInv, NEW c \in Clients, LoadForUpdate(c)
    PROVE  IInv'
<1> DEFINE a == op[c].body.writes[1]
<1>1. op[c].phase = "load" /\ Running(c)
  BY DEF LoadForUpdate, Running
<1>2. op \in [Clients -> Op] /\ op[c] \in Op /\ RequestOK(op[c])
  BY <1>1, OfRunning
<1>3. TokensOfCommits' /\ tokens' \in [Tokens -> Token \cup {NoToken}]
  BY TokensStay DEF LoadForUpdate, history
<1>4. CASE op' = [op EXCEPT ![c].phase = "read", ![c].new = Effect(a, items[a.key])]
  <2>1. PICK new : new = Effect(a, items[a.key])
    OBVIOUS
  <2>2. new \in Images
    BY <1>1, <2>1, FirstWrite, EffectType DEF SinglePhases
  <2>3. PICK o : o = [op[c] EXCEPT !.phase = "read", !.old = op[c].old, !.new = new]
    OBVIOUS
  <2> HIDE DEF a
  <2>4. o = [[op[c] EXCEPT !.phase = "read"] EXCEPT !.new = new]
    BY <2>3, <1>2 DEF Op
  <2>5. op' = [op EXCEPT ![c] = o]
    BY <1>2, <1>4, <2>1, <2>4
  <2>6. op[c].old \in Images
    BY <1>2 DEF Op
  <2>7. "read" \in SinglePhases /\ "read" \in Uncommitted /\ "read" \notin TransactPhases
        /\ op[c].phase \in SinglePhases /\ op[c].phase \in Uncommitted
    BY <1>1 DEF SinglePhases, Uncommitted, TransactPhases
  <2> QED  BY <1>3, <2>2, <2>3, <2>5, <2>6, <2>7, ReadingStep DEF LoadForUpdate, history
<1>5. CASE Answer(c, "canceled")
  <2>1. op[c].owed = <<>> /\ "canceled" \in Outcomes
    BY <1>1, <1>2 DEF RequestOK, Uncommitted, SinglePhases, Outcomes
  <2> QED  BY <1>1, <1>3, <1>5, <2>1, AnswerStep DEF LoadForUpdate, history
<1> QED  BY <1>4, <1>5 DEF LoadForUpdate

LEMMA ReadOldOK ==
    ASSUME IInv, NEW c \in Clients, ReadOld(c)
    PROVE  IInv'
<1>1. op[c].phase = "read" /\ Running(c)
  BY DEF ReadOld, Running
<1>2. op \in [Clients -> Op] /\ op[c] \in Op /\ RequestOK(op[c])
  BY <1>1, OfRunning
<1>3. TokensOfCommits' /\ tokens' \in [Tokens -> Token \cup {NoToken}]
  BY TokensStay DEF ReadOld, history
<1>4. PICK old \in Images : old = items[op[c].body.writes[1].key]
  BY <1>1, FirstWrite DEF SinglePhases
<1>5. PICK o : o = [op[c] EXCEPT !.phase = "write", !.old = old, !.new = op[c].new]
  OBVIOUS
<1>6. op' = [op EXCEPT ![c] = o]
  <2>1. o = [[op[c] EXCEPT !.phase = "write"] EXCEPT !.old = old]
    BY <1>2, <1>5 DEF Op
  <2>2. op' = [op EXCEPT ![c].phase = "write", ![c].old = old]
    BY <1>4 DEF ReadOld
  <2> QED  BY <1>2, <2>1, <2>2
<1>7. op[c].new \in Images
  BY <1>2 DEF Op
<1>8. "write" \in SinglePhases /\ "write" \in Uncommitted /\ "write" \notin TransactPhases
      /\ op[c].phase \in SinglePhases /\ op[c].phase \in Uncommitted
  BY <1>1 DEF SinglePhases, Uncommitted, TransactPhases
<1>9. /\ items' = items /\ stream' = stream /\ commits' = commits /\ written' = written
      /\ started' = started /\ now' = now /\ tangled' = tangled /\ lost' = lost
  BY DEF ReadOld, history
<1> QED  BY <1>3, <1>5, <1>6, <1>7, <1>8, <1>9, ReadingStep

-----------------------------------------------------------------------------
(* The token of a transaction.                                             *)

LEMMA CheckTokenOK ==
    ASSUME IInv, NEW c \in Clients, CheckToken(c)
    PROVE  IInv'
<1> DEFINE row == tokens[op[c].tok]
<1>1. op[c].phase = "token" /\ Running(c)
  BY DEF CheckToken, Running
<1>2. op \in [Clients -> Op] /\ op[c] \in Op /\ RequestOK(op[c])
  BY <1>1, OfRunning
<1>3. TokensOfCommits' /\ tokens' \in [Tokens -> Token \cup {NoToken}]
  BY TokensStay DEF CheckToken, history
<1>4. op[c].owed = <<>> /\ op[c].tok \in Tokens
  BY <1>1, <1>2 DEF RequestOK, Uncommitted, TransactPhases
<1>5. /\ items' = items /\ stream' = stream /\ commits' = commits /\ written' = written
      /\ started' = started /\ now' = now /\ tangled' = tangled /\ lost' = lost
  BY DEF CheckToken, history
<1>6. ASSUME NEW phase \in {"apply", "sweep"}, Goto(c, phase)
      PROVE  IInv'
  <2>1. PICK o : o = [op[c] EXCEPT !.phase = phase, !.old = op[c].old, !.new = op[c].new]
    OBVIOUS
  <2>2. o = [op[c] EXCEPT !.phase = phase]
    BY <2>1, <1>2 DEF Op
  <2>3. op' = [op EXCEPT ![c] = o]
    BY <1>6, <2>2 DEF Goto
  <2>4. op[c].old \in Images /\ op[c].new \in Images
    BY <1>2 DEF Op
  <2>5. phase \notin SinglePhases /\ phase \in Uncommitted /\ phase # "token"
        /\ op[c].phase \in TransactPhases /\ op[c].phase \in Uncommitted
    BY <1>1 DEF SinglePhases, Uncommitted, TransactPhases
  <2> QED  BY <1>1, <1>3, <1>5, <2>1, <2>3, <2>4, <2>5, ReadingStep
<1>7. CASE Answer(c, "replayed") /\ row # NoToken /\ row.body = op[c].body
  <2>1. \E x \in commits : x.tok = op[c].tok /\ x.body = op[c].body
    BY <1>4, <1>7 DEF IInv, TokensOfCommits
  <2>2. "replayed" \in Outcomes
    BY DEF Outcomes
  <2> QED  BY <1>1, <1>3, <1>4, <1>5, <1>7, <2>1, <2>2, AnswerStep
<1>8. CASE Answer(c, "mismatch")
  <2>1. "mismatch" \in Outcomes
    BY DEF Outcomes
  <2> QED  BY <1>1, <1>3, <1>4, <1>5, <1>8, <2>1, AnswerStep
<1>9. \/ Goto(c, "apply") \/ Goto(c, "sweep")
      \/ Answer(c, "replayed") /\ row # NoToken /\ row.body = op[c].body
      \/ Answer(c, "mismatch")
  BY DEF CheckToken
<1> QED  BY <1>6, <1>7, <1>8, <1>9

LEMMA SweepTokenOK ==
    ASSUME IInv, NEW c \in Clients, SweepToken(c)
    PROVE  IInv'
<1>1. op[c].phase = "sweep" /\ Running(c)
  BY DEF SweepToken, Running
<1>2. op \in [Clients -> Op] /\ op[c] \in Op /\ RequestOK(op[c])
  BY <1>1, OfRunning
<1>3. tokens' \in [Tokens -> Token \cup {NoToken}]
  BY DEF SweepToken, IInv, TypeOK
<1>4. TokensOfCommits'
  <2>1. \A t \in Tokens : tokens'[t] # NoToken => tokens'[t] = tokens[t]
    BY DEF SweepToken, IInv, TypeOK
  <2> QED  BY <2>1 DEF SweepToken, history, IInv, TokensOfCommits
<1>5. PICK o : o = [op[c] EXCEPT !.phase = "apply", !.old = op[c].old, !.new = op[c].new]
  OBVIOUS
<1>6. op' = [op EXCEPT ![c] = o]
  <2>1. o = [op[c] EXCEPT !.phase = "apply"]
    BY <1>2, <1>5 DEF Op
  <2> QED  BY <2>1 DEF SweepToken, Goto
<1>7. op[c].old \in Images /\ op[c].new \in Images
  BY <1>2 DEF Op
<1>8. "apply" \notin SinglePhases /\ "apply" \in Uncommitted
      /\ op[c].phase \in TransactPhases /\ op[c].phase \in Uncommitted
  BY <1>1 DEF SinglePhases, Uncommitted, TransactPhases
<1>9. /\ items' = items /\ stream' = stream /\ commits' = commits /\ written' = written
      /\ started' = started /\ now' = now /\ tangled' = tangled /\ lost' = lost
  BY DEF SweepToken, history
<1> QED  BY <1>3, <1>4, <1>5, <1>6, <1>7, <1>8, <1>9, ReadingStep

\* The row that is stored is that of a request that committed.
LEMMA StoreTokenOK ==
    ASSUME IInv, NEW c \in Clients, StoreToken(c)
    PROVE  IInv'
<1>1. op[c].phase = "store" /\ Running(c)
  BY DEF StoreToken, Running
<1>2. op \in [Clients -> Op] /\ op[c] \in Op /\ RequestOK(op[c])
  BY <1>1, OfRunning
<1>3. PICK row \in Token : row = [body |-> op[c].body, at |-> now]
  BY <1>2 DEF Op, Token, IInv, TypeOK
<1>4. tokens' = [tokens EXCEPT ![op[c].tok] = row] /\ op[c].tok \in Tokens
  BY <1>1, <1>2, <1>3 DEF StoreToken, RequestOK
<1>5. tokens' \in [Tokens -> Token \cup {NoToken}]
  BY <1>4 DEF IInv, TypeOK
<1>6. TokensOfCommits'
  <2>1. \E x \in commits : x.tok = op[c].tok /\ x.body = row.body
    BY <1>1, <1>2, <1>3 DEF RequestOK, AfterCommit
  <2>2. \A t \in Tokens : tokens'[t] = IF t = op[c].tok THEN row ELSE tokens[t]
    BY <1>4 DEF IInv, TypeOK
  <2>3. commits' = commits
    BY DEF StoreToken, history
  <2> QED  BY <2>1, <2>2, <2>3 DEF IInv, TokensOfCommits
<1>7. op[c].owed = <<>> /\ "ok" \in Outcomes
  BY <1>1, <1>2 DEF RequestOK, Outcomes
<1>8. /\ items' = items /\ stream' = stream /\ commits' = commits /\ written' = written
      /\ started' = started /\ now' = now /\ tangled' = tangled /\ lost' = lost
  BY DEF StoreToken, history
<1>9. Answer(c, "ok")
  BY DEF StoreToken
<1> QED  BY <1>1, <1>5, <1>6, <1>7, <1>8, <1>9, AnswerStep

-----------------------------------------------------------------------------
(* Committing, recording, failing.                                         *)

LEMMA ProceedRequest ==
    ASSUME IInv, NEW c \in Clients, Running(c), NEW owed \in Seq(Changes), Proceed(c, owed)
    PROVE  \E o \in Op :
             /\ op' = [op EXCEPT ![c] = o]
             /\ o.n = op[c].n /\ o.body = op[c].body /\ o.tok = op[c].tok /\ o.owed = owed
             /\ o.phase = "idle" => owed = <<>> /\ o.tok = NoToken
             /\ o.phase # "idle" => /\ o.phase = IF owed = <<>> THEN "store" ELSE "ord"
                                    /\ o.outcome = "none"
                                    /\ owed = <<>> => o.tok \in Tokens
             /\ o.outcome # "replayed"
<1> op \in [Clients -> Op] /\ op[c] \in Op /\ RequestOK(op[c])
  BY OfRunning
<1>1. CASE owed = <<>> /\ op[c].tok = NoToken
  <2>1. PICK o : o = Request("idle", "ok", op[c].n, op[c].body, op[c].tok, NoItem)
    OBVIOUS
  <2>2. o \in Op
    <3>1. op[c].n \in Nat /\ op[c].body \in Body /\ op[c].tok \in Tokens \cup {NoToken}
      BY DEF Op
    <3>2. "idle" \in Phases /\ "ok" \in Outcomes /\ NoItem \in Images
      BY DEF Phases, Outcomes, Images
    <3> QED  BY <2>1, <3>1, <3>2, RequestType
  <2>3. op' = [op EXCEPT ![c] = o]
    BY <1>1, <2>1 DEF Proceed, Answer
  <2>4. /\ o.n = op[c].n /\ o.body = op[c].body /\ o.tok = op[c].tok /\ o.owed = <<>>
        /\ o.phase = "idle" /\ o.outcome = "ok"
    BY <2>1 DEF Request
  <2> QED  BY <1>1, <2>2, <2>3, <2>4
<1>2. CASE ~(owed = <<>> /\ op[c].tok = NoToken)
  <2>1. PICK phase : phase = IF owed = <<>> THEN "store" ELSE "ord"
    OBVIOUS
  <2>2. PICK o : o = [op[c] EXCEPT !.owed = owed, !.phase = phase]
    OBVIOUS
  <2>3. phase \in Phases /\ phase # "idle"
    BY <2>1 DEF Phases
  <2>4. o \in Op
    BY <2>2, <2>3 DEF Op
  <2>5. op' = [op EXCEPT ![c] = o]
    BY <1>2, <2>1, <2>2 DEF Proceed
  <2>6. /\ o.n = op[c].n /\ o.body = op[c].body /\ o.tok = op[c].tok /\ o.owed = owed
        /\ o.phase = phase /\ o.outcome = op[c].outcome
    BY <2>2 DEF Op
  <2>7. o.outcome = "none"
    BY <2>6 DEF RequestOK
  <2>8. owed = <<>> => o.tok \in Tokens
    BY <1>2, <2>6 DEF Op
  <2> QED  BY <2>1, <2>3, <2>4, <2>5, <2>6, <2>7, <2>8
<1> QED  BY <1>1, <1>2

\* The write of c's request takes effect.
LEMMA CommitStep ==
    ASSUME IInv, NEW c \in Clients, op[c].phase \in Uncommitted,
           NEW owed \in Seq(Changes),
           \A i \in DOMAIN owed : owed[i].by = op[c].n,
           \A i, j \in DOMAIN owed : i # j => owed[i] # owed[j],
           Committed(c, owed), Proceed(c, owed),
           items' \in [Keys -> Images], stream' = stream, tokens' = tokens, now' = now,
           started' = started, tangled' = tangled, lost' = lost
    PROVE  IInv'
<1>1. Running(c)
  BY DEF Running, Uncommitted, SinglePhases, TransactPhases
<1>2. op \in [Clients -> Op] /\ op[c] \in Op /\ RequestOK(op[c])
  BY <1>1, OfRunning
<1>3. PICK o \in Op :
         /\ op' = [op EXCEPT ![c] = o]
         /\ o.n = op[c].n /\ o.body = op[c].body /\ o.tok = op[c].tok /\ o.owed = owed
         /\ o.phase = "idle" => owed = <<>>
         /\ o.phase # "idle" => /\ o.phase = IF owed = <<>> THEN "store" ELSE "ord"
                                /\ o.outcome = "none"
                                /\ owed = <<>> => o.tok \in Tokens
         /\ o.outcome # "replayed"
  BY <1>1, ProceedRequest
<1>4. PICK x \in Commit : x = [n |-> op[c].n, body |-> op[c].body, tok |-> op[c].tok, at |-> now]
  BY <1>2 DEF Op, Commit, IInv, TypeOK
<1>5. commits' = commits \cup {x} /\ x.n = op[c].n /\ x.tok = op[c].tok /\ x.body = op[c].body
  BY <1>4 DEF Committed
<1>6. written' = written \cup {owed[i] : i \in DOMAIN owed}
  BY DEF Committed
<1>7. \A i \in DOMAIN owed : owed[i] \in Changes
  OBVIOUS
<1>8. TypeOK'
  BY <1>3, <1>5, <1>6, <1>7 DEF IInv, TypeOK
<1>9. \A w \in written' : w \in written \/ (w.by = op[c].n /\ Running(c))
  BY <1>1, <1>6
<1>10. \A w \in written : w.by # op[c].n
  BY <1>2 DEF RequestOK
<1>11. \A i \in DOMAIN owed : owed[i] \in written' /\ owed[i] \notin written /\ ~Recorded(owed[i])'
  <2>1. \A i \in DOMAIN owed : owed[i] \in written' /\ owed[i] \notin written
    BY <1>6, <1>10
  <2>2. \A r \in stream : r.change \in written
    BY DEF IInv, ChangesAccounted
  <2> QED  BY <2>1, <2>2 DEF Recorded
<1>12. o.phase # "idle" => RequestOK(o)'
  <2> SUFFICES ASSUME o.phase # "idle" PROVE RequestOK(o)'
    OBVIOUS
  <2>1. o.phase \in {"store", "ord"}
    BY <1>3
  <2>2. /\ o.phase \notin SinglePhases /\ o.phase \notin TransactPhases /\ o.phase \notin Uncommitted
        /\ o.phase \in AppendPhases => owed # <<>>
        /\ o.phase = "store" => owed = <<>> /\ o.tok \in Tokens
        /\ o.phase \notin {"token", "sweep"}
    BY <2>1, <1>3 DEF SinglePhases, TransactPhases, Uncommitted, AppendPhases
  <2>3. o.n < started' /\ o.outcome = "none"
    BY <1>2, <1>3 DEF RequestOK
  <2>4. \A i \in DOMAIN o.owed : o.owed[i] \in written' /\ o.owed[i].by = o.n /\ ~Recorded(o.owed[i])'
    BY <1>3, <1>11 DEF Recorded
  <2> QED  BY <1>3, <1>5, <2>2, <2>3, <2>4 DEF RequestOK, Recorded
<1>13. \A w \in written' : w \notin written \/ Owed(c, w) =>
          o.phase # "idle" /\ \E i \in DOMAIN o.owed : o.owed[i] = w
  <2>1. ~\E w : Owed(c, w)
    BY <1>2 DEF Owed, RequestOK
  <2>2. owed = <<>> => written' = written
    BY <1>6
  <2> QED  BY <1>3, <1>6, <2>1, <2>2
<1>14. TokensOfCommits'
  BY <1>5, TokensStay
<1>15. /\ commits \subseteq commits'
       /\ \A y \in commits' : y \in commits \/ (y.n = op[c].n /\ Running(c))
  BY <1>1, <1>5
<1>16. written \subseteq written'
  BY <1>6
<1>17. /\ stream \subseteq stream' /\ lost \subseteq lost'
       /\ \A r \in stream' : r \in stream \/ (r.change \in written' /\ r.change.by = op[c].n /\ Running(c))
  OBVIOUS
<1>18. /\ op' = [op EXCEPT ![c] = o] /\ Running(c) /\ o.n = op[c].n /\ started' = started
       /\ o.outcome = "replayed" => \E y \in commits' : y.tok = o.tok /\ y.body = o.body
  BY <1>1, <1>3
<1>19. \A w \in written' : w \notin written \/ Owed(c, w) =>
               \/ Recorded(w)'
               \/ w.by \in lost'
               \/ o.phase # "idle" /\ \E i \in DOMAIN o.owed : o.owed[i] = w
  BY <1>13
<1> QED
  BY <1>8, <1>9, <1>12, <1>14, <1>15, <1>16, <1>17, <1>18, <1>19, ClientStep

LEMMA WriteItemOK ==
    ASSUME IInv, NEW c \in Clients, WriteItem(c)
    PROVE  IInv'
<1> DEFINE a == op[c].body.writes[1]
<1>1. op[c].phase = "write" /\ op[c].phase \in SinglePhases /\ op[c].phase \in Uncommitted /\ Running(c)
  BY DEF WriteItem, Running, SinglePhases, Uncommitted
<1>2. op[c] \in Op
  BY <1>1, OfRunning
<1>3. a \in Action /\ op[c].n \in Nat /\ op[c].old \in Images /\ op[c].new \in Images
  BY <1>1, <1>2, FirstWrite DEF Op
<1>4. PICK ch \in Changes : ch = Change(op[c].n, a, op[c].old, op[c].new)
  BY <1>3, ChangeType
<1>5. ch.by = op[c].n
  BY <1>4 DEF Change
<1>6. PICK owed \in Seq(Changes) : owed = <<ch>> /\ DOMAIN owed = {1} /\ owed[1] = ch
  <2>1. <<ch>> \in Seq(Changes) /\ DOMAIN <<ch>> = {1} /\ <<ch>>[1] = ch
    OBVIOUS
  <2> QED  BY <2>1
<1>7. /\ \A i \in DOMAIN owed : owed[i].by = op[c].n
      /\ \A i, j \in DOMAIN owed : i # j => owed[i] # owed[j]
  BY <1>5, <1>6
<1>8. Committed(c, owed) /\ Proceed(c, owed)
  BY <1>4, <1>6 DEF WriteItem
<1>9. items' \in [Keys -> Images]
  <2>1. items' = [items EXCEPT ![a.key] = op[c].new]
    BY DEF WriteItem
  <2> QED  BY <1>3, <2>1 DEF IInv, TypeOK
<1>10. /\ stream' = stream /\ tokens' = tokens /\ now' = now
       /\ started' = started /\ tangled' = tangled /\ lost' = lost
  BY DEF WriteItem
<1> QED  BY <1>1, <1>7, <1>8, <1>9, <1>10, CommitStep

\* The changes of a transaction are of different items.
LEMMA ChangesOfOK ==
    ASSUME TypeOK, NEW n \in Nat, NEW body \in Body, DistinctKeys(body)
    PROVE  \E owed \in Seq(Changes) :
             /\ owed = ChangesOf(n, body.writes)
             /\ \A i \in DOMAIN owed : owed[i].by = n
             /\ \A i, j \in DOMAIN owed : i # j => owed[i] # owed[j]
<1> DEFINE writes == body.writes
<1>1. writes \in Seq(Action)
  BY DEF Body
<1>2. \A i \in DOMAIN writes : writes[i] \in Action
  BY <1>1
<1> HIDE DEF writes
<1>3. PICK f : f = ChangesOf(n, writes)
  OBVIOUS
<1>4. DOMAIN f = DOMAIN writes
  BY <1>3 DEF ChangesOf
<1>5. \A i \in DOMAIN f :
        f[i] = Change(n, writes[i], items[writes[i].key], Effect(writes[i], items[writes[i].key]))
  BY <1>3 DEF ChangesOf
<1>6. \A i \in DOMAIN f : f[i] \in Changes /\ f[i].by = n /\ f[i].key = writes[i].key
  <2> SUFFICES ASSUME NEW i \in DOMAIN f
               PROVE  f[i] \in Changes /\ f[i].by = n /\ f[i].key = writes[i].key
    OBVIOUS
  <2>1. PICK a \in Action : a = writes[i]
    BY <1>2, <1>4
  <2>2. PICK old \in Images : old = items[a.key]
    BY DEF TypeOK, Action
  <2>3. PICK new \in Images : new = Effect(a, old)
    BY EffectType
  <2>4. f[i] = Change(n, a, old, new)
    BY <1>5, <2>1, <2>2, <2>3
  <2>5. f[i] \in Changes
    BY <2>4, ChangeType
  <2> QED  BY <2>1, <2>4, <2>5 DEF Change
<1>7. f \in Seq(Changes)
  <2>1. PICK m \in Nat : DOMAIN writes = 1 .. m
    BY <1>1
  <2>2. f \in [1 .. m -> Changes]
    <3>1. f = [i \in DOMAIN f |-> f[i]]
      BY <1>3 DEF ChangesOf
    <3> QED  BY <1>4, <1>6, <2>1, <3>1
  <2> QED  BY <2>2
<1>8. \A i, j \in DOMAIN f : i # j => f[i] # f[j]
  BY <1>4, <1>6 DEF DistinctKeys, writes
<1> QED  BY <1>3, <1>6, <1>7, <1>8 DEF writes

LEMMA ApplyOK ==
    ASSUME IInv, NEW c \in Clients, Apply(c)
    PROVE  IInv'
<1>1. /\ op[c].phase = "apply" /\ op[c].phase \in TransactPhases /\ op[c].phase \in Uncommitted
      /\ Running(c)
  BY DEF Apply, Running, TransactPhases, Uncommitted
<1>2. op[c] \in Op /\ RequestOK(op[c])
  BY <1>1, OfRunning
<1>3. op[c].n \in Nat /\ op[c].body \in Body /\ DistinctKeys(op[c].body) /\ op[c].owed = <<>>
  BY <1>1, <1>2 DEF Op, RequestOK
<1>4. PICK owed \in Seq(Changes) :
         /\ owed = ChangesOf(op[c].n, op[c].body.writes)
         /\ \A i \in DOMAIN owed : owed[i].by = op[c].n
         /\ \A i, j \in DOMAIN owed : i # j => owed[i] # owed[j]
  BY <1>3, ChangesOfOK DEF IInv
<1>5. /\ \A i \in DOMAIN owed : owed[i].by = op[c].n
      /\ \A i, j \in DOMAIN owed : i # j => owed[i] # owed[j]
  BY <1>4
<1>6. stream' = stream /\ tokens' = tokens /\ now' = now
      /\ started' = started /\ tangled' = tangled /\ lost' = lost
  BY DEF Apply
<1>7. CASE Committed(c, owed) /\ Proceed(c, owed)
           /\ items' = [k \in Keys |->
                       IF \E i \in DOMAIN owed : owed[i].key = k
                         THEN (CHOOSE ch \in {owed[i] : i \in DOMAIN owed} : ch.key = k).new
                         ELSE items[k]]
  <2>1. \A k \in Keys : (\E i \in DOMAIN owed : owed[i].key = k) =>
          (CHOOSE ch \in {owed[i] : i \in DOMAIN owed} : ch.key = k).new \in Images
    <3> SUFFICES ASSUME NEW k \in Keys, \E i \in DOMAIN owed : owed[i].key = k
                 PROVE  (CHOOSE ch \in {owed[i] : i \in DOMAIN owed} : ch.key = k).new \in Images
      OBVIOUS
    <3> DEFINE S == {owed[i] : i \in DOMAIN owed}
    <3>1. \E ch \in S : ch.key = k
      OBVIOUS
    <3>2. S \subseteq Changes
      OBVIOUS
    <3> HIDE DEF S
    <3>3. (CHOOSE ch \in S : ch.key = k) \in S
      BY <3>1
    <3>4. (CHOOSE ch \in S : ch.key = k) \in Changes
      BY <3>2, <3>3
    <3>5. (CHOOSE ch \in S : ch.key = k).new \in Images
      BY <3>4 DEF Changes
    <3> QED  BY <3>5 DEF S
  <2>2. \A k \in Keys : items[k] \in Images
    BY DEF IInv, TypeOK
  <2>3. items' \in [Keys -> Images]
    BY <1>7, <2>1, <2>2
  <2> QED  BY <1>1, <1>5, <1>6, <1>7, <2>3, CommitStep
<1>8. CASE Answer(c, "canceled") /\ UNCHANGED <<items, commits, written>>
  <2>1. TokensOfCommits' /\ tokens' \in [Tokens -> Token \cup {NoToken}]
    BY <1>6, <1>8, TokensStay
  <2>2. "canceled" \in Outcomes
    BY DEF Outcomes
  <2> QED  BY <1>1, <1>3, <1>6, <1>8, <2>1, <2>2, AnswerStep
<1> QED  BY <1>4, <1>7, <1>8 DEF Apply

LEMMA ReadOrdOK ==
    ASSUME IInv, NEW c \in Clients, ReadOrd(c)
    PROVE  IInv'
<1>1. op[c].phase = "ord" /\ Running(c)
  BY DEF ReadOrd, Running
<1>2. op \in [Clients -> Op] /\ op[c] \in Op /\ RequestOK(op[c])
  BY <1>1, OfRunning
<1>3. PICK ord \in Nat : ord = NextOrd(stream)
  BY NextOrdType DEF IInv
<1>4. PICK o : o = [op[c] EXCEPT !.phase = "append", !.ord = ord]
  OBVIOUS
<1>5. op' = [op EXCEPT ![c] = o]
  BY <1>3, <1>4 DEF ReadOrd
<1>6. o \in Op
  BY <1>2, <1>4 DEF Op, Phases
<1>7. /\ o.phase = "append" /\ o.n = op[c].n /\ o.body = op[c].body /\ o.tok = op[c].tok
      /\ o.owed = op[c].owed /\ o.outcome = op[c].outcome
  BY <1>2, <1>4 DEF Op
<1>8. RequestOK(o)
  <2>1. "append" \notin Uncommitted /\ "append" \notin SinglePhases /\ "append" \notin TransactPhases
        /\ op[c].phase \in AppendPhases /\ op[c].phase \in AfterCommit
    BY <1>1 DEF Uncommitted, SinglePhases, TransactPhases, AppendPhases, AfterCommit
  <2> QED  BY <1>2, <1>7, <2>1 DEF RequestOK
<1>9. TokensOfCommits' /\ tokens' \in [Tokens -> Token \cup {NoToken}]
  BY TokensStay DEF ReadOrd, history
<1>10. /\ items' = items /\ stream' = stream /\ commits' = commits /\ written' = written
       /\ started' = started /\ now' = now /\ tangled' = tangled /\ lost' = lost
  BY DEF ReadOrd, history
<1> QED  BY <1>1, <1>5, <1>6, <1>7, <1>8, <1>9, <1>10, MoveStep

\* The record at the head of what is owed reaches the stream; it differs from
\* the others.
LEMMA AppendRecordOK ==
    ASSUME IInv, NEW c \in Clients, AppendRecord(c)
    PROVE  IInv'
<1>1. op[c].phase = "append" /\ Running(c) /\ op[c].phase \in AppendPhases /\ op[c].phase \in AfterCommit
  BY DEF AppendRecord, Running, AppendPhases, AfterCommit
<1>2. op[c] \in Op /\ RequestOK(op[c])
  BY <1>1, OfRunning
<1>3. PICK owed \in Seq(Changes) : owed = op[c].owed /\ owed # <<>>
  BY <1>1, <1>2 DEF Op, RequestOK
<1>4. PICK rest \in Seq(Changes) : rest = Tail(owed)
  <2>1. Tail(owed) \in Seq(Changes)
    BY <1>3, HeadTailProperties
  <2> QED  BY <2>1
<1>5. /\ owed[1] \in Changes /\ Head(owed) = owed[1] /\ 1 \in DOMAIN owed
      /\ \A i \in DOMAIN rest : rest[i] = owed[i + 1] /\ i + 1 \in DOMAIN owed /\ i + 1 # 1
      /\ \A i \in DOMAIN owed : i = 1 \/ \E j \in DOMAIN rest : j + 1 = i
  <2>1. Len(owed) \in Nat /\ Len(owed) # 0 /\ DOMAIN owed = 1 .. Len(owed)
    BY <1>3
  <2>2. DOMAIN rest = 1 .. (Len(owed) - 1) /\ \A i \in 1 .. (Len(owed) - 1) : rest[i] = owed[i + 1]
    BY <1>3, <1>4, <2>1
  <2>3. owed[1] \in Changes /\ Head(owed) = owed[1]
    BY <1>3, <2>1
  <2>4. \A i \in DOMAIN owed : i = 1 \/ (i - 1 \in DOMAIN rest /\ (i - 1) + 1 = i)
    BY <2>1, <2>2
  <2> QED  BY <2>1, <2>2, <2>3, <2>4
<1>6. Proceed(c, rest)
  BY <1>3, <1>4 DEF AppendRecord
<1>7. PICK o \in Op :
         /\ op' = [op EXCEPT ![c] = o]
         /\ o.n = op[c].n /\ o.body = op[c].body /\ o.tok = op[c].tok /\ o.owed = rest
         /\ o.phase = "idle" => rest = <<>>
         /\ o.phase # "idle" => /\ o.phase = IF rest = <<>> THEN "store" ELSE "ord"
                                /\ o.outcome = "none"
                                /\ rest = <<>> => o.tok \in Tokens
         /\ o.outcome # "replayed"
  BY <1>1, <1>6, ProceedRequest
<1>8. PICK r : r = [ord |-> op[c].ord, change |-> owed[1]]
  OBVIOUS
<1>9. stream' = stream \cup {r} /\ r.change = owed[1] /\ r \in Record
  <2>1. r \in Record /\ r.change = owed[1]
    BY <1>2, <1>5, <1>8 DEF Record, Op
  <2> QED  BY <1>3, <1>5, <1>8, <2>1 DEF AppendRecord
<1>10. /\ items' = items /\ tokens' = tokens /\ commits' = commits /\ written' = written
       /\ started' = started /\ now' = now /\ tangled' = tangled /\ lost' = lost
  BY DEF AppendRecord, history
<1>11. \A i \in DOMAIN owed : owed[i] \in written /\ owed[i].by = op[c].n /\ ~Recorded(owed[i])
  BY <1>2, <1>3 DEF RequestOK
<1>12. \A i, j \in DOMAIN owed : i # j => owed[i] # owed[j]
  BY <1>2, <1>3 DEF RequestOK
<1>13. TypeOK'
  <2>1. IsFiniteSet(stream')
    <3>1. IsFiniteSet(stream)
      BY DEF IInv, TypeOK
    <3> QED  BY <1>9, <3>1, FS_AddElement
  <2> QED  BY <1>7, <1>9, <1>10, <2>1 DEF IInv, TypeOK
<1>14. \A i \in DOMAIN rest : rest[i] \in written /\ rest[i].by = op[c].n /\ ~Recorded(rest[i])'
  <2> SUFFICES ASSUME NEW i \in DOMAIN rest
               PROVE  rest[i] \in written /\ rest[i].by = op[c].n /\ ~Recorded(rest[i])'
    OBVIOUS
  <2>1. PICK j \in DOMAIN owed : j # 1 /\ rest[i] = owed[j]
    BY <1>5
  <2>2. PICK w : w = rest[i]
    OBVIOUS
  <2>3. w \in written /\ w.by = op[c].n /\ ~Recorded(w) /\ w # owed[1]
    BY <1>5, <1>11, <1>12, <2>1, <2>2
  <2>4. ~Recorded(w)'
    BY <1>9, <2>3 DEF Recorded
  <2> QED  BY <1>4, <2>2, <2>3, <2>4 DEF Recorded
<1>15. o.phase # "idle" => RequestOK(o)'
  <2> SUFFICES ASSUME o.phase # "idle" PROVE RequestOK(o)'
    OBVIOUS
  <2>1. o.phase \in {"store", "ord"}
    BY <1>7
  <2>2. /\ o.phase \notin SinglePhases /\ o.phase \notin TransactPhases /\ o.phase \notin Uncommitted
        /\ o.phase \in AppendPhases => rest # <<>>
        /\ o.phase = "store" => rest = <<>> /\ o.tok \in Tokens
        /\ o.phase \notin {"token", "sweep"}
    BY <2>1, <1>7 DEF SinglePhases, TransactPhases, Uncommitted, AppendPhases
  <2>3. o.n < started' /\ o.outcome = "none"
    BY <1>2, <1>7, <1>10 DEF RequestOK
  <2>4. \A i \in DOMAIN o.owed : o.owed[i] \in written' /\ o.owed[i].by = o.n /\ ~Recorded(o.owed[i])'
    BY <1>7, <1>10, <1>14 DEF Recorded
  <2>5. \A i, j \in DOMAIN rest : i # j => rest[i] # rest[j]
    <3> SUFFICES ASSUME NEW i \in DOMAIN rest, NEW j \in DOMAIN rest, i # j
                 PROVE  rest[i] # rest[j]
      OBVIOUS
    <3>1. i \in Nat /\ j \in Nat
      BY <1>4
    <3>2. i + 1 # j + 1
      BY <3>1
    <3> QED  BY <1>5, <1>12, <3>2
  <2>6. \E x \in commits' : x.n = o.n /\ x.tok = o.tok /\ x.body = o.body
    BY <1>1, <1>2, <1>7, <1>10 DEF RequestOK
  <2> QED  BY <1>7, <2>2, <2>3, <2>4, <2>5, <2>6 DEF RequestOK, Recorded
<1>16. \A w \in written' : w \notin written \/ Owed(c, w) =>
               \/ Recorded(w)'
               \/ w.by \in lost'
               \/ o.phase # "idle" /\ \E i \in DOMAIN o.owed : o.owed[i] = w
  <2> SUFFICES ASSUME NEW w, Owed(c, w)
               PROVE  Recorded(w)' \/ (o.phase # "idle" /\ \E i \in DOMAIN o.owed : o.owed[i] = w)
    BY <1>10
  <2>1. PICK i \in DOMAIN owed : owed[i] = w
    BY <1>3 DEF Owed
  <2>2. CASE i = 1
    BY <1>9, <2>1, <2>2 DEF Recorded
  <2>3. CASE i # 1
    <3>1. PICK j \in DOMAIN rest : rest[j] = w
      BY <1>5, <2>1, <2>3
    <3>2. rest # <<>>
      BY <3>1
    <3> QED  BY <1>7, <3>1, <3>2
  <2> QED  BY <2>2, <2>3
<1>17. TokensOfCommits'
  BY <1>10, TokensStay
<1>18. /\ stream \subseteq stream' /\ lost \subseteq lost'
       /\ \A s \in stream' : s \in stream \/ (s.change \in written' /\ s.change.by = op[c].n /\ Running(c))
  BY <1>1, <1>5, <1>9, <1>10, <1>11
<1>19. /\ op' = [op EXCEPT ![c] = o] /\ Running(c) /\ o.n = op[c].n /\ started' = started
       /\ o.outcome = "replayed" => \E y \in commits' : y.tok = o.tok /\ y.body = o.body
  BY <1>1, <1>7, <1>10
<1>20. /\ commits \subseteq commits' /\ \A x \in commits' : x \in commits \/ (x.n = op[c].n /\ Running(c))
       /\ written \subseteq written' /\ \A w \in written' : w \in written \/ (w.by = op[c].n /\ Running(c))
  BY <1>10
<1> QED
  BY <1>13, <1>15, <1>16, <1>17, <1>18, <1>19, <1>20, ClientStep

\* What a failing request still owes is counted as lost.
LEMMA FailOK ==
    ASSUME IInv, NEW c \in Clients, Fail(c)
    PROVE  IInv'
<1>1. Running(c)
  BY DEF Fail
<1>2. op[c] \in Op /\ RequestOK(op[c]) /\ op[c].phase # "idle" /\ op \in [Clients -> Op]
  BY <1>1, OfRunning
<1>3. PICK o : o = Request("idle", "failed", op[c].n, op[c].body, op[c].tok, NoItem)
  OBVIOUS
<1>4. o \in Op
  <2>1. op[c].n \in Nat /\ op[c].body \in Body /\ op[c].tok \in Tokens \cup {NoToken}
    BY <1>2 DEF Op
  <2>2. "idle" \in Phases /\ "failed" \in Outcomes /\ NoItem \in Images
    BY DEF Phases, Outcomes, Images
  <2> QED  BY <1>3, <2>1, <2>2, RequestType
<1>5. op' = [op EXCEPT ![c] = o]
  BY <1>3 DEF Fail, Answer
<1>6. o.phase = "idle" /\ o.outcome = "failed" /\ o.n = op[c].n
  BY <1>3 DEF Request
<1>7. /\ items' = items /\ stream' = stream /\ tokens' = tokens /\ commits' = commits
      /\ written' = written /\ started' = started /\ now' = now /\ tangled' = tangled
      /\ lost \subseteq lost'
  BY DEF Fail
<1>8. TypeOK'
  <2>1. lost' \subseteq Nat
    BY DEF Fail, IInv, TypeOK, Commit
  <2> QED  BY <1>4, <1>5, <1>7, <2>1 DEF IInv, TypeOK
<1>9. \A i \in DOMAIN op[c].owed : op[c].owed[i].by \in lost'
  <2>1. CASE op[c].phase \in Uncommitted
    BY <1>2, <2>1 DEF RequestOK
  <2>2. CASE op[c].phase \in AfterCommit
    <3>1. \E x \in commits : x.n = op[c].n
      BY <1>2, <2>2 DEF RequestOK
    <3>2. op[c].n \in lost'
      BY <3>1 DEF Fail
    <3> QED  BY <1>2, <3>2 DEF RequestOK
  <2> QED
    BY <1>2, <2>1, <2>2
    DEF Op, Phases, Uncommitted, SinglePhases, TransactPhases, AfterCommit, AppendPhases
<1>10. TokensOfCommits'
  BY <1>7, TokensStay
<1> QED  BY <1>1, <1>4, <1>5, <1>6, <1>7, <1>8, <1>9, <1>10, QuietStep

LEMMA BeginOK ==
    ASSUME IInv, NEW c \in Clients, NEW body \in Body, NEW tok \in Tokens \cup {NoToken},
           NEW new \in Images, NEW phase \in Uncommitted,
           Begin(c, body, tok, new, phase),
           phase \in SinglePhases => body.writes # <<>>,
           phase \in TransactPhases => DistinctKeys(body),
           phase \in {"token", "sweep"} => tok \in Tokens
    PROVE  IInv'
<1>1. PICK o : o = Request(phase, "none", started, body, tok, new)
  OBVIOUS
<1>2. started \in Nat /\ phase \in Phases /\ "none" \in Outcomes /\ phase # "idle"
      /\ phase \notin AfterCommit /\ phase \notin AppendPhases /\ phase # "store"
  BY DEF IInv, TypeOK, Uncommitted, SinglePhases, TransactPhases, Phases, Outcomes, AfterCommit, AppendPhases
<1>3. o \in Op
  BY <1>1, <1>2, RequestType
<1>4. /\ o.phase = phase /\ o.outcome = "none" /\ o.n = started /\ o.body = body /\ o.tok = tok
      /\ o.owed = <<>>
  BY <1>1 DEF Request
<1>5. /\ op' = [op EXCEPT ![c] = o] /\ ~Running(c) /\ started' = started + 1
      /\ items' = items /\ stream' = stream /\ tokens' = tokens /\ now' = now
      /\ commits' = commits /\ written' = written /\ lost' = lost
  BY <1>1 DEF Begin
<1>6. TypeOK'
  <2>1. \A d \in Clients : Names(op[d]) \subseteq Keys \cup Tokens
    <3> SUFFICES ASSUME NEW d \in Clients PROVE Names(op[d]) \subseteq Keys \cup Tokens
      OBVIOUS
    <3>1. op[d].body \in Body
      BY DEF IInv, TypeOK, Op
    <3>2. op[d].body.checks \subseteq Keys /\ op[d].body.writes \in Seq(Action)
      BY <3>1 DEF Body
    <3>3. \A i \in DOMAIN op[d].body.writes : op[d].body.writes[i] \in Action
      BY <3>2
    <3>4. \A i \in DOMAIN op[d].body.writes : op[d].body.writes[i].key \in Keys
      BY <3>3 DEF Action
    <3> QED  BY <3>2, <3>4 DEF Names, KeysOf
  <2>2. tangled' \subseteq Keys \cup Tokens
    BY <2>1 DEF Begin, IInv, TypeOK
  <2> QED  BY <1>2, <1>3, <1>5, <2>2 DEF IInv, TypeOK
<1>7. RequestOK(o)'
  <2>1. \A w \in written' : w.by # o.n
    BY <1>2, <1>4, <1>5 DEF IInv, NumbersBegun, TypeOK, Changes
  <2>2. o.n < started'
    BY <1>2, <1>4, <1>5
  <2> QED  BY <1>2, <1>4, <2>1, <2>2 DEF RequestOK
<1>8. \A w \in written' : w \notin written \/ Owed(c, w) =>
               \/ Recorded(w)'
               \/ w.by \in lost'
               \/ o.phase # "idle" /\ \E i \in DOMAIN o.owed : o.owed[i] = w
  BY <1>5 DEF Owed
<1>9. TokensOfCommits'
  BY <1>5, TokensStay
<1>10. /\ stream \subseteq stream' /\ lost \subseteq lost'
       /\ commits \subseteq commits' /\ written \subseteq written'
       /\ \A s \in stream' : s \in stream \/ (s.change \in written' /\ s.change.by = op[c].n /\ Running(c))
       /\ \A x \in commits' : x \in commits \/ (x.n = op[c].n /\ Running(c))
       /\ \A w \in written' : w \in written \/ (w.by = op[c].n /\ Running(c))
  BY <1>5
<1>11. /\ op' = [op EXCEPT ![c] = o] /\ ~Running(c) /\ o.n = started /\ started' = started + 1
       /\ o.outcome = "replayed" => \E y \in commits' : y.tok = o.tok /\ y.body = o.body
  BY <1>4, <1>5
<1> QED  BY <1>3, <1>6, <1>7, <1>8, <1>9, <1>10, <1>11, ClientStep

LEMMA BeginSingleOK ==
    ASSUME IInv, NEW c \in Clients, BeginSingle(c)
    PROVE  IInv'
<1>1. PICK a \in Singles : Begin(c, [checks |-> {}, writes |-> <<a>>], NoToken, Effect(a, NoItem), FirstPhase(a))
  BY DEF BeginSingle
<1>2. a \in Action /\ NoItem \in Images
  BY RequestAssumption DEF Images
<1>3. PICK body \in Body : body = [checks |-> {}, writes |-> <<a>>] /\ body.writes # <<>>
  <2>1. [checks |-> {}, writes |-> <<a>>] \in Body /\ <<a>> # <<>>
    BY <1>2 DEF Body
  <2> QED  BY <2>1
<1>4. PICK new \in Images : new = Effect(a, NoItem)
  BY <1>2, EffectType
<1>5. PICK phase \in SinglePhases : phase = FirstPhase(a)
  BY DEF FirstPhase, SinglePhases
<1>6. phase \in Uncommitted /\ phase \notin TransactPhases
  BY DEF Uncommitted, SinglePhases, TransactPhases
<1>7. Begin(c, body, NoToken, new, phase)
  BY <1>1, <1>3, <1>4, <1>5
<1>8. phase \notin {"token", "sweep"}
  BY DEF SinglePhases
<1> QED  BY <1>3, <1>6, <1>7, <1>8, BeginOK

LEMMA BeginTransactOK ==
    ASSUME IInv, NEW c \in Clients, BeginTransact(c)
    PROVE  IInv'
<1>1. PICK b \in Bodies, t \in Tokens \cup {NoToken} :
         Begin(c, b, t, NoItem, IF t = NoToken THEN "apply" ELSE "token")
  BY DEF BeginTransact
<1>2. b \in Body /\ DistinctKeys(b) /\ NoItem \in Images
  BY RequestAssumption DEF Images
<1>3. PICK phase : phase = IF t = NoToken THEN "apply" ELSE "token"
  OBVIOUS
<1>4. /\ phase \in Uncommitted /\ phase \notin SinglePhases
      /\ phase \in {"token", "sweep"} => t \in Tokens
  BY <1>3 DEF Uncommitted, SinglePhases, TransactPhases
<1> QED  BY <1>1, <1>2, <1>3, <1>4, BeginOK

LEMMA TickOK ==
    ASSUME IInv, Tick \/ UNCHANGED vars
    PROVE  IInv'
<1>1. /\ items' = items /\ stream' = stream /\ tokens' = tokens /\ op' = op
      /\ started' = started /\ commits' = commits /\ written' = written
      /\ tangled' = tangled /\ lost' = lost
  BY DEF Tick, vars, history
<1>2. now' \in Nat
  BY DEF Tick, vars, IInv, TypeOK
<1>3. TypeOK'
  BY <1>1, <1>2 DEF IInv, TypeOK
<1>4. RequestsOK'
  BY <1>1 DEF IInv, RequestsOK, RequestOK, Running, Recorded
<1>5. OwnNumbers' /\ NumbersBegun' /\ TokensOfCommits' /\ ReplayOfCommitted'
  BY <1>1 DEF IInv, OwnNumbers, NumbersBegun, TokensOfCommits, ReplayOfCommitted, Running
<1>6. ChangesAccounted'
  BY <1>1 DEF IInv, ChangesAccounted, Owed, Running, Recorded
<1> QED  BY <1>3, <1>4, <1>5, <1>6 DEF IInv

-----------------------------------------------------------------------------
LEMMA InitOK == Init => IInv
<1> SUFFICES ASSUME Init PROVE IInv
  OBVIOUS
<1>1. PICK o : o = Request("idle", "none", 0, NoBody, NoToken, NoItem)
  OBVIOUS
<1>2. o \in Op
  <2>1. "idle" \in Phases /\ "none" \in Outcomes /\ NoItem \in Images /\ 0 \in Nat
    BY DEF Phases, Outcomes, Images
  <2>2. NoBody \in Body
    BY DEF NoBody, Body
  <2> QED  BY <1>1, <2>1, <2>2, RequestType
<1>3. op = [c \in Clients |-> o] /\ o.phase = "idle" /\ o.outcome = "none"
  BY <1>1 DEF Init, Request
<1>4. TypeOK
  <2>1. IsFiniteSet(stream)
    BY FS_EmptySet DEF Init
  <2> QED  BY <1>2, <1>3, <2>1 DEF Init, TypeOK, Images
<1>5. RequestsOK /\ OwnNumbers
  BY <1>3 DEF RequestsOK, OwnNumbers, Running
<1>6. NumbersBegun /\ TokensOfCommits
  BY DEF Init, NumbersBegun, TokensOfCommits
<1>7. ReplayOfCommitted
  BY <1>3 DEF ReplayOfCommitted
<1>8. ChangesAccounted
  BY DEF Init, ChangesAccounted
<1> QED  BY <1>4, <1>5, <1>6, <1>7, <1>8 DEF IInv

LEMMA StepOK == IInv /\ [Next]_vars => IInv'
<1> SUFFICES ASSUME IInv, [Next]_vars PROVE IInv'
  OBVIOUS
<1>1. CASE Tick \/ UNCHANGED vars
  BY <1>1, TickOK
<1>2. ASSUME NEW c \in Clients, Step(c)
      PROVE  IInv'
  BY <1>2, BeginSingleOK, CheckConditionOK, LoadForUpdateOK, ReadOldOK, WriteItemOK, ReadOrdOK,
     AppendRecordOK, BeginTransactOK, CheckTokenOK, SweepTokenOK, ApplyOK, StoreTokenOK, FailOK
  DEF Step
<1> QED  BY <1>1, <1>2 DEF Next

\* The invariant the theorems rest on.
THEOREM Invariant == Spec => []IInv
<1> QED  BY InitOK, StepOK, PTL DEF Spec

\* The tables and the requests in progress keep their types.
THEOREM TypeCorrect == Spec => []TypeOK
<1>1. IInv => TypeOK
  BY DEF IInv
<1> QED  BY <1>1, Invariant, PTL

\* A replay repeats a request that committed these very actions.
THEOREM ReplaysAreCommitted == Spec => []ReplayOfCommitted
<1>1. IInv => ReplayOfCommitted
  BY DEF IInv
<1> QED  BY <1>1, Invariant, PTL

\* Every change has its record, or is owed one, or its request failed.
THEOREM ChangesAreAccounted == Spec => []ChangesAccounted
<1>1. IInv => ChangesAccounted
  BY DEF IInv
<1> QED  BY <1>1, Invariant, PTL

-----------------------------------------------------------------------------
(* A token whose requests came one after the other.                        *)

\* A key or token that never saw two requests overlap is named by one running
\* request at most.
SoloRunning ==
    \A c, d \in Clients, x \in (Keys \cup Tokens) \ tangled :
        Running(c) /\ Running(d) /\ x \in Names(op[c]) /\ x \in Names(op[d]) => c = d

SinglesUnnamed ==
    \A c \in Clients : op[c].phase \in SinglePhases => op[c].tok = NoToken

CommitsPast == \A x \in commits : x.at <= now

\* Where the request of an orderly token went past the check of its row, the
\* window of every request committed under the token has closed.
WindowClosed ==
    \A c \in Clients, x \in commits :
        op[c].phase \in {"sweep", "apply"} /\ x.tok = op[c].tok /\ x.tok # NoToken /\ Orderly(x.tok)
            => now > x.at + TTL

\* The row of an orderly token covers what was committed under it, until the
\* window closes, unless the request is still to store it.
RowCovers ==
    \A x \in commits : x.tok # NoToken /\ Orderly(x.tok) =>
        \/ tokens[x.tok] # NoToken /\ tokens[x.tok].at >= x.at
        \/ now > x.at + TTL
        \/ \E c \in Clients : op[c].phase \in AfterCommit /\ op[c].n = x.n /\ op[c].tok = x.tok

TokenInv ==
    /\ SoloRunning
    /\ SinglesUnnamed
    /\ CommitsPast
    /\ WindowClosed
    /\ RowCovers
    /\ SequentialTokenOnce

-----------------------------------------------------------------------------
(* A key whose writers came one after the other.                           *)

\* What a request owes is of keys its body names, one change of each.
OwedNamed ==
    \A c \in Clients : Running(c) =>
        /\ \A i \in DOMAIN op[c].owed : op[c].owed[i].key \in KeysOf(op[c].body)
        /\ \A i, j \in DOMAIN op[c].owed : op[c].owed[i].key = op[c].owed[j].key => i = j

\* These records in order: each tells the image the one before it left.
Linked(records) ==
    /\ \A r, s \in records : r.ord = s.ord => r = s
    /\ \A r \in records : r.change.old = Replay({s \in records : s.ord < r.ord})

Owes(c, k) == Running(c) /\ \E i \in DOMAIN op[c].owed : op[c].owed[i].key = k

\* The stream tells the item of k: all of it where no change of k is owed, and
\* up to the change that is owed otherwise.
Told(k) ==
    /\ Linked(Of(k))
    /\ \A c \in Clients : Running(c) =>
         \A i \in DOMAIN op[c].owed : op[c].owed[i].key = k =>
             op[c].owed[i].old = Replay(Of(k)) /\ op[c].owed[i].new = items[k]
    /\ (\A c \in Clients : ~Owes(c, k)) => items[k] = Replay(Of(k))

StreamTold == \A k \in Keys : Orderly(k) => Told(k)

\* The image a single-item write read is still there when it writes.
OldCurrent ==
    \A c \in Clients : op[c].phase = "write" /\ Orderly(op[c].body.writes[1].key) =>
        op[c].old = items[op[c].body.writes[1].key]

\* The ordinal a request read is above those of the keys it names.
OrdAbove ==
    \A c \in Clients, k \in Keys :
        op[c].phase = "append" /\ k \in KeysOf(op[c].body) /\ Orderly(k) =>
            \A r \in Of(k) : r.ord < op[c].ord

ReplayInv ==
    /\ SoloRunning
    /\ OwedNamed
    /\ StreamTold
    /\ OldCurrent
    /\ OrdAbove

-----------------------------------------------------------------------------
(* What each step does, as far as these invariants can tell.               *)

\* The other requests stay as they are.
OthersSame(c) == \A d \in Clients : d # c => op'[d] = op[d]

\* And c goes on with the request it was running.
SameRequest(c) ==
    /\ Running(c) /\ OthersSame(c)
    /\ op'[c].n = op[c].n /\ op'[c].body = op[c].body /\ op'[c].tok = op[c].tok

\* An answer ends the request, which owes nothing any more.
LEMMA AnswerIs ==
    ASSUME IInv, NEW c \in Clients, Running(c), NEW outcome, Answer(c, outcome)
    PROVE  SameRequest(c) /\ op'[c].phase = "idle" /\ op'[c].owed = <<>>
<1>1. op \in [Clients -> Op]
  BY OfRunning
<1>2. PICK o : o = Request("idle", outcome, op[c].n, op[c].body, op[c].tok, NoItem)
  OBVIOUS
<1>3. op' = [op EXCEPT ![c] = o]
  BY <1>2 DEF Answer
<1>4. op'[c] = o /\ OthersSame(c)
  BY <1>1, <1>3 DEF OthersSame
<1> QED  BY <1>2, <1>4 DEF Request, SameRequest

\* Going on to the next phase.
LEMMA GotoIs ==
    ASSUME IInv, NEW c \in Clients, Running(c), NEW phase, Goto(c, phase)
    PROVE  SameRequest(c) /\ op'[c].phase = phase /\ op'[c].owed = op[c].owed
<1>1. op \in [Clients -> Op] /\ op[c] \in Op
  BY OfRunning
<1>2. PICK o : o = [op[c] EXCEPT !.phase = phase]
  OBVIOUS
<1>3. op' = [op EXCEPT ![c] = o]
  BY <1>2 DEF Goto
<1>4. op'[c] = o /\ OthersSame(c)
  BY <1>1, <1>3 DEF OthersSame
<1>5. o.n = op[c].n /\ o.body = op[c].body /\ o.tok = op[c].tok /\ o.phase = phase /\ o.owed = op[c].owed
  BY <1>1, <1>2 DEF Op
<1> QED  BY <1>4, <1>5 DEF SameRequest

\* A request begins: it overlaps those that name what it names.
LEMMA BeginIs ==
    ASSUME IInv, NEW c \in Clients, BeginSingle(c) \/ BeginTransact(c)
    PROVE  /\ ~Running(c) /\ OthersSame(c) /\ op'[c].owed = <<>>
           /\ op'[c].phase \in {"check", "load", "read", "token", "apply"}
           /\ op'[c].phase # "token" => op'[c].tok = NoToken
           /\ \A x \in Names(op'[c]), d \in Clients : Running(d) /\ x \in Names(op[d]) => x \in tangled'
           /\ tangled \subseteq tangled'
           /\ items' = items /\ stream' = stream /\ tokens' = tokens /\ now' = now
           /\ commits' = commits /\ lost' = lost
<1> DEFINE Goal ==
           /\ ~Running(c) /\ OthersSame(c) /\ op'[c].owed = <<>>
           /\ op'[c].phase \in {"check", "load", "read", "token", "apply"}
           /\ op'[c].phase # "token" => op'[c].tok = NoToken
           /\ \A x \in Names(op'[c]), d \in Clients : Running(d) /\ x \in Names(op[d]) => x \in tangled'
           /\ tangled \subseteq tangled'
           /\ items' = items /\ stream' = stream /\ tokens' = tokens /\ now' = now
           /\ commits' = commits /\ lost' = lost
<1>1. ASSUME NEW body, NEW tok, NEW new, NEW phase \in {"check", "load", "read", "token", "apply"},
             Begin(c, body, tok, new, phase), phase # "token" => tok = NoToken
      PROVE  Goal
  <2>1. PICK o : o = Request(phase, "none", started, body, tok, new)
    OBVIOUS
  <2>2. op' = [op EXCEPT ![c] = o]
    BY <1>1, <2>1 DEF Begin
  <2>3. op'[c] = o /\ OthersSame(c)
    BY <2>2 DEF IInv, TypeOK, OthersSame
  <2>4. o.phase = phase /\ o.tok = tok /\ o.owed = <<>>
    BY <2>1 DEF Request
  <2>5. tangled' = tangled \cup {x \in Names(o) : \E d \in Clients : Running(d) /\ x \in Names(op[d])}
    BY <1>1, <2>1 DEF Begin
  <2>6. \A x \in Names(op'[c]), d \in Clients : Running(d) /\ x \in Names(op[d]) => x \in tangled'
    BY <2>3, <2>5
  <2>7. ~Running(c) /\ items' = items /\ stream' = stream /\ tokens' = tokens /\ now' = now
        /\ commits' = commits /\ lost' = lost
    BY <1>1 DEF Begin
  <2> QED  BY <1>1, <2>3, <2>4, <2>5, <2>6, <2>7
<1>2. CASE BeginSingle(c)
  <2>1. PICK a \in Singles : Begin(c, [checks |-> {}, writes |-> <<a>>], NoToken, Effect(a, NoItem), FirstPhase(a))
    BY <1>2 DEF BeginSingle
  <2>2. PICK phase \in {"check", "load", "read"} : phase = FirstPhase(a)
    BY DEF FirstPhase
  <2>3. Begin(c, [checks |-> {}, writes |-> <<a>>], NoToken, Effect(a, NoItem), phase)
    BY <2>1, <2>2
  <2>4. phase \in {"check", "load", "read", "token", "apply"} /\ phase # "token"
    BY <2>2
  <2> HIDE DEF Goal
  <2>5. Goal
    BY <1>1, <2>3, <2>4
  <2> QED  BY <2>5 DEF Goal
<1>3. CASE BeginTransact(c)
  <2>1. PICK b \in Bodies, t \in Tokens \cup {NoToken} :
           Begin(c, b, t, NoItem, IF t = NoToken THEN "apply" ELSE "token")
    BY <1>3 DEF BeginTransact
  <2>2. PICK phase \in {"apply", "token"} : phase = IF t = NoToken THEN "apply" ELSE "token"
    OBVIOUS
  <2>3. Begin(c, b, t, NoItem, phase)
    BY <2>1, <2>2
  <2>4. phase \in {"check", "load", "read", "token", "apply"} /\ (phase # "token" => t = NoToken)
    BY <2>2
  <2> HIDE DEF Goal
  <2>5. Goal
    BY <1>1, <2>3, <2>4
  <2> QED  BY <2>5 DEF Goal
<1> QED  BY <1>2, <1>3

\* A single-item request checks its condition or reads an image.
LEMMA ReadsIs ==
    ASSUME IInv, NEW c \in Clients, CheckCondition(c) \/ LoadForUpdate(c) \/ ReadOld(c)
    PROVE  /\ op[c].phase \in {"check", "load", "read"} /\ SameRequest(c)
           /\ op[c].owed = <<>> /\ op'[c].owed = <<>>
           /\ op'[c].phase \in {"idle", "read", "write"}
           /\ op'[c].phase = "write" => op'[c].old = items[op[c].body.writes[1].key]
           /\ items' = items /\ stream' = stream /\ tokens' = tokens /\ now' = now
           /\ commits' = commits /\ lost' = lost /\ tangled' = tangled
<1>1. op[c].phase \in {"check", "load", "read"} /\ Running(c) /\ op[c].phase \in Uncommitted
  BY DEF CheckCondition, LoadForUpdate, ReadOld, Running, Uncommitted, SinglePhases
<1>2. op \in [Clients -> Op] /\ op[c] \in Op /\ op[c].owed = <<>>
  BY <1>1, OfRunning DEF RequestOK
<1>3. /\ items' = items /\ stream' = stream /\ tokens' = tokens /\ now' = now
      /\ commits' = commits /\ lost' = lost /\ tangled' = tangled
  BY DEF CheckCondition, LoadForUpdate, ReadOld, history
<1>4. CASE Answer(c, "canceled") \/ Goto(c, "read")
  BY <1>1, <1>2, <1>3, <1>4, AnswerIs, GotoIs
<1>5. CASE ReadOld(c)
  <2>1. PICK o : o = [[op[c] EXCEPT !.phase = "write"] EXCEPT !.old = items[op[c].body.writes[1].key]]
    OBVIOUS
  <2>2. op' = [op EXCEPT ![c] = o]
    BY <1>2, <1>5, <2>1 DEF ReadOld
  <2>3. op'[c] = o /\ OthersSame(c)
    BY <1>2, <2>2 DEF OthersSame
  <2>4. /\ o.n = op[c].n /\ o.body = op[c].body /\ o.tok = op[c].tok /\ o.phase = "write"
        /\ o.owed = op[c].owed /\ o.old = items[op[c].body.writes[1].key]
    BY <1>2, <2>1 DEF Op
  <2> QED  BY <1>1, <1>2, <1>3, <2>3, <2>4 DEF SameRequest
<1>6. CASE LoadForUpdate(c) /\ ~Answer(c, "canceled")
  <2>1. PICK a : a = op[c].body.writes[1]
    OBVIOUS
  <2>2. PICK o : o = [[op[c] EXCEPT !.phase = "read"] EXCEPT !.new = Effect(a, items[a.key])]
    OBVIOUS
  <2>3. op' = [op EXCEPT ![c] = o]
    BY <1>2, <1>6, <2>1, <2>2 DEF LoadForUpdate
  <2>4. op'[c] = o /\ OthersSame(c)
    BY <1>2, <2>3 DEF OthersSame
  <2>5. /\ o.n = op[c].n /\ o.body = op[c].body /\ o.tok = op[c].tok /\ o.phase = "read"
        /\ o.owed = op[c].owed
    BY <1>2, <2>2 DEF Op
  <2> QED  BY <1>1, <1>2, <1>3, <2>4, <2>5 DEF SameRequest
<1>7. \/ Answer(c, "canceled") \/ Goto(c, "read") \/ ReadOld(c)
      \/ LoadForUpdate(c) /\ ~Answer(c, "canceled")
  BY DEF CheckCondition
<1> QED  BY <1>4, <1>5, <1>6, <1>7

\* A transaction looks its token up: there is no row, or an old one, or it is
\* answered.
LEMMA CheckTokenIs ==
    ASSUME IInv, NEW c \in Clients, CheckToken(c)
    PROVE  /\ op[c].phase = "token" /\ SameRequest(c) /\ op[c].tok \in Tokens
           /\ op[c].owed = <<>> /\ op'[c].owed = <<>>
           /\ \/ op'[c].phase = "idle"
              \/ op'[c].phase = "apply" /\ tokens[op[c].tok] = NoToken
              \/ op'[c].phase = "sweep" /\ tokens[op[c].tok] # NoToken /\ Expired(tokens[op[c].tok])
           /\ items' = items /\ stream' = stream /\ tokens' = tokens /\ now' = now
           /\ commits' = commits /\ lost' = lost /\ tangled' = tangled
<1>1. op[c].phase = "token" /\ Running(c) /\ op[c].phase \in Uncommitted
  BY DEF CheckToken, Running, Uncommitted, TransactPhases
<1>2. op[c].owed = <<>> /\ op[c].tok \in Tokens
  BY <1>1, OfRunning DEF RequestOK
<1>3. /\ items' = items /\ stream' = stream /\ tokens' = tokens /\ now' = now
      /\ commits' = commits /\ lost' = lost /\ tangled' = tangled
  BY DEF CheckToken, history
<1>4. \/ Answer(c, "replayed") \/ Answer(c, "mismatch")
      \/ Goto(c, "apply") /\ tokens[op[c].tok] = NoToken
      \/ Goto(c, "sweep") /\ tokens[op[c].tok] # NoToken /\ Expired(tokens[op[c].tok])
  BY DEF CheckToken
<1> QED  BY <1>1, <1>2, <1>3, <1>4, AnswerIs, GotoIs

\* The old row goes, or stays when the statement fails.
LEMMA SweepIs ==
    ASSUME IInv, NEW c \in Clients, SweepToken(c)
    PROVE  /\ op[c].phase = "sweep" /\ SameRequest(c) /\ op[c].tok \in Tokens
           /\ op[c].owed = <<>> /\ op'[c].owed = <<>> /\ op'[c].phase = "apply"
           /\ \A t \in Tokens : tokens'[t] = tokens[t] \/ t = op[c].tok
           /\ items' = items /\ stream' = stream /\ now' = now
           /\ commits' = commits /\ lost' = lost /\ tangled' = tangled
<1>1. op[c].phase = "sweep" /\ Running(c) /\ op[c].phase \in Uncommitted
  BY DEF SweepToken, Running, Uncommitted, TransactPhases
<1>2. op[c].owed = <<>> /\ op[c].tok \in Tokens
  BY <1>1, OfRunning DEF RequestOK
<1>3. /\ items' = items /\ stream' = stream /\ now' = now
      /\ commits' = commits /\ lost' = lost /\ tangled' = tangled
  BY DEF SweepToken, history
<1>4. \A t \in Tokens : tokens'[t] = tokens[t] \/ t = op[c].tok
  BY DEF SweepToken, IInv, TypeOK
<1>5. Goto(c, "apply")
  BY DEF SweepToken
<1> QED  BY <1>1, <1>2, <1>3, <1>4, <1>5, GotoIs

\* The row of the request is stored at this time.
LEMMA StoreIs ==
    ASSUME IInv, NEW c \in Clients, StoreToken(c)
    PROVE  /\ op[c].phase = "store" /\ SameRequest(c) /\ op[c].tok \in Tokens
           /\ op[c].owed = <<>> /\ op'[c].owed = <<>> /\ op'[c].phase = "idle"
           /\ \A t \in Tokens : tokens'[t] = tokens[t] \/ t = op[c].tok
           /\ tokens'[op[c].tok] # NoToken /\ tokens'[op[c].tok].at = now
           /\ items' = items /\ stream' = stream /\ now' = now
           /\ commits' = commits /\ lost' = lost /\ tangled' = tangled
<1>1. op[c].phase = "store" /\ Running(c)
  BY DEF StoreToken, Running
<1>2. op[c].owed = <<>> /\ op[c].tok \in Tokens /\ op[c].body \in Body
  BY <1>1, OfRunning DEF RequestOK, Op
<1>3. /\ items' = items /\ stream' = stream /\ now' = now
      /\ commits' = commits /\ lost' = lost /\ tangled' = tangled
  BY DEF StoreToken, history
<1>4. PICK row : row = [body |-> op[c].body, at |-> now]
  OBVIOUS
<1>5. row \in [body : Body, at : Nat] /\ row.at = now
  BY <1>2, <1>4 DEF IInv, TypeOK
<1>6. row # NoToken
  BY <1>5, RowAssumption
<1>7. \A t \in Tokens : tokens'[t] = IF t = op[c].tok THEN row ELSE tokens[t]
  BY <1>4 DEF StoreToken, IInv, TypeOK
<1>8. Answer(c, "ok")
  BY DEF StoreToken
<1> QED  BY <1>1, <1>2, <1>3, <1>5, <1>6, <1>7, <1>8, AnswerIs

\* A request that fails after its write counts as lost.
LEMMA FailIs ==
    ASSUME IInv, NEW c \in Clients, Fail(c)
    PROVE  /\ SameRequest(c) /\ op'[c].owed = <<>> /\ op'[c].phase = "idle"
           /\ \A x \in commits : x.n = op[c].n => x.n \in lost'
           /\ lost \subseteq lost'
           /\ items' = items /\ stream' = stream /\ now' = now /\ tokens' = tokens
           /\ commits' = commits /\ tangled' = tangled
<1>1. Running(c) /\ Answer(c, "failed")
  BY DEF Fail
<1>2. lost' = lost \cup {x.n : x \in {y \in commits : y.n = op[c].n}}
  BY DEF Fail
<1>3. \A x \in commits : x.n = op[c].n => x.n \in lost'
  BY <1>2
<1>4. /\ items' = items /\ stream' = stream /\ now' = now /\ tokens' = tokens
      /\ commits' = commits /\ tangled' = tangled
  BY DEF Fail
<1> QED  BY <1>1, <1>2, <1>3, <1>4, AnswerIs

\* The write of c's request takes effect, and owes these changes: each tells
\* the image it found and the one it leaves.
CommitOf(c, owed) ==
    /\ op[c].phase \in {"write", "apply"} /\ SameRequest(c)
    /\ op[c].owed = <<>> /\ op'[c].owed = owed
    /\ op'[c].phase \in {"idle", "store", "ord"}
    /\ op'[c].phase = "idle" => op[c].tok = NoToken /\ owed = <<>>
    /\ commits \subseteq commits'
    /\ \A x \in commits' : x \in commits \/ (x.n = op[c].n /\ x.tok = op[c].tok /\ x.at = now)
    /\ \A i \in DOMAIN owed :
         /\ owed[i].key \in KeysOf(op[c].body)
         /\ owed[i].new = items'[owed[i].key]
         /\ op[c].phase = "write" => owed[i].key = op[c].body.writes[1].key /\ owed[i].old = op[c].old
         /\ op[c].phase = "apply" => owed[i].old = items[owed[i].key]
    /\ \A i, j \in DOMAIN owed : owed[i].key = owed[j].key => i = j
    /\ \A k \in Keys : items'[k] = items[k] \/ \E i \in DOMAIN owed : owed[i].key = k
    /\ stream' = stream /\ tokens' = tokens /\ now' = now /\ lost' = lost /\ tangled' = tangled

LEMMA ProceedIs ==
    ASSUME IInv, NEW c \in Clients, Running(c), NEW owed \in Seq(Changes), Proceed(c, owed)
    PROVE  /\ SameRequest(c) /\ op'[c].owed = owed
           /\ op'[c].phase \in {"idle", "store", "ord"}
           /\ op'[c].phase = "idle" => op[c].tok = NoToken /\ owed = <<>>
<1>1. op \in [Clients -> Op]
  BY OfRunning
<1>2. PICK o \in Op :
         /\ op' = [op EXCEPT ![c] = o]
         /\ o.n = op[c].n /\ o.body = op[c].body /\ o.tok = op[c].tok /\ o.owed = owed
         /\ o.phase = "idle" => owed = <<>> /\ o.tok = NoToken
         /\ o.phase # "idle" => o.phase = IF owed = <<>> THEN "store" ELSE "ord"
  BY ProceedRequest
<1>3. op'[c] = o /\ OthersSame(c)
  BY <1>1, <1>2 DEF OthersSame
<1> QED  BY <1>2, <1>3 DEF SameRequest

LEMMA CommittedIs ==
    ASSUME NEW c \in Clients, NEW owed, Committed(c, owed)
    PROVE  /\ commits \subseteq commits'
           /\ \A x \in commits' : x \in commits \/ (x.n = op[c].n /\ x.tok = op[c].tok /\ x.at = now)
BY DEF Committed

LEMMA WriteItemIs ==
    ASSUME IInv, NEW c \in Clients, WriteItem(c)
    PROVE  \E owed \in Seq(Changes) : CommitOf(c, owed)
<1> DEFINE a == op[c].body.writes[1]
<1>1. op[c].phase = "write" /\ op[c].phase \in SinglePhases /\ op[c].phase \in Uncommitted /\ Running(c)
  BY DEF WriteItem, Running, SinglePhases, Uncommitted
<1>2. op[c] \in Op /\ op[c].owed = <<>> /\ op[c].body.writes # <<>>
  BY <1>1, OfRunning DEF RequestOK
<1>3. a \in Action /\ a.key \in Keys /\ op[c].n \in Nat /\ op[c].old \in Images /\ op[c].new \in Images
  BY <1>1, <1>2, FirstWrite DEF Op
<1>4. PICK ch \in Changes : ch = Change(op[c].n, a, op[c].old, op[c].new)
  BY <1>3, ChangeType
<1>5. ch.key = a.key /\ ch.old = op[c].old /\ ch.new = op[c].new
  BY <1>4 DEF Change
<1>6. PICK owed \in Seq(Changes) : owed = <<ch>> /\ DOMAIN owed = {1} /\ owed[1] = ch
  <2>1. <<ch>> \in Seq(Changes) /\ DOMAIN <<ch>> = {1} /\ <<ch>>[1] = ch
    OBVIOUS
  <2> QED  BY <2>1
<1>7. Committed(c, owed) /\ Proceed(c, owed)
  BY <1>4, <1>6 DEF WriteItem
<1>8. a.key \in KeysOf(op[c].body)
  <2>1. 1 \in DOMAIN op[c].body.writes
    BY <1>2 DEF Op, Body
  <2> QED  BY <2>1 DEF KeysOf
<1>9. \A k \in Keys : items'[k] = IF k = a.key THEN op[c].new ELSE items[k]
  <2>1. items' = [items EXCEPT ![a.key] = op[c].new]
    BY DEF WriteItem
  <2> QED  BY <2>1 DEF IInv, TypeOK
<1>10. stream' = stream /\ tokens' = tokens /\ now' = now /\ lost' = lost /\ tangled' = tangled
  BY DEF WriteItem
<1>11. /\ SameRequest(c) /\ op'[c].owed = owed
       /\ op'[c].phase \in {"idle", "store", "ord"}
       /\ op'[c].phase = "idle" => op[c].tok = NoToken /\ owed = <<>>
  BY <1>1, <1>7, ProceedIs
<1>12. /\ commits \subseteq commits'
       /\ \A x \in commits' : x \in commits \/ (x.n = op[c].n /\ x.tok = op[c].tok /\ x.at = now)
  BY <1>7, CommittedIs
<1>13. \A i \in DOMAIN owed :
         /\ owed[i].key \in KeysOf(op[c].body)
         /\ owed[i].new = items'[owed[i].key]
         /\ owed[i].key = op[c].body.writes[1].key /\ owed[i].old = op[c].old
  BY <1>3, <1>5, <1>6, <1>8, <1>9
<1>14. \A k \in Keys : items'[k] = items[k] \/ \E i \in DOMAIN owed : owed[i].key = k
  BY <1>5, <1>6, <1>9
<1>15. \A i, j \in DOMAIN owed : owed[i].key = owed[j].key => i = j
  BY <1>6
<1> HIDE DEF a
<1> QED  BY <1>1, <1>2, <1>10, <1>11, <1>12, <1>13, <1>14, <1>15 DEF CommitOf

LEMMA ApplyIs ==
    ASSUME IInv, NEW c \in Clients, Apply(c)
    PROVE  \/ \E owed \in Seq(Changes) : CommitOf(c, owed)
           \/ /\ SameRequest(c) /\ op[c].phase = "apply"
              /\ op[c].owed = <<>> /\ op'[c].owed = <<>> /\ op'[c].phase = "idle"
              /\ items' = items /\ stream' = stream /\ tokens' = tokens /\ now' = now
              /\ commits' = commits /\ lost' = lost /\ tangled' = tangled
<1>1. /\ op[c].phase = "apply" /\ op[c].phase \in TransactPhases /\ op[c].phase \in Uncommitted
      /\ Running(c)
  BY DEF Apply, Running, TransactPhases, Uncommitted
<1>2. op[c] \in Op /\ RequestOK(op[c])
  BY <1>1, OfRunning
<1>3. op[c].n \in Nat /\ op[c].body \in Body /\ DistinctKeys(op[c].body) /\ op[c].owed = <<>>
  BY <1>1, <1>2 DEF Op, RequestOK
<1>4. PICK owed \in Seq(Changes) : owed = ChangesOf(op[c].n, op[c].body.writes)
  BY <1>3, ChangesOfOK DEF IInv
<1>5. stream' = stream /\ tokens' = tokens /\ now' = now /\ lost' = lost /\ tangled' = tangled
  BY DEF Apply
<1>6. CASE Answer(c, "canceled") /\ UNCHANGED <<items, commits, written>>
  BY <1>1, <1>3, <1>5, <1>6, AnswerIs
<1>7. CASE Committed(c, owed) /\ Proceed(c, owed)
           /\ items' = [k \in Keys |->
                       IF \E i \in DOMAIN owed : owed[i].key = k
                         THEN (CHOOSE ch \in {owed[i] : i \in DOMAIN owed} : ch.key = k).new
                         ELSE items[k]]
  <2> DEFINE writes == op[c].body.writes
  <2>1. DOMAIN owed = DOMAIN writes /\ writes \in Seq(Action)
    BY <1>3, <1>4 DEF ChangesOf, Body
  <2>2. \A i \in DOMAIN owed :
          owed[i] = Change(op[c].n, writes[i], items[writes[i].key], Effect(writes[i], items[writes[i].key]))
    BY <1>4, <2>1 DEF ChangesOf
  <2>3. \A i \in DOMAIN owed : owed[i].key = writes[i].key /\ owed[i].old = items[owed[i].key]
    BY <2>2 DEF Change
  <2>4. \A i, j \in DOMAIN owed : owed[i].key = owed[j].key => i = j
    BY <1>3, <2>1, <2>3 DEF DistinctKeys
  <2>5. \A i \in DOMAIN owed : owed[i].key \in KeysOf(op[c].body) /\ owed[i].key \in Keys
    <3>1. \A i \in DOMAIN writes : writes[i] \in Action
      BY <2>1
    <3> QED  BY <2>1, <2>3, <3>1 DEF KeysOf, Action
  <2> HIDE DEF writes
  <2>6. \A i \in DOMAIN owed : items'[owed[i].key] = owed[i].new
    <3> SUFFICES ASSUME NEW i \in DOMAIN owed PROVE items'[owed[i].key] = owed[i].new
      OBVIOUS
    <3> DEFINE S == {owed[j] : j \in DOMAIN owed}
               k == owed[i].key
    <3>1. \A ch \in S : ch.key = k => ch = owed[i]
      BY <2>4
    <3>2. owed[i] \in S
      OBVIOUS
    <3>3. items'[k] = (CHOOSE ch \in S : ch.key = k).new
      BY <1>7, <2>5
    <3> HIDE DEF S
    <3>4. (CHOOSE ch \in S : ch.key = k) = owed[i]
      BY <3>1, <3>2
    <3> QED  BY <3>3, <3>4
  <2>7. \A k \in Keys : items'[k] = items[k] \/ \E i \in DOMAIN owed : owed[i].key = k
    BY <1>7
  <2>8. /\ SameRequest(c) /\ op'[c].owed = owed
        /\ op'[c].phase \in {"idle", "store", "ord"}
        /\ op'[c].phase = "idle" => op[c].tok = NoToken /\ owed = <<>>
    BY <1>1, <1>7, ProceedIs
  <2>9. /\ commits \subseteq commits'
        /\ \A x \in commits' : x \in commits \/ (x.n = op[c].n /\ x.tok = op[c].tok /\ x.at = now)
    BY <1>7, CommittedIs
  <2>10. CommitOf(c, owed)
    BY <1>1, <1>3, <1>5, <2>3, <2>4, <2>5, <2>6, <2>7, <2>8, <2>9 DEF CommitOf
  <2> QED  BY <2>10
<1> QED  BY <1>4, <1>6, <1>7 DEF Apply

LEMMA ReadOrdIs ==
    ASSUME IInv, NEW c \in Clients, ReadOrd(c)
    PROVE  /\ op[c].phase = "ord" /\ SameRequest(c) /\ op'[c].owed = op[c].owed
           /\ op'[c].phase = "append" /\ op'[c].ord = NextOrd(stream)
           /\ items' = items /\ stream' = stream /\ tokens' = tokens /\ now' = now
           /\ commits' = commits /\ lost' = lost /\ tangled' = tangled
<1>1. op[c].phase = "ord" /\ Running(c)
  BY DEF ReadOrd, Running
<1>2. op \in [Clients -> Op] /\ op[c] \in Op
  BY <1>1, OfRunning
<1>3. PICK o : o = [op[c] EXCEPT !.phase = "append", !.ord = NextOrd(stream)]
  OBVIOUS
<1>4. op' = [op EXCEPT ![c] = o]
  BY <1>3 DEF ReadOrd
<1>5. op'[c] = o /\ OthersSame(c)
  BY <1>2, <1>4 DEF OthersSame
<1>6. /\ o.n = op[c].n /\ o.body = op[c].body /\ o.tok = op[c].tok /\ o.phase = "append"
      /\ o.owed = op[c].owed /\ o.ord = NextOrd(stream)
  BY <1>2, <1>3 DEF Op
<1>7. /\ items' = items /\ stream' = stream /\ tokens' = tokens /\ now' = now
      /\ commits' = commits /\ lost' = lost /\ tangled' = tangled
  BY DEF ReadOrd, history
<1> QED  BY <1>1, <1>5, <1>6, <1>7 DEF SameRequest

\* The record of the first change owed; the others are owed still.
LEMMA AppendIs ==
    ASSUME IInv, NEW c \in Clients, AppendRecord(c)
    PROVE  /\ op[c].phase = "append" /\ SameRequest(c)
           /\ op'[c].phase \in {"idle", "store", "ord"}
           /\ op'[c].phase = "idle" => op[c].tok = NoToken /\ op'[c].owed = <<>>
           /\ 1 \in DOMAIN op[c].owed /\ op[c].owed[1] \in Changes
           /\ stream' = stream \cup {[ord |-> op[c].ord, change |-> op[c].owed[1]]}
           /\ \A i \in DOMAIN op'[c].owed : \E j \in DOMAIN op[c].owed :
                j = i + 1 /\ j # 1 /\ op'[c].owed[i] = op[c].owed[j]
           /\ \A j \in DOMAIN op[c].owed : j = 1 \/ \E i \in DOMAIN op'[c].owed : op'[c].owed[i] = op[c].owed[j]
           /\ items' = items /\ tokens' = tokens /\ now' = now
           /\ commits' = commits /\ lost' = lost /\ tangled' = tangled
<1>1. op[c].phase = "append" /\ Running(c) /\ op[c].phase \in AppendPhases
  BY DEF AppendRecord, Running, AppendPhases
<1>2. op[c] \in Op /\ op[c].owed # <<>>
  BY <1>1, OfRunning DEF RequestOK
<1>3. PICK owed \in Seq(Changes) : owed = op[c].owed /\ owed # <<>>
  BY <1>2 DEF Op
<1>4. PICK rest \in Seq(Changes) : rest = Tail(owed)
  <2>1. Tail(owed) \in Seq(Changes)
    BY <1>3, HeadTailProperties
  <2> QED  BY <2>1
<1>5. /\ owed[1] \in Changes /\ Head(owed) = owed[1] /\ 1 \in DOMAIN owed
      /\ \A i \in DOMAIN rest : \E j \in DOMAIN owed : j = i + 1 /\ j # 1 /\ rest[i] = owed[j]
      /\ \A j \in DOMAIN owed : j = 1 \/ \E i \in DOMAIN rest : rest[i] = owed[j]
  <2>1. Len(owed) \in Nat /\ Len(owed) # 0 /\ DOMAIN owed = 1 .. Len(owed)
    BY <1>3
  <2>2. DOMAIN rest = 1 .. (Len(owed) - 1) /\ \A i \in 1 .. (Len(owed) - 1) : rest[i] = owed[i + 1]
    BY <1>3, <1>4, <2>1
  <2>3. owed[1] \in Changes /\ Head(owed) = owed[1]
    BY <1>3, <2>1
  <2>4. \A i \in DOMAIN owed : i = 1 \/ (i - 1 \in DOMAIN rest /\ (i - 1) + 1 = i)
    BY <2>1, <2>2
  <2>5. \A j \in DOMAIN owed : j = 1 \/ rest[j - 1] = owed[j]
    BY <2>1, <2>2
  <2>6. \A i \in DOMAIN rest : i + 1 \in DOMAIN owed /\ i + 1 # 1 /\ rest[i] = owed[i + 1]
    BY <2>1, <2>2
  <2> QED  BY <2>1, <2>3, <2>4, <2>5, <2>6
<1>6. Proceed(c, rest)
  BY <1>3, <1>4 DEF AppendRecord
<1>7. /\ SameRequest(c) /\ op'[c].owed = rest
      /\ op'[c].phase \in {"idle", "store", "ord"}
      /\ op'[c].phase = "idle" => op[c].tok = NoToken /\ op'[c].owed = <<>>
  BY <1>1, <1>6, ProceedIs
<1>8. stream' = stream \cup {[ord |-> op[c].ord, change |-> op[c].owed[1]]}
  BY <1>3, <1>5 DEF AppendRecord
<1>9. /\ items' = items /\ tokens' = tokens /\ now' = now
      /\ commits' = commits /\ lost' = lost /\ tangled' = tangled
  BY DEF AppendRecord, history
<1> QED  BY <1>1, <1>3, <1>5, <1>7, <1>8, <1>9

\* A name that is orderly after a step was orderly before it.
LEMMA OrderlyBefore ==
    ASSUME commits \subseteq commits', lost \subseteq lost', tangled \subseteq tangled',
           NEW name, Orderly(name)'
    PROVE  Orderly(name)
BY DEF Orderly

\* Whatever a client does, the histories grow, and it goes on with its request
\* or begins one.
LEMMA StepIs ==
    ASSUME IInv, NEW c \in Clients, Step(c)
    PROVE  /\ commits \subseteq commits' /\ lost \subseteq lost' /\ tangled \subseteq tangled'
           /\ now' = now /\ OthersSame(c)
           /\ \/ SameRequest(c)
              \/ /\ ~Running(c) /\ op'[c].owed = <<>>
                 /\ \A x \in Names(op'[c]), d \in Clients :
                      Running(d) /\ x \in Names(op[d]) => x \in tangled'
<1> DEFINE Goal ==
           /\ commits \subseteq commits' /\ lost \subseteq lost' /\ tangled \subseteq tangled'
           /\ now' = now /\ OthersSame(c)
           /\ \/ SameRequest(c)
              \/ /\ ~Running(c) /\ op'[c].owed = <<>>
                 /\ \A x \in Names(op'[c]), d \in Clients :
                      Running(d) /\ x \in Names(op[d]) => x \in tangled'
<1> SUFFICES Goal
  OBVIOUS
<1>1. CASE BeginSingle(c) \/ BeginTransact(c)
  BY <1>1, BeginIs
<1>2. CASE CheckCondition(c) \/ LoadForUpdate(c) \/ ReadOld(c)
  BY <1>2, ReadsIs DEF SameRequest
<1>3. ASSUME NEW owed, CommitOf(c, owed)
      PROVE  Goal
  BY <1>3 DEF CommitOf, SameRequest
<1>4. CASE WriteItem(c)
  <2> HIDE DEF Goal
  <2> QED  BY <1>3, <1>4, WriteItemIs
<1>5. CASE Apply(c)
  <2>1. CASE commits' = commits /\ lost' = lost /\ tangled' = tangled /\ now' = now /\ SameRequest(c)
    BY <2>1 DEF SameRequest
  <2> HIDE DEF Goal
  <2> QED  BY <1>3, <1>5, <2>1, ApplyIs
<1>6. CASE ReadOrd(c)
  BY <1>6, ReadOrdIs DEF SameRequest
<1>7. CASE AppendRecord(c)
  BY <1>7, AppendIs DEF SameRequest
<1>8. CASE CheckToken(c)
  BY <1>8, CheckTokenIs DEF SameRequest
<1>9. CASE SweepToken(c)
  BY <1>9, SweepIs DEF SameRequest
<1>10. CASE StoreToken(c)
  BY <1>10, StoreIs DEF SameRequest
<1>11. CASE Fail(c)
  BY <1>11, FailIs DEF SameRequest
<1> QED  BY <1>1, <1>2, <1>4, <1>5, <1>6, <1>7, <1>8, <1>9, <1>10, <1>11 DEF Step

\* Overlapping requests tangle what both name.
LEMMA SoloStep ==
    ASSUME IInv, SoloRunning, NEW c \in Clients, Step(c)
    PROVE  SoloRunning'
<1> SUFFICES ASSUME NEW d \in Clients, NEW e \in Clients, NEW x \in (Keys \cup Tokens) \ tangled',
                    Running(d)', Running(e)', x \in Names(op'[d]), x \in Names(op'[e]), d # e
             PROVE  FALSE
  BY DEF SoloRunning, Names
<1>1. x \in (Keys \cup Tokens) \ tangled
  BY StepIs
<1>2. \A f \in Clients : f # c /\ Running(f)' => Running(f) /\ Names(op'[f]) = Names(op[f])
  BY StepIs DEF OthersSame, Running
<1>3. Running(c) => Names(op'[c]) = Names(op[c])
  <2>1. Running(c) => SameRequest(c)
    BY StepIs
  <2> QED  BY <2>1 DEF SameRequest, Names
<1>4. CASE d # c /\ e # c
  BY <1>1, <1>2, <1>4 DEF SoloRunning
<1>5. CASE Running(c)
  BY <1>1, <1>2, <1>3, <1>5 DEF SoloRunning
<1>6. CASE ~Running(c) /\ (d = c \/ e = c)
  <2>1. \A y \in Names(op'[c]), f \in Clients : Running(f) /\ y \in Names(op[f]) => y \in tangled'
    BY <1>6, StepIs DEF SameRequest
  <2> QED  BY <1>2, <1>6, <2>1
<1> QED  BY <1>4, <1>5, <1>6

\* A token that is not tangled is that of one running request.
LEMMA SoloToken ==
    ASSUME SoloRunning, NEW c \in Clients, NEW d \in Clients, Running(c), Running(d),
           NEW t \in Tokens, Orderly(t), op[c].tok = t, op[d].tok = t
    PROVE  c = d
BY DEF SoloRunning, Orderly, Names

\* A key that is not tangled is named by one running request.
LEMMA SoloKey ==
    ASSUME SoloRunning, NEW c \in Clients, NEW d \in Clients, Running(c), Running(d),
           NEW k \in Keys, Orderly(k), k \in KeysOf(op[c].body), k \in KeysOf(op[d].body)
    PROVE  c = d
BY DEF SoloRunning, Orderly, Names

-----------------------------------------------------------------------------
(* What each step does to tokens.                                          *)

\* c comes past the check of its token where there is no row or an old one;
\* a row changes by c's sweep or c's store; what c committed under a token it
\* stores, unless it fails.
TokenStep(c) ==
    /\ op'[c].phase \in {"sweep", "apply"} /\ op'[c].tok # NoToken =>
         /\ SameRequest(c) /\ commits' = commits
         /\ \/ op[c].phase = "sweep"
            \/ /\ op[c].phase = "token"
               /\ tokens[op[c].tok] # NoToken => Expired(tokens[op[c].tok])
    /\ \A x \in commits' \ commits :
         /\ x.n = op[c].n /\ x.tok = op[c].tok /\ x.at = now
         /\ x.tok # NoToken => op[c].phase = "apply" /\ op'[c].phase \in AfterCommit /\ SameRequest(c)
    /\ \A t \in Tokens :
         \/ tokens'[t] = tokens[t]
         \/ t = op[c].tok /\ op[c].phase = "sweep"
         \/ t = op[c].tok /\ tokens'[t] # NoToken /\ tokens'[t].at = now
    /\ op[c].phase \in AfterCommit /\ op[c].tok \in Tokens =>
         \/ SameRequest(c) /\ op'[c].phase \in AfterCommit
         \/ \A x \in commits : x.n = op[c].n => x.n \in lost'
         \/ tokens'[op[c].tok] # NoToken /\ tokens'[op[c].tok].at = now
    /\ op'[c].phase \in SinglePhases => op'[c].tok = NoToken

LEMMA TokenStepIs ==
    ASSUME IInv, SinglesUnnamed, NEW c \in Clients, Step(c)
    PROVE  TokenStep(c)
<1> USE DEF AfterCommit, AppendPhases, SinglePhases
<1>1. CASE BeginSingle(c) \/ BeginTransact(c)
  <2>1. op[c].phase = "idle"
    BY <1>1, BeginIs DEF Running
  <2> QED  BY <1>1, <2>1, BeginIs DEF TokenStep
<1>2. CASE CheckCondition(c) \/ LoadForUpdate(c) \/ ReadOld(c)
  <2>1. op[c].tok = NoToken
    BY <1>2, ReadsIs DEF SinglesUnnamed
  <2> QED  BY <1>2, <2>1, ReadsIs DEF TokenStep, SameRequest
<1>3. ASSUME NEW owed, CommitOf(c, owed)
      PROVE  TokenStep(c)
  <2>1. op[c].phase = "write" => op[c].tok = NoToken
    BY DEF SinglesUnnamed
  <2>2. op'[c].phase \notin {"sweep", "apply"} /\ op[c].phase \notin AfterCommit /\ op'[c].phase \notin SinglePhases
    BY <1>3 DEF CommitOf
  <2>3. op[c].tok # NoToken => op[c].phase = "apply" /\ op'[c].phase \in AfterCommit
    BY <1>3, <2>1 DEF CommitOf
  <2>4. \A x \in commits' \ commits :
         /\ x.n = op[c].n /\ x.tok = op[c].tok /\ x.at = now
    BY <1>3 DEF CommitOf
  <2>5. SameRequest(c) /\ tokens' = tokens
    BY <1>3 DEF CommitOf
  <2> QED  BY <2>2, <2>3, <2>4, <2>5 DEF TokenStep
<1>4. CASE WriteItem(c)
  BY <1>3, <1>4, WriteItemIs
<1>5. CASE Apply(c)
  <2>1. CASE /\ commits' = commits /\ tokens' = tokens /\ op[c].phase = "apply" /\ op'[c].phase = "idle"
    BY <2>1 DEF TokenStep
  <2> QED  BY <1>3, <1>5, <2>1, ApplyIs
<1>6. CASE ReadOrd(c)
  BY <1>6, ReadOrdIs DEF TokenStep
<1>7. CASE AppendRecord(c)
  <2>1. op[c].tok \in Tokens => op[c].tok # NoToken
    BY TokenAssumption
  <2> QED  BY <1>7, <2>1, AppendIs DEF TokenStep
<1>8. CASE CheckToken(c)
  BY <1>8, CheckTokenIs DEF TokenStep
<1>9. CASE SweepToken(c)
  BY <1>9, SweepIs DEF TokenStep
<1>10. CASE StoreToken(c)
  BY <1>10, StoreIs DEF TokenStep
<1>11. CASE Fail(c)
  BY <1>11, FailIs DEF TokenStep
<1> QED  BY <1>1, <1>2, <1>4, <1>5, <1>6, <1>7, <1>8, <1>9, <1>10, <1>11 DEF Step

-----------------------------------------------------------------------------
(* The invariant of tokens is kept.                                        *)

\* What the types say of commits and rows.
LEMMA CommitTypes ==
    ASSUME TypeOK
    PROVE  /\ \A x \in commits : x.at \in Nat /\ x.n \in Nat /\ (x.tok \in Tokens \/ x.tok = NoToken)
           /\ \A t \in Tokens : tokens[t] # NoToken => tokens[t].at \in Nat
           /\ now \in Nat /\ TTL \in Nat
BY TimeAssumption DEF TypeOK, Commit, Token

LEMMA CommitsPastStep ==
    ASSUME IInv, IInv', TokenInv, NEW c \in Clients, Step(c)
    PROVE  CommitsPast'
<1>1. TokenStep(c) /\ now' = now
  BY TokenStepIs, StepIs DEF TokenInv
<1>2. \A x \in commits' : x \in commits \/ x.at = now
  BY <1>1 DEF TokenStep
<1>3. \A x \in commits : x.at <= now
  BY DEF TokenInv, CommitsPast
<1>4. now \in Nat
  BY DEF IInv, TypeOK
<1> QED  BY <1>1, <1>2, <1>3, <1>4 DEF CommitsPast

LEMMA WindowClosedStep ==
    ASSUME IInv, IInv', TokenInv, NEW c \in Clients, Step(c)
    PROVE  WindowClosed'
<1> SUFFICES ASSUME NEW d \in Clients, NEW x \in commits',
                    op'[d].phase \in {"sweep", "apply"}, x.tok = op'[d].tok, x.tok # NoToken,
                    Orderly(x.tok)'
             PROVE  now' > x.at + TTL
  BY DEF WindowClosed
<1>1. TokenStep(c) /\ now' = now /\ OthersSame(c)
  BY TokenStepIs, StepIs DEF TokenInv
<1>2. Orderly(x.tok)
  BY StepIs, OrderlyBefore
<1>3. x.tok \in Tokens
  BY CommitTypes DEF IInv, TypeOK, Commit
<1>4. CASE d # c
  <2>1. op'[d] = op[d] /\ Running(d)
    BY <1>1, <1>4 DEF OthersSame, Running
  <2>2. x \in commits
    <3> SUFFICES ASSUME x \notin commits PROVE FALSE
      OBVIOUS
    <3>1. x.tok = op[c].tok /\ op[c].phase = "apply"
      BY <1>1 DEF TokenStep
    <3>2. Running(c)
      BY <3>1 DEF Running
    <3> QED  BY <1>2, <1>3, <1>4, <2>1, <3>1, <3>2, SoloToken DEF TokenInv
  <2> QED  BY <1>1, <1>2, <2>1, <2>2 DEF TokenInv, WindowClosed
<1>5. CASE d = c
  <2>1. SameRequest(c) /\ x \in commits /\ op[c].tok = x.tok
    BY <1>1, <1>5 DEF TokenStep, SameRequest
  <2>2. CASE op[c].phase = "sweep"
    BY <1>1, <1>2, <2>1, <2>2 DEF TokenInv, WindowClosed
  <2>3. CASE op[c].phase = "token" /\ (tokens[op[c].tok] # NoToken => Expired(tokens[op[c].tok]))
    <3>1. ~\E e \in Clients : op[e].phase \in AfterCommit /\ op[e].n = x.n /\ op[e].tok = x.tok
      <4> SUFFICES ASSUME NEW e \in Clients, op[e].phase \in AfterCommit, op[e].tok = x.tok
                   PROVE  FALSE
        OBVIOUS
      <4>1. Running(e) /\ Running(c)
        BY <2>3 DEF Running, AfterCommit, AppendPhases
      <4>2. e = c
        BY <1>2, <1>3, <2>1, <4>1, SoloToken DEF TokenInv
      <4> QED  BY <2>3, <4>2 DEF AfterCommit, AppendPhases
    <3>2. \/ tokens[x.tok] # NoToken /\ tokens[x.tok].at >= x.at
          \/ now > x.at + TTL
      BY <1>2, <2>1, <3>1 DEF TokenInv, RowCovers
    <3>3. tokens[x.tok] # NoToken => now - tokens[x.tok].at > TTL /\ tokens[x.tok].at \in Nat
      BY <1>3, <2>1, <2>3, CommitTypes DEF Expired, IInv
    <3>4. x.at \in Nat /\ now \in Nat /\ TTL \in Nat
      BY <2>1, CommitTypes DEF IInv
    <3> QED  BY <1>1, <3>2, <3>3, <3>4
  <2> QED  BY <1>1, <1>5, <2>1, <2>2, <2>3 DEF TokenStep
<1> QED  BY <1>4, <1>5

LEMMA RowCoversStep ==
    ASSUME IInv, IInv', TokenInv, NEW c \in Clients, Step(c)
    PROVE  RowCovers'
<1> SUFFICES ASSUME NEW x \in commits', x.tok # NoToken, Orderly(x.tok)'
             PROVE  \/ tokens'[x.tok] # NoToken /\ tokens'[x.tok].at >= x.at
                    \/ now' > x.at + TTL
                    \/ \E e \in Clients : op'[e].phase \in AfterCommit /\ op'[e].n = x.n /\ op'[e].tok = x.tok
  BY DEF RowCovers
<1>1. TokenStep(c) /\ now' = now /\ OthersSame(c)
  BY TokenStepIs, StepIs DEF TokenInv
<1>2. Orderly(x.tok)
  BY StepIs, OrderlyBefore
<1>3. x.tok \in Tokens
  BY CommitTypes DEF IInv, TypeOK, Commit
<1>4. CASE x \notin commits
  BY <1>1, <1>4 DEF TokenStep, SameRequest
<1>5. CASE x \in commits
  <2>1. x.at <= now /\ x.at \in Nat /\ now \in Nat
    BY <1>5, CommitTypes DEF TokenInv, CommitsPast, IInv
  <2>2. CASE tokens'[x.tok] # NoToken /\ tokens'[x.tok].at = now
    BY <2>1, <2>2
  <2>3. CASE x.tok = op[c].tok /\ op[c].phase = "sweep"
    BY <1>1, <1>2, <1>5, <2>3 DEF TokenInv, WindowClosed
  <2>4. CASE tokens'[x.tok] = tokens[x.tok]
    <3>1. CASE tokens[x.tok] # NoToken /\ tokens[x.tok].at >= x.at
      BY <2>4, <3>1
    <3>2. CASE now > x.at + TTL
      BY <1>1, <3>2
    <3>3. ASSUME NEW e \in Clients, op[e].phase \in AfterCommit, op[e].n = x.n, op[e].tok = x.tok
          PROVE  \/ tokens'[x.tok] # NoToken /\ tokens'[x.tok].at >= x.at
                 \/ \E f \in Clients : op'[f].phase \in AfterCommit /\ op'[f].n = x.n /\ op'[f].tok = x.tok
      <4>1. CASE e # c
        BY <1>1, <3>3, <4>1 DEF OthersSame
      <4>2. CASE e = c
        <5>1. CASE SameRequest(c) /\ op'[c].phase \in AfterCommit
          BY <3>3, <4>2, <5>1 DEF SameRequest
        <5>2. CASE \A y \in commits : y.n = op[c].n => y.n \in lost'
          <6>1. x.n \in lost'
            BY <1>5, <3>3, <4>2, <5>2
          <6> QED  BY <6>1 DEF Orderly
        <5>3. CASE tokens'[op[c].tok] # NoToken /\ tokens'[op[c].tok].at = now
          BY <2>1, <3>3, <4>2, <5>3
        <5> QED  BY <1>1, <1>3, <3>3, <4>2, <5>1, <5>2, <5>3 DEF TokenStep
      <4> QED  BY <4>1, <4>2
    <3> QED  BY <1>2, <1>5, <3>1, <3>2, <3>3 DEF TokenInv, RowCovers
  <2> QED  BY <1>1, <1>3, <2>2, <2>3, <2>4 DEF TokenStep
<1> QED  BY <1>4, <1>5

\* A commit under a token that is orderly finds every window before it closed.
LEMMA TokenOnceStep ==
    ASSUME IInv, IInv', TokenInv, NEW c \in Clients, Step(c)
    PROVE  SequentialTokenOnce'
<1> SUFFICES ASSUME NEW x \in commits', NEW y \in commits', x.n # y.n, x.tok = y.tok,
                    x.tok # NoToken, Orderly(x.tok)'
             PROVE  ~Within(x, y)
  BY DEF SequentialTokenOnce, Within
<1>1. TokenStep(c)
  BY TokenStepIs DEF TokenInv
<1>2. Orderly(x.tok)
  BY StepIs, OrderlyBefore
<1>3. ASSUME NEW u \in commits, NEW v \in commits' \ commits, u.tok = v.tok, u.tok # NoToken, Orderly(u.tok)
      PROVE  v.at > u.at + TTL /\ v.at \in Nat /\ u.at \in Nat
  <2>1. v.at = now /\ v.tok = op[c].tok /\ op[c].phase = "apply"
    BY <1>1, <1>3 DEF TokenStep
  <2>2. u.at \in Nat /\ now \in Nat
    BY CommitTypes DEF IInv
  <2> QED  BY <1>3, <2>1, <2>2 DEF TokenInv, WindowClosed
<1>4. TTL \in Nat
  BY TimeAssumption
<1>5. CASE x \in commits /\ y \in commits
  BY <1>2, <1>5 DEF TokenInv, SequentialTokenOnce
<1>6. CASE x \in commits /\ y \notin commits
  BY <1>2, <1>3, <1>4, <1>6 DEF Within
<1>7. CASE x \notin commits /\ y \in commits
  BY <1>2, <1>3, <1>4, <1>7 DEF Within
<1>8. CASE x \notin commits /\ y \notin commits
  BY <1>1, <1>8 DEF TokenStep
<1> QED  BY <1>5, <1>6, <1>7, <1>8

LEMMA SinglesUnnamedStep ==
    ASSUME IInv, TokenInv, NEW c \in Clients, Step(c)
    PROVE  SinglesUnnamed'
<1>1. TokenStep(c) /\ OthersSame(c)
  BY TokenStepIs, StepIs DEF TokenInv
<1> QED  BY <1>1 DEF TokenStep, OthersSame, TokenInv, SinglesUnnamed

\* Time only closes windows.
LEMMA TokenTick ==
    ASSUME IInv, TokenInv, Tick \/ UNCHANGED vars
    PROVE  TokenInv'
<1>1. /\ op' = op /\ tokens' = tokens /\ commits' = commits /\ tangled' = tangled /\ lost' = lost
  BY DEF Tick, vars, history
<1>2. now \in Nat /\ now' \in Nat /\ now' >= now
  BY DEF Tick, vars, IInv, TypeOK
<1>3. \A x \in commits : x.at \in Nat /\ TTL \in Nat
  BY CommitTypes DEF IInv
<1>4. \A name : Orderly(name)' <=> Orderly(name)
  BY <1>1 DEF Orderly
<1>5. SoloRunning' /\ SinglesUnnamed'
  BY <1>1 DEF TokenInv, SoloRunning, SinglesUnnamed, Running, Names, KeysOf
<1>6. CommitsPast'
  BY <1>1, <1>2, <1>3 DEF TokenInv, CommitsPast
<1>7. \A x \in commits : now > x.at + TTL => now' > x.at + TTL
  BY <1>2, <1>3
<1>8. WindowClosed'
  BY <1>1, <1>4, <1>7 DEF TokenInv, WindowClosed
<1>9. RowCovers'
  BY <1>1, <1>4, <1>7 DEF TokenInv, RowCovers
<1>10. SequentialTokenOnce'
  BY <1>1, <1>4 DEF TokenInv, SequentialTokenOnce, Within
<1> QED  BY <1>5, <1>6, <1>8, <1>9, <1>10 DEF TokenInv

LEMMA TokenInit == Init => TokenInv
<1> SUFFICES ASSUME Init PROVE TokenInv
  OBVIOUS
<1>1. \A c \in Clients : op[c].phase = "idle"
  BY DEF Init, Request
<1>2. SoloRunning /\ SinglesUnnamed
  BY <1>1 DEF SoloRunning, SinglesUnnamed, Running, SinglePhases
<1>3. CommitsPast /\ WindowClosed /\ RowCovers /\ SequentialTokenOnce
  BY DEF Init, CommitsPast, WindowClosed, RowCovers, SequentialTokenOnce
<1> QED  BY <1>2, <1>3 DEF TokenInv

\* The requests of a token that come one after the other take effect at most
\* once within the window.
THEOREM TokensApplyOnce == Spec => []SequentialTokenOnce
<1>1. TokenInv /\ IInv /\ IInv' /\ [Next]_vars => TokenInv'
  <2> SUFFICES ASSUME TokenInv, IInv, IInv', [Next]_vars PROVE TokenInv'
    OBVIOUS
  <2>1. CASE Tick \/ UNCHANGED vars
    BY <2>1, TokenTick
  <2>2. ASSUME NEW c \in Clients, Step(c) PROVE TokenInv'
    <3>1. SoloRunning' /\ SinglesUnnamed'
      BY <2>2, SoloStep, SinglesUnnamedStep DEF TokenInv
    <3>2. CommitsPast' /\ WindowClosed' /\ RowCovers' /\ SequentialTokenOnce'
      BY <2>2, CommitsPastStep, WindowClosedStep, RowCoversStep, TokenOnceStep
    <3> QED  BY <3>1, <3>2 DEF TokenInv
  <2> QED  BY <2>1, <2>2 DEF Next
<1>2. TokenInv => SequentialTokenOnce
  BY DEF TokenInv
<1> QED  BY <1>1, <1>2, TokenInit, Invariant, PTL DEF Spec

-----------------------------------------------------------------------------
(* The operators that read the stream.                                     *)

\* The next ordinal is above every ordinal of the stream.
LEMMA NextOrdAbove ==
    ASSUME TypeOK, NEW r \in stream
    PROVE  r.ord < NextOrd(stream)
<1> DEFINE S == {s.ord : s \in stream}
           f == [s \in stream |-> s.ord]
<1>1. S \in SUBSET Nat /\ r.ord \in S
  BY DEF TypeOK, Record
<1>2. IsFiniteSet(S)
  <2>1. f \in Surjection(stream, S)
    BY DEF Surjection
  <2>2. IsFiniteSet(stream)
    BY DEF TypeOK
  <2> HIDE DEF S, f
  <2> QED  BY <2>1, <2>2, FS_Surjection
<1>3. NextOrd(stream) = Max(S) + 1
  BY DEF NextOrd, MaxOrd
<1> HIDE DEF S
<1>4. \E n \in S : \A k \in S : k <= n
  BY <1>1, <1>2, LargestExists
<1>5. \E n \in S : \A k \in S : n >= k
  BY <1>1, <1>4
<1>6. Max(S) \in S /\ \A k \in S : Max(S) >= k
  BY <1>5 DEF Max
<1>7. r.ord <= Max(S) /\ Max(S) \in Nat /\ r.ord \in Nat
  BY <1>1, <1>6
<1> QED  BY <1>3, <1>7

\* A reader of records with one above all others holds what that one tells.
LEMMA ReplayTop ==
    ASSUME NEW A, NEW r \in A, r.ord \in Nat, \A s \in A : s.ord \in Nat /\ (s = r \/ s.ord < r.ord)
    PROVE  Replay(A) = r.change.new
<1> DEFINE S == {s.ord : s \in A}
<1>1. r.ord \in S /\ \A n \in S : n \in Nat /\ r.ord >= n
  OBVIOUS
<1>2. MaxOrd(A) = Max(S)
  BY DEF MaxOrd
<1> HIDE DEF S
<1>3. Max(S) \in S /\ \A n \in S : Max(S) >= n
  BY <1>1 DEF Max
<1>4. Max(S) \in Nat /\ Max(S) >= r.ord /\ r.ord >= Max(S)
  BY <1>1, <1>3
<1>5. MaxOrd(A) = r.ord
  BY <1>2, <1>4
<1>6. \A s \in A : s.ord = MaxOrd(A) <=> s = r
  BY <1>5
<1>7. (CHOOSE s \in A : s.ord = MaxOrd(A)) = r
  BY <1>6
<1> QED  BY <1>7 DEF Replay

\* A record on top that tells the image the others left carries the chain on.
LEMMA LinkedOnTop ==
    ASSUME NEW A, NEW r, r.ord \in Nat, \A s \in A : s.ord \in Nat /\ s.ord < r.ord,
           Linked(A), r.change.old = Replay(A)
    PROVE  Linked(A \cup {r}) /\ Replay(A \cup {r}) = r.change.new
<1> DEFINE B == A \cup {r}
<1>1. \A s, t \in B : s.ord = t.ord => s = t
  BY DEF Linked
<1>2. \A s \in A : {t \in B : t.ord < s.ord} = {t \in A : t.ord < s.ord}
  OBVIOUS
<1>3. {t \in B : t.ord < r.ord} = A
  OBVIOUS
<1>4. \A s \in B : s.change.old = Replay({t \in B : t.ord < s.ord})
  <2> SUFFICES ASSUME NEW s \in B PROVE s.change.old = Replay({t \in B : t.ord < s.ord})
    OBVIOUS
  <2>1. CASE s \in A
    BY <1>2, <2>1 DEF Linked
  <2>2. CASE s = r
    BY <1>3, <2>2
  <2> QED  BY <2>1, <2>2
<1>5. Replay(B) = r.change.new
  BY ReplayTop
<1> QED  BY <1>1, <1>4, <1>5 DEF Linked

-----------------------------------------------------------------------------
(* What each step does to items, changes owed and records.                 *)

\* A step that leaves items and records alone.  Where c owes no longer what it
\* owed, it has failed, and the keys of it are not orderly any more.
QuietOf(c) ==
    /\ items' = items /\ stream' = stream
    /\ op'[c].phase = "write" => SameRequest(c) /\ op'[c].old = items[op[c].body.writes[1].key]
    /\ op'[c].phase = "append" => op'[c].ord = NextOrd(stream)
    /\ \/ SameRequest(c) /\ op'[c].phase # "idle" /\ op'[c].owed = op[c].owed
       \/ op'[c].owed = <<>> /\ \A k \in Keys : Orderly(k)' => ~Owes(c, k)

LEMMA FailQuiet ==
    ASSUME IInv, OwedNamed, NEW c \in Clients, Fail(c)
    PROVE  QuietOf(c)
<1>1. ASSUME NEW k \in Keys, Owes(c, k) PROVE ~Orderly(k)'
  <2>1. Running(c) /\ op[c] \in Op /\ RequestOK(op[c])
    BY <1>1, OfRunning DEF Owes
  <2>2. PICK i \in DOMAIN op[c].owed : op[c].owed[i].key = k
    BY <1>1 DEF Owes
  <2>3. k \in KeysOf(op[c].body)
    BY <2>1, <2>2 DEF OwedNamed
  <2>4. op[c].phase \in AfterCommit
    <3>1. op[c].phase \notin Uncommitted
      BY <2>1, <2>2 DEF RequestOK
    <3> QED  BY <2>1, <3>1 DEF Op, Phases, Running, Uncommitted, SinglePhases, TransactPhases, AfterCommit, AppendPhases
  <2>5. PICK x \in commits : x.n = op[c].n /\ x.body = op[c].body
    BY <2>1, <2>4 DEF RequestOK
  <2>6. x \in commits' /\ x.n \in lost'
    BY <2>5, FailIs
  <2> QED  BY <2>3, <2>5, <2>6 DEF Orderly
<1>2. \A k \in Keys : Orderly(k)' => ~Owes(c, k)
  BY <1>1
<1> QED  BY <1>2, FailIs DEF QuietOf

LEMMA StreamStepIs ==
    ASSUME IInv, OwedNamed, NEW c \in Clients, Step(c)
    PROVE  \/ QuietOf(c)
           \/ \E owed \in Seq(Changes) : CommitOf(c, owed)
           \/ AppendRecord(c)
<1>1. CASE BeginSingle(c) \/ BeginTransact(c)
  BY <1>1, BeginIs DEF QuietOf, Owes
<1>2. CASE CheckCondition(c) \/ LoadForUpdate(c) \/ ReadOld(c)
  BY <1>2, ReadsIs DEF QuietOf, Owes
<1>3. CASE WriteItem(c)
  BY <1>3, WriteItemIs
<1>4. CASE Apply(c)
  BY <1>4, ApplyIs DEF QuietOf, Owes
<1>5. CASE ReadOrd(c)
  BY <1>5, ReadOrdIs DEF QuietOf
<1>6. CASE CheckToken(c)
  BY <1>6, CheckTokenIs DEF QuietOf, Owes
<1>7. CASE SweepToken(c)
  BY <1>7, SweepIs DEF QuietOf, Owes
<1>8. CASE StoreToken(c)
  BY <1>8, StoreIs DEF QuietOf, Owes
<1>9. CASE Fail(c)
  BY <1>9, FailQuiet
<1> QED  BY <1>1, <1>2, <1>3, <1>4, <1>5, <1>6, <1>7, <1>8, <1>9 DEF Step

-----------------------------------------------------------------------------
(* The invariant of items and records is kept.                             *)

\* The write of a single-item request is of a key its body names.
LEMMA FirstKey ==
    ASSUME IInv, NEW c \in Clients, op[c].phase \in SinglePhases
    PROVE  op[c].body.writes[1].key \in Keys \cap KeysOf(op[c].body) /\ Running(c)
<1>1. Running(c)
  BY DEF Running, SinglePhases
<1>2. op[c].body.writes \in Seq(Action) /\ op[c].body.writes # <<>>
  BY <1>1, OfRunning DEF Op, Body, RequestOK
<1>3. 1 \in DOMAIN op[c].body.writes
  BY <1>2
<1> QED  BY <1>1, <1>3, FirstWrite DEF KeysOf

\* No other request owes a change of a key c's request names.
LEMMA OthersOweNone ==
    ASSUME SoloRunning, OwedNamed, NEW c \in Clients, NEW d \in Clients, NEW k \in Keys,
           Running(c), k \in KeysOf(op[c].body), Orderly(k), Owes(d, k)
    PROVE  d = c
BY SoloKey DEF OwedNamed, Owes

LEMMA OwedNamedStep ==
    ASSUME IInv, OwedNamed, NEW c \in Clients, Step(c)
    PROVE  OwedNamed'
<1> DEFINE Named(d) ==
        /\ \A i \in DOMAIN op'[d].owed : op'[d].owed[i].key \in KeysOf(op'[d].body)
        /\ \A i, j \in DOMAIN op'[d].owed : op'[d].owed[i].key = op'[d].owed[j].key => i = j
<1>1. \A d \in Clients : d # c /\ Running(d)' => Named(d)
  BY StepIs DEF OthersSame, OwedNamed, Running
<1>2. Running(c)' => Named(c)
  <2>1. CASE QuietOf(c)
    <3>1. CASE op'[c].owed = <<>>
      BY <3>1
    <3>2. CASE SameRequest(c) /\ op'[c].owed = op[c].owed
      BY <3>2 DEF SameRequest, OwedNamed
    <3> QED  BY <2>1, <3>1, <3>2 DEF QuietOf
  <2>2. ASSUME NEW owed \in Seq(Changes), CommitOf(c, owed) PROVE Named(c)
    BY <2>2 DEF CommitOf, SameRequest
  <2>3. CASE AppendRecord(c)
    <3>1. SameRequest(c) /\ Running(c)
      BY <2>3, AppendIs DEF SameRequest
    <3>2. \A i \in DOMAIN op'[c].owed : \E j \in DOMAIN op[c].owed :
            j = i + 1 /\ op'[c].owed[i] = op[c].owed[j]
      BY <2>3, AppendIs
    <3>3. \A i \in DOMAIN op'[c].owed : op'[c].owed[i].key \in KeysOf(op'[c].body)
      BY <3>1, <3>2 DEF SameRequest, OwedNamed
    <3>4. ASSUME NEW i \in DOMAIN op'[c].owed, NEW j \in DOMAIN op'[c].owed,
                 op'[c].owed[i].key = op'[c].owed[j].key
          PROVE  i = j
      <4>1. i + 1 = j + 1
        BY <3>1, <3>2, <3>4 DEF OwedNamed
      <4>2. i \in Nat /\ j \in Nat
        <5>1. SameRequest(c) /\ IInv'
          BY <3>1, StepOK DEF Next
        <5>2. op'[c].owed \in Seq(Changes)
          BY <5>1 DEF IInv, TypeOK, Op
        <5> QED  BY <5>2
      <4> QED  BY <4>1, <4>2
    <3> QED  BY <3>3, <3>4
  <2> HIDE DEF Named
  <2> QED  BY <2>1, <2>2, <2>3, StreamStepIs
<1>3. \A d \in Clients : Running(d)' => Named(d)
  BY <1>1, <1>2
<1> SUFFICES ASSUME NEW d \in Clients, Running(d)'
             PROVE  /\ \A i \in DOMAIN op'[d].owed : op'[d].owed[i].key \in KeysOf(op'[d].body)
                    /\ \A i, j \in DOMAIN op'[d].owed :
                          op'[d].owed[i].key = op'[d].owed[j].key => i = j
  BY DEF OwedNamed
<1> QED  BY <1>3

\* Where neither the item, the records nor the changes owed of k change, the
\* stream goes on telling the item.
LEMMA ToldStays ==
    ASSUME NEW k \in Keys, Told(k), Of(k)' = Of(k), items'[k] = items[k],
           \A d \in Clients : Owes(d, k) => Owes(d, k)',
           \A d \in Clients : Running(d)' =>
             \A i \in DOMAIN op'[d].owed : op'[d].owed[i].key = k =>
               Running(d) /\ \E j \in DOMAIN op[d].owed : op[d].owed[j] = op'[d].owed[i]
    PROVE  Told(k)'
<1>1. Linked(Of(k))' /\ Replay(Of(k))' = Replay(Of(k))
  BY DEF Told
<1>2. (\A d \in Clients : ~Owes(d, k)') => items'[k] = Replay(Of(k))'
  BY <1>1 DEF Told
<1>3. ASSUME NEW d \in Clients, Running(d)', NEW i \in DOMAIN op'[d].owed, op'[d].owed[i].key = k
      PROVE  op'[d].owed[i].old = Replay(Of(k))' /\ op'[d].owed[i].new = items'[k]
  <2>1. Running(d)
    BY <1>3
  <2>2. PICK j \in DOMAIN op[d].owed : op[d].owed[j] = op'[d].owed[i]
    BY <1>3
  <2> QED  BY <1>1, <1>3, <2>1, <2>2 DEF Told
<1> QED  BY <1>1, <1>2, <1>3 DEF Told

\* A step of c that leaves the item and the records of k alone, and what c
\* owes of k.
LEMMA ToldApart ==
    ASSUME NEW k \in Keys, NEW c \in Clients, Told(k), Of(k)' = Of(k), items'[k] = items[k],
           OthersSame(c), Owes(c, k) => Owes(c, k)',
           Running(c)' =>
             \A i \in DOMAIN op'[c].owed : op'[c].owed[i].key = k =>
               Running(c) /\ \E j \in DOMAIN op[c].owed : op[c].owed[j] = op'[c].owed[i]
    PROVE  Told(k)'
<1>1. \A d \in Clients : Owes(d, k) => Owes(d, k)'
  BY DEF Owes, Running, OthersSame
<1>2. \A d \in Clients : Running(d)' =>
             \A i \in DOMAIN op'[d].owed : op'[d].owed[i].key = k =>
               Running(d) /\ \E j \in DOMAIN op[d].owed : op[d].owed[j] = op'[d].owed[i]
  <2> SUFFICES ASSUME NEW d \in Clients, Running(d)', NEW i \in DOMAIN op'[d].owed, op'[d].owed[i].key = k
               PROVE  Running(d) /\ \E j \in DOMAIN op[d].owed : op[d].owed[j] = op'[d].owed[i]
    OBVIOUS
  <2>1. CASE d = c
    BY <2>1
  <2>2. CASE d # c
    BY <2>2 DEF OthersSame, Running
  <2> QED  BY <2>1, <2>2
<1> QED  BY <1>1, <1>2, ToldStays

\* A commit of k finds the stream telling the item, and owes the change that
\* leads from it.
LEMMA ToldCommit ==
    ASSUME IInv, ReplayInv, NEW c \in Clients, NEW owed \in Seq(Changes), CommitOf(c, owed),
           NEW k \in Keys, Orderly(k)
    PROVE  Told(k)'
<1>1. Told(k) /\ SoloRunning /\ OwedNamed
  BY DEF ReplayInv, StreamTold
<1>2. /\ SameRequest(c) /\ Running(c) /\ OthersSame(c) /\ op[c].owed = <<>> /\ op'[c].owed = owed
      /\ stream' = stream /\ Of(k)' = Of(k)
  BY DEF CommitOf, SameRequest, Of
<1>3. ~Owes(c, k)
  BY <1>2 DEF Owes
<1>4. CASE ~\E i \in DOMAIN owed : owed[i].key = k
  <2>1. items'[k] = items[k]
    BY <1>4 DEF CommitOf
  <2> QED  BY <1>1, <1>2, <1>3, <1>4, <2>1, ToldApart
<1>5. ASSUME NEW i \in DOMAIN owed, owed[i].key = k
      PROVE  Told(k)'
  <2>1. k \in KeysOf(op[c].body)
    BY <1>5 DEF CommitOf
  <2>2. \A d \in Clients : ~Owes(d, k)
    BY <1>1, <1>2, <1>3, <2>1, OthersOweNone
  <2>3. items[k] = Replay(Of(k)) /\ Linked(Of(k))
    BY <1>1, <2>2 DEF Told
  <2>4. owed[i].old = items[k]
    <3>1. CASE op[c].phase = "write"
      BY <1>5, <3>1 DEF CommitOf, ReplayInv, OldCurrent
    <3>2. CASE op[c].phase = "apply"
      BY <1>5, <3>2 DEF CommitOf
    <3> QED  BY <3>1, <3>2 DEF CommitOf
  <2>5. owed[i].new = items'[k] /\ \A j \in DOMAIN owed : owed[j].key = k => j = i
    BY <1>5 DEF CommitOf
  <2>6. Linked(Of(k))' /\ Replay(Of(k))' = Replay(Of(k))
    BY <1>2, <2>3
  <2>7. Owes(c, k)'
    <3>1. owed # <<>>
      BY <1>5
    <3>2. op'[c].phase # "idle"
      BY <3>1 DEF CommitOf
    <3> QED  BY <1>2, <1>5, <3>2 DEF Owes, Running
  <2>8. ASSUME NEW d \in Clients, Running(d)', NEW j \in DOMAIN op'[d].owed, op'[d].owed[j].key = k
        PROVE  op'[d].owed[j].old = Replay(Of(k))' /\ op'[d].owed[j].new = items'[k]
    <3>1. d = c
      BY <1>2, <2>2, <2>8 DEF OthersSame, Owes, Running
    <3>2. j = i /\ op'[d].owed[j] = owed[i]
      BY <1>2, <2>5, <2>8, <3>1
    <3> QED  BY <2>3, <2>4, <2>5, <2>6, <3>2
  <2> QED  BY <2>6, <2>7, <2>8 DEF Told
<1> QED  BY <1>4, <1>5

\* The record of a change of k comes on top of the others.
LEMMA ToldAppend ==
    ASSUME IInv, ReplayInv, NEW c \in Clients, AppendRecord(c), NEW k \in Keys, Orderly(k)
    PROVE  Told(k)'
<1> DEFINE ch == op[c].owed[1]
           r == [ord |-> op[c].ord, change |-> ch]
<1>1. Told(k) /\ SoloRunning /\ OwedNamed /\ OrdAbove
  BY DEF ReplayInv, StreamTold
<1>2. /\ SameRequest(c) /\ Running(c) /\ OthersSame(c) /\ op[c].phase = "append"
      /\ 1 \in DOMAIN op[c].owed /\ stream' = stream \cup {r} /\ items' = items
  BY AppendIs DEF SameRequest
<1>3. r.change = ch /\ r.ord = op[c].ord
  OBVIOUS
<1>4. /\ \A i \in DOMAIN op'[c].owed : \E j \in DOMAIN op[c].owed : j # 1 /\ op'[c].owed[i] = op[c].owed[j]
      /\ \A j \in DOMAIN op[c].owed : j = 1 \/ \E i \in DOMAIN op'[c].owed : op'[c].owed[i] = op[c].owed[j]
      /\ op'[c].phase = "idle" => op'[c].owed = <<>>
  BY AppendIs
<1> HIDE DEF ch, r
<1>5. CASE ch.key # k
  <2>1. Of(k)' = Of(k)
    BY <1>2, <1>3, <1>5 DEF Of
  <2>2. Owes(c, k) => Owes(c, k)'
    <3> SUFFICES ASSUME Owes(c, k) PROVE Owes(c, k)'
      OBVIOUS
    <3>1. PICK j \in DOMAIN op[c].owed : op[c].owed[j].key = k
      BY DEF Owes
    <3>2. j # 1
      BY <1>5, <3>1 DEF ch
    <3>3. PICK i \in DOMAIN op'[c].owed : op'[c].owed[i] = op[c].owed[j]
      BY <1>4, <3>2
    <3>4. op'[c].phase # "idle"
      BY <1>4, <3>3
    <3> QED  BY <3>1, <3>3, <3>4 DEF Owes, Running
  <2>3. \A i \in DOMAIN op'[c].owed : \E j \in DOMAIN op[c].owed : op[c].owed[j] = op'[c].owed[i]
    BY <1>4
  <2>4. items'[k] = items[k]
    BY <1>2
  <2> QED  BY <1>1, <1>2, <2>1, <2>2, <2>3, <2>4, ToldApart
<1>6. CASE ch.key = k
  <2>1. k \in KeysOf(op[c].body)
    BY <1>1, <1>2, <1>6 DEF OwedNamed, ch
  <2>2. \A s \in Of(k) : s.ord < op[c].ord
    BY <1>1, <1>2, <2>1 DEF OrdAbove
  <2>3. op[c].ord \in Nat /\ \A s \in Of(k) : s.ord \in Nat
    BY <1>2, OfRunning DEF Op, IInv, TypeOK, Record, Of
  <2>4. ch.old = Replay(Of(k)) /\ ch.new = items[k] /\ Linked(Of(k))
    BY <1>1, <1>2, <1>6 DEF Told, ch
  <2>5. Of(k)' = Of(k) \cup {r}
    BY <1>2, <1>3, <1>6 DEF Of
  <2>6. Linked(Of(k) \cup {r}) /\ Replay(Of(k) \cup {r}) = ch.new
    BY <1>3, <2>2, <2>3, <2>4, LinkedOnTop
  <2>7. Linked(Of(k))' /\ Replay(Of(k))' = items'[k]
    BY <1>2, <2>4, <2>5, <2>6
  <2>8. ASSUME NEW d \in Clients, Running(d)', NEW i \in DOMAIN op'[d].owed, op'[d].owed[i].key = k
        PROVE  FALSE
    <3>1. CASE d = c
      <4>1. PICK j \in DOMAIN op[c].owed : j # 1 /\ op'[c].owed[i] = op[c].owed[j]
        BY <1>4, <2>8, <3>1
      <4> QED  BY <1>1, <1>2, <1>6, <2>8, <3>1, <4>1 DEF OwedNamed, ch
    <3>2. CASE d # c
      <4>1. Owes(d, k)
        BY <1>2, <2>8, <3>2 DEF OthersSame, Owes, Running
      <4> QED  BY <1>1, <1>2, <2>1, <3>2, <4>1, OthersOweNone
    <3> QED  BY <3>1, <3>2
  <2> QED  BY <2>7, <2>8 DEF Told
<1> QED  BY <1>5, <1>6

LEMMA ToldQuiet ==
    ASSUME IInv, ReplayInv, NEW c \in Clients, Step(c), QuietOf(c), NEW k \in Keys,
           Orderly(k), Orderly(k)'
    PROVE  Told(k)'
<1>1. Told(k) /\ OthersSame(c) /\ Of(k)' = Of(k) /\ items'[k] = items[k]
  BY StepIs DEF ReplayInv, StreamTold, QuietOf, Of
<1>2. CASE SameRequest(c) /\ op'[c].phase # "idle" /\ op'[c].owed = op[c].owed
  BY <1>1, <1>2, ToldApart DEF SameRequest, Owes, Running
<1>3. CASE op'[c].owed = <<>> /\ ~Owes(c, k)
  BY <1>1, <1>3, ToldApart
<1> QED  BY <1>2, <1>3 DEF QuietOf

LEMMA StreamToldStep ==
    ASSUME IInv, ReplayInv, NEW c \in Clients, Step(c)
    PROVE  StreamTold'
<1> SUFFICES ASSUME NEW k \in Keys, Orderly(k)' PROVE Told(k)'
  BY DEF StreamTold
<1>1. Orderly(k)
  BY StepIs, OrderlyBefore
<1>2. OwedNamed
  BY DEF ReplayInv
<1> QED  BY <1>1, <1>2, StreamStepIs, ToldQuiet, ToldCommit, ToldAppend

\* What a single-item request read stays while nobody else writes the key.
LEMMA OldCurrentStep ==
    ASSUME IInv, ReplayInv, NEW c \in Clients, Step(c)
    PROVE  OldCurrent'
<1> SUFFICES ASSUME NEW d \in Clients, op'[d].phase = "write", Orderly(op[d].body.writes[1].key)',
                    op'[d].body = op[d].body
             PROVE  op'[d].old = items'[op[d].body.writes[1].key]
  <2>1. ASSUME NEW d \in Clients, op'[d].phase = "write" PROVE op'[d].body = op[d].body
    <3>1. CASE d # c
      BY <3>1, StepIs DEF OthersSame
    <3>2. CASE d = c
      <4>1. QuietOf(c)
        BY <2>1, <3>2, StreamStepIs, AppendIs DEF ReplayInv, CommitOf
      <4> QED  BY <2>1, <3>2, <4>1 DEF QuietOf, SameRequest
    <3> QED  BY <3>1, <3>2
  <2> QED  BY <2>1 DEF OldCurrent, Orderly
<1> DEFINE k == op[d].body.writes[1].key
<1>1. Orderly(k)
  BY StepIs, OrderlyBefore
<1>2. CASE d = c
  <2>1. QuietOf(c)
    BY <1>2, StreamStepIs, AppendIs DEF ReplayInv, CommitOf
  <2> QED  BY <1>2, <2>1 DEF QuietOf
<1>3. CASE d # c
  <2>1. op'[d] = op[d] /\ op[d].phase = "write"
    BY <1>3, StepIs DEF OthersSame
  <2>2. k \in Keys /\ k \in KeysOf(op[d].body) /\ Running(d)
    BY <2>1, FirstKey DEF SinglePhases
  <2>3. op[d].old = items[k]
    BY <1>1, <2>1 DEF ReplayInv, OldCurrent
  <2> HIDE DEF k
  <2>4. ASSUME NEW owed \in Seq(Changes), CommitOf(c, owed) PROVE items'[k] = items[k]
    <3>1. ASSUME NEW i \in DOMAIN owed, owed[i].key = k PROVE FALSE
      <4>1. k \in KeysOf(op[c].body) /\ Running(c)
        BY <2>4, <3>1 DEF CommitOf, SameRequest
      <4> QED  BY <1>1, <1>3, <2>2, <4>1, SoloKey DEF ReplayInv
    <3> QED  BY <2>2, <2>4, <3>1 DEF CommitOf
  <2>5. items'[k] = items[k]
    BY <2>4, StreamStepIs, AppendIs DEF ReplayInv, QuietOf
  <2> QED  BY <2>1, <2>3, <2>5 DEF k
<1> QED  BY <1>2, <1>3

\* Nobody else appends to the records of a key the request names.
LEMMA OrdAboveStep ==
    ASSUME IInv, ReplayInv, NEW c \in Clients, Step(c)
    PROVE  OrdAbove'
<1> SUFFICES ASSUME NEW d \in Clients, NEW k \in Keys, op'[d].phase = "append",
                    k \in KeysOf(op'[d].body), Orderly(k)', NEW r \in Of(k)'
             PROVE  r.ord < op'[d].ord
  BY DEF OrdAbove, KeysOf
<1>1. Orderly(k)
  BY StepIs, OrderlyBefore
<1>2. CASE d = c
  <2>1. QuietOf(c)
    BY <1>2, StreamStepIs, AppendIs DEF ReplayInv, CommitOf
  <2>2. r \in stream
    BY <2>1 DEF QuietOf, Of
  <2> QED  BY <1>2, <2>1, <2>2, NextOrdAbove DEF QuietOf, IInv
<1>3. CASE d # c
  <2>1. op'[d] = op[d] /\ op[d].phase = "append" /\ Running(d) /\ k \in KeysOf(op[d].body)
    BY <1>3, StepIs DEF OthersSame, Running
  <2>2. CASE r \in Of(k)
    BY <1>1, <2>1, <2>2 DEF ReplayInv, OrdAbove
  <2>3. CASE r \notin Of(k)
    <3>1. r \in stream' /\ r \notin stream /\ r.change.key = k
      BY <2>3 DEF Of
    <3>2. AppendRecord(c)
      BY <3>1, StreamStepIs DEF ReplayInv, QuietOf, CommitOf
    <3>3. r.change = op[c].owed[1] /\ 1 \in DOMAIN op[c].owed /\ Running(c)
      BY <3>1, <3>2, AppendIs DEF SameRequest
    <3>4. Owes(c, k)
      BY <3>1, <3>3 DEF Owes
    <3> QED  BY <1>1, <1>3, <2>1, <3>4, OthersOweNone DEF ReplayInv
  <2> QED  BY <2>2, <2>3
<1> QED  BY <1>2, <1>3

LEMMA ReplayTick ==
    ASSUME ReplayInv, Tick \/ UNCHANGED vars
    PROVE  ReplayInv'
<1>1. /\ op' = op /\ items' = items /\ stream' = stream /\ commits' = commits
      /\ tangled' = tangled /\ lost' = lost
  BY DEF Tick, vars, history
<1>2. \A name : Orderly(name)' <=> Orderly(name)
  BY <1>1 DEF Orderly
<1>3. SoloRunning' /\ OwedNamed'
  <2>1. SoloRunning'
    BY <1>1 DEF ReplayInv, SoloRunning, Running, Names
  <2>2. OwedNamed'
    BY <1>1 DEF ReplayInv, OwedNamed, Running
  <2> QED  BY <2>1, <2>2
<1>4. \A k \in Keys : Of(k)' = Of(k)
  BY <1>1 DEF Of
<1>5. StreamTold'
  <2> SUFFICES ASSUME NEW k \in Keys, Orderly(k)' PROVE Told(k)'
    BY DEF StreamTold
  <2>1. Told(k)
    BY <1>2 DEF ReplayInv, StreamTold
  <2>2. \A d \in Clients : Owes(d, k) => Owes(d, k)'
    BY <1>1 DEF Owes, Running
  <2>3. \A d \in Clients : Running(d)' =>
             \A i \in DOMAIN op'[d].owed : op'[d].owed[i].key = k =>
               Running(d) /\ \E j \in DOMAIN op[d].owed : op[d].owed[j] = op'[d].owed[i]
    BY <1>1 DEF Running
  <2> QED  BY <1>1, <1>4, <2>1, <2>2, <2>3, ToldStays
<1>6. OldCurrent' /\ OrdAbove'
  BY <1>1, <1>2, <1>4 DEF ReplayInv, OldCurrent, OrdAbove, KeysOf
<1> QED  BY <1>3, <1>5, <1>6 DEF ReplayInv

LEMMA ReplayInit == Init => ReplayInv
<1> SUFFICES ASSUME Init PROVE ReplayInv
  OBVIOUS
<1>1. \A c \in Clients : op[c].phase = "idle"
  BY DEF Init, Request
<1>2. SoloRunning /\ OwedNamed /\ OldCurrent /\ OrdAbove
  BY <1>1 DEF SoloRunning, OwedNamed, OldCurrent, OrdAbove, Running
<1>3. \A k \in Keys : Of(k) = {} /\ items[k] = NoItem
  BY DEF Init, Of
<1>4. Linked({}) /\ Replay({}) = NoItem
  BY DEF Linked, Replay
<1>5. StreamTold
  BY <1>1, <1>3, <1>4 DEF StreamTold, Told, Running
<1> QED  BY <1>2, <1>5 DEF ReplayInv

\* The stream of a key whose writers came one after the other, read in the
\* order of its ordinals, is the history of the item.
THEOREM StreamTellsItem == Spec => []StreamReplaysItem
<1>1. ReplayInv /\ IInv /\ [Next]_vars => ReplayInv'
  <2> SUFFICES ASSUME ReplayInv, IInv, [Next]_vars PROVE ReplayInv'
    OBVIOUS
  <2>1. CASE Tick \/ UNCHANGED vars
    BY <2>1, ReplayTick
  <2>2. ASSUME NEW c \in Clients, Step(c) PROVE ReplayInv'
    <3>1. SoloRunning' /\ OwedNamed'
      BY <2>2, SoloStep, OwedNamedStep DEF ReplayInv
    <3>2. StreamTold' /\ OldCurrent' /\ OrdAbove'
      BY <2>2, StreamToldStep, OldCurrentStep, OrdAboveStep
    <3> QED  BY <3>1, <3>2 DEF ReplayInv
  <2> QED  BY <2>1, <2>2 DEF Next
<1>2. ReplayInv => StreamReplaysItem
  <2> SUFFICES ASSUME ReplayInv, NEW k \in Keys, Orderly(k),
                      \A c \in Clients : Running(c) => k \notin Names(op[c])
               PROVE  Linked(Of(k)) /\ items[k] = Replay(Of(k))
    BY DEF StreamReplaysItem, Linked
  <2>1. \A c \in Clients : ~Owes(c, k)
    BY DEF ReplayInv, OwedNamed, Owes, Names
  <2> QED  BY <2>1 DEF ReplayInv, StreamTold, Told
<1> QED  BY <1>1, <1>2, ReplayInit, Invariant, PTL DEF Spec

=============================================================================
