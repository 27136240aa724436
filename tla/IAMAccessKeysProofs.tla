------------------------- MODULE IAMAccessKeysProofs -------------------------
(***************************************************************************)
(* Proofs about IAMAccessKeys: type correctness, the coherence of the      *)
(* cache, the finality of a revocation, and that lookups behind the cache  *)
(* implement AccessKeyRegister.                                            *)
(*                                                                         *)
(* The invariant that carries all four says what the generation check      *)
(* buys: a lookup whose generation is still the cache's holds a row that   *)
(* is current, because every change of the key since it was read is still  *)
(* to be invalidated (FillCurrent); generations noted are never ahead of   *)
(* the cache's (GenPast); and a lookup that can still answer with an       *)
(* active row has seen the key usable (LiveCovers).  That a row has a      *)
(* minted id (RowsMinted) keeps an insertion from replacing a row.         *)
(***************************************************************************)
EXTENDS IAMAccessKeys, TLAPS

FillCurrent ==
    \A c \in Clients :
      op[c].kind = "fill" /\ op[c].gen = gen => op[c].row \in Current(op[c].key)

GenPast ==
    \A c \in Clients : op[c].kind \in {"lookup", "fill"} => op[c].gen \leq gen

LiveCovers ==
    \A c \in Clients :
      /\ op[c].kind = "lookup" =>
           \A r \in Current(op[c].key) : IsActive(r) => op[c].live
      /\ op[c].kind \in {"fill", "done"} => (IsActive(op[c].row) => op[c].live)

RowsMinted == \A k \in KeyIds : rows[k] # NoRow => k \in minted

IInv == TypeOK /\ CacheCurrent /\ FillCurrent /\ GenPast /\ LiveCovers /\ RowsMinted

Ops == {Idle} \cup Missed \cup Loaded \cup Found \cup Changed \cup Checked

-----------------------------------------------------------------------------
(* The six shapes an operation can have are told apart by their kind.      *)

LEMMA OpByKind ==
    ASSUME NEW o \in Ops
    PROVE  /\ o.kind = "lookup" => o \in Missed
           /\ o.kind = "fill" => o \in Loaded
           /\ o.kind = "done" => o \in Found
           /\ o.kind = "invalidate" => o \in Changed
           /\ o.kind \in {"createKey", "deleteUser"} => o \in Checked
           /\ o.kind = "idle" => o = Idle
           /\ o.kind \in {"lookup", "fill", "done", "invalidate", "createKey", "deleteUser", "idle"}
BY DEF Ops, Idle, Missed, Loaded, Found, Changed, Checked

\* Notice touches nothing but the history of a lookup.
LEMMA NoticeKeeps ==
    ASSUME NEW o \in Ops, NEW k, NEW r
    PROVE  /\ Notice(o, k, r) \in Ops
           /\ Notice(o, k, r).kind = o.kind
           /\ o.kind \in {"lookup", "fill"} =>
                /\ Notice(o, k, r).key = o.key
                /\ Notice(o, k, r).gen = o.gen
                /\ Notice(o, k, r).live = (o.live \/ (o.key = k /\ IsActive(r)))
           /\ o.kind = "fill" => Notice(o, k, r).row = o.row
           /\ o.kind \notin {"lookup", "fill"} => Notice(o, k, r) = o
<1> USE DEF Ops
<1>1. CASE o.kind = "lookup"
  <2>1. o \in Missed  BY <1>1, OpByKind
  <2> QED  BY <1>1, <2>1 DEF Notice, Missed
<1>2. CASE o.kind = "fill"
  <2>1. o \in Loaded  BY <1>2, OpByKind
  <2> QED  BY <1>2, <2>1 DEF Notice, Loaded
<1>3. CASE o.kind \notin {"lookup", "fill"}
  BY <1>3 DEF Notice
<1> QED  BY <1>1, <1>2, <1>3

\* Membership in Current, spelled out.
LEMMA CurrentMember ==
    ASSUME NEW k, NEW r
    PROVE  r \in Current(k) <=>
             \/ r = rows[k]
             \/ \E d \in Clients : op[d].kind = "invalidate" /\ op[d].key = k /\ op[d].old = r
BY DEF Current, Replaced

-----------------------------------------------------------------------------
(* Steps that leave the rows and the cache alone and move one request.     *)

LEMMA QuietStep ==
    ASSUME IInv,
           NEW c \in Clients, NEW o \in Ops,
           op' = [op EXCEPT ![c] = o],
           rows' = rows, cache' = cache, gen' = gen, minted' = minted,
           users' \in SUBSET Users,
           op[c].kind # "invalidate", o.kind # "invalidate",
           o.kind = "lookup" =>
             o.gen = gen /\ \A r \in Current(o.key) : IsActive(r) => o.live,
           o.kind = "fill" => o.gen \leq gen /\ o.row \in Current(o.key),
           o.kind \in {"fill", "done"} => (IsActive(o.row) => o.live)
    PROVE  IInv'
<1> op \in [Clients -> Ops]  BY DEF IInv, TypeOK, Ops
<1>1. op'[c] = o /\ \A d \in Clients : d # c => op'[d] = op[d]
  OBVIOUS
<1>2. TypeOK'
  BY DEF IInv, TypeOK, Ops
<1>3. \A k, r : (r \in Current(k))' <=> r \in Current(k)
  BY <1>1 DEF Current, Replaced
<1>4. CacheCurrent'
  BY <1>3 DEF IInv, CacheCurrent
<1>5. FillCurrent'
  BY <1>1, <1>3 DEF IInv, FillCurrent
<1>6. GenPast'
  <2>1. gen \in Nat  BY DEF IInv, TypeOK
  <2> QED  BY <1>1, <2>1 DEF IInv, GenPast
<1>7. LiveCovers'
  BY <1>1, <1>3 DEF IInv, LiveCovers, IsActive
<1>8. RowsMinted'
  BY DEF IInv, RowsMinted
<1> QED  BY <1>2, <1>4, <1>5, <1>6, <1>7, <1>8 DEF IInv

(* Steps that write the row of one key.  A row that was there is           *)
(* remembered by the invalidation still to come.                           *)

LEMMA RowStep ==
    ASSUME IInv,
           NEW c \in Clients, NEW k \in KeyIds, NEW r \in Row \cup {NoRow}, NEW next \in Ops,
           SetRow(c, k, r, next),
           next.kind \in {"idle", "invalidate"},
           next.kind = "invalidate" => next.key = k /\ next.old = rows[k],
           rows[k] # NoRow => next.kind = "invalidate",
           op[c].kind # "invalidate",
           minted' \in SUBSET KeyIds, minted \subseteq minted', r # NoRow => k \in minted',
           cache' = cache, gen' = gen, users' = users
    PROVE  IInv'
<1> op \in [Clients -> Ops]  BY DEF IInv, TypeOK, Ops
<1>1. op'[c] = next
  BY DEF SetRow
<1>2. \A d \in Clients : d # c => op'[d] = Notice(op[d], k, r)
  BY DEF SetRow
<1>3. \A d \in Clients : op'[d].kind = "invalidate" /\ d # c => op'[d] = op[d] /\ op[d].kind = "invalidate"
  BY <1>2, NoticeKeeps
<1>4. \A d \in Clients : op[d].kind = "invalidate" => d # c /\ op'[d] = op[d]
  BY <1>2, NoticeKeeps
<1>5. rows'[k] = r /\ \A j \in KeyIds : j # k => rows'[j] = rows[j]
  BY DEF SetRow, IInv, TypeOK
<1>6. TypeOK'
  <2>1. \A d \in Clients : op'[d] \in Ops
    BY <1>1, <1>2, NoticeKeeps
  <2>2. op' \in [Clients -> Ops]
    BY <2>1 DEF SetRow
  <2>3. rows' \in [KeyIds -> Row \cup {NoRow}]
    BY DEF SetRow, IInv, TypeOK
  <2> QED  BY <2>2, <2>3 DEF IInv, TypeOK, Ops
<1>7. \A j \in KeyIds : \A x : x \in Current(j) /\ x # NoRow => (x \in Current(j))'
  <2> SUFFICES ASSUME NEW j \in KeyIds, NEW x, x \in Current(j), x # NoRow
               PROVE  (x \in Current(j))'
    OBVIOUS
  <2>1. CASE x = rows[j] /\ j = k
    BY <1>1, <2>1 DEF Current, Replaced
  <2>2. CASE x = rows[j] /\ j # k
    BY <1>5, <2>2 DEF Current
  <2>3. CASE x # rows[j]
    <3>1. PICK d \in Clients : op[d].kind = "invalidate" /\ op[d].key = j /\ op[d].old = x
      BY <2>3, CurrentMember
    <3> QED  BY <3>1, <1>4 DEF Current, Replaced
  <2> QED  BY <2>1, <2>2, <2>3
<1>8. \A j \in KeyIds : \A x : (x \in Current(j))' => x \in Current(j) \/ (j = k /\ x = r)
  <2> SUFFICES ASSUME NEW j \in KeyIds, NEW x, (x \in Current(j))'
               PROVE  x \in Current(j) \/ (j = k /\ x = r)
    OBVIOUS
  <2>1. CASE x = rows'[j]
    BY <1>5, <2>1 DEF Current
  <2>2. CASE x # rows'[j]
    <3>1. PICK d \in Clients : op'[d].kind = "invalidate" /\ op'[d].key = j /\ op'[d].old = x
      BY <2>2 DEF Current, Replaced
    <3>2. CASE d = c
      <4>1. next.kind = "invalidate" /\ j = k /\ x = next.old
        BY <1>1, <3>1, <3>2
      <4> QED  BY <4>1 DEF Current
    <3>3. CASE d # c
      BY <1>3, <3>1, <3>3 DEF Current, Replaced
    <3> QED  BY <3>2, <3>3
  <2> QED  BY <2>1, <2>2
<1>9. CacheCurrent'
  BY <1>7 DEF IInv, CacheCurrent
<1>10. \A d \in Clients : op'[d].kind \in {"lookup", "fill", "done"} =>
         /\ d # c
         /\ op'[d] = Notice(op[d], k, r)
         /\ op'[d].kind = op[d].kind
  BY <1>1, <1>2, NoticeKeeps
<1>11. FillCurrent'
  <2> SUFFICES ASSUME NEW d \in Clients, op'[d].kind = "fill", op'[d].gen = gen
               PROVE  (op[d].row \in Current(op[d].key))'
    BY DEF FillCurrent
  <2>1. op[d].kind = "fill" /\ op'[d] = Notice(op[d], k, r)
    BY <1>10
  <2>2. op'[d].key = op[d].key /\ op'[d].gen = op[d].gen /\ op'[d].row = op[d].row
    BY <2>1, NoticeKeeps
  <2>3. op[d].key \in KeyIds /\ op[d].row # NoRow
    BY <2>1, OpByKind, NoRowAssumption DEF Loaded
  <2>4. op[d].row \in Current(op[d].key)
    BY <2>1, <2>2 DEF IInv, FillCurrent
  <2> QED  BY <2>2, <2>3, <2>4, <1>7
<1>12. GenPast'
  BY <1>10, NoticeKeeps DEF IInv, GenPast
<1>13. LiveCovers'
  <2> SUFFICES ASSUME NEW d \in Clients
               PROVE  /\ op'[d].kind = "lookup" =>
                           \A x : (x \in Current(op[d].key))' => (IsActive(x) => op'[d].live)
                      /\ op'[d].kind \in {"fill", "done"} => (IsActive(op'[d].row) => op'[d].live)
    BY DEF LiveCovers, IsActive
  <2>1. CASE op'[d].kind = "lookup"
    <3>1. op[d].kind = "lookup" /\ op'[d] = Notice(op[d], k, r) /\ op[d].key \in KeyIds
      BY <1>10, <2>1, OpByKind DEF Missed
    <3>2. op'[d].key = op[d].key /\ op'[d].live = (op[d].live \/ (op[d].key = k /\ IsActive(r)))
      BY <3>1, NoticeKeeps
    <3>3. \A x \in Current(op[d].key) : IsActive(x) => op[d].live
      BY <3>1 DEF IInv, LiveCovers
    <3> QED  BY <2>1, <3>1, <3>2, <3>3, <1>8
  <2>2. CASE op'[d].kind = "fill"
    <3>1. op[d].kind = "fill" /\ op'[d] = Notice(op[d], k, r)
      BY <1>10, <2>2
    <3>2. op'[d].row = op[d].row /\ op'[d].live = (op[d].live \/ (op[d].key = k /\ IsActive(r)))
      BY <3>1, NoticeKeeps
    <3> QED  BY <2>2, <3>1, <3>2 DEF IInv, LiveCovers
  <2>3. CASE op'[d].kind = "done"
    <3>1. op'[d] = op[d]
      BY <1>10, <2>3, NoticeKeeps
    <3> QED  BY <2>3, <3>1 DEF IInv, LiveCovers
  <2> QED  BY <2>1, <2>2, <2>3
<1>14. RowsMinted'
  BY <1>5 DEF IInv, RowsMinted
<1> QED  BY <1>6, <1>9, <1>11, <1>12, <1>13, <1>14 DEF IInv

-----------------------------------------------------------------------------
(* The actions.                                                            *)

LEMMA InitInv == Init => IInv
BY DEF Init, IInv, TypeOK, CacheCurrent, FillCurrent, GenPast, LiveCovers, RowsMinted, Idle

LEMMA BeginLookupInv == ASSUME IInv, NEW c \in Clients, BeginLookup(c) PROVE IInv'
<1> PICK k \in KeyIds, w \in IF gen < MaxGen THEN Wants ELSE {"verify"} :
      LET o == [kind |-> "lookup", key |-> k, want |-> w, gen |-> gen,
                live |-> \E r \in Current(k) : IsActive(r)]
      IN op' = [op EXCEPT ![c] = IF cache[k] # NoRow THEN Answer(o, cache[k]) ELSE o]
  BY DEF BeginLookup, Goto
<1> DEFINE live == \E r \in Current(k) : IsActive(r)
           miss == [kind |-> "lookup", key |-> k, want |-> w, gen |-> gen, live |-> live]
           hit == [kind |-> "done", key |-> k, want |-> w, row |-> cache[k], live |-> live]
<1>1. gen \in Nat /\ cache[k] \in Row \cup {NoRow} /\ users \in SUBSET Users /\ w \in Wants
  BY DEF IInv, TypeOK, Wants
<1>2. op[c].kind = "idle"
  BY DEF BeginLookup, Idle
<1>3. UNCHANGED <<users, rows, minted, cache, gen>>
  BY DEF BeginLookup
<1>4. live \in BOOLEAN
  OBVIOUS
<1>5. CASE cache[k] # NoRow
  <2>1. op' = [op EXCEPT ![c] = hit]
    BY <1>5 DEF Answer
  <2>2. hit \in Ops
    BY <1>1, <1>4 DEF Ops, Found
  <2>3. IsActive(cache[k]) => live
    BY <1>5 DEF IInv, CacheCurrent
  <2> HIDE DEF live
  <2> QED  BY QuietStep, <1>1, <1>2, <1>3, <2>1, <2>2, <2>3
<1>6. CASE cache[k] = NoRow
  <2>1. op' = [op EXCEPT ![c] = miss]
    BY <1>6
  <2>2. miss \in Ops
    BY <1>1, <1>4 DEF Ops, Missed
  <2>3. \A r \in Current(k) : IsActive(r) => live
    OBVIOUS
  <2> HIDE DEF live
  <2> QED  BY QuietStep, <1>1, <1>2, <1>3, <2>1, <2>2, <2>3
<1> QED  BY <1>5, <1>6

LEMMA LoadRowInv == ASSUME IInv, NEW c \in Clients, LoadRow(c) PROVE IInv'
<1> op[c] \in Ops  BY DEF IInv, TypeOK, Ops
<1>1. op[c].kind = "lookup" /\ op[c] \in Missed
  BY OpByKind DEF LoadRow
<1>2. UNCHANGED <<users, rows, minted, cache, gen>> /\ users \in SUBSET Users
  BY DEF LoadRow, IInv, TypeOK
<1>3. rows[op[c].key] \in Current(op[c].key) /\ rows[op[c].key] \in Row \cup {NoRow}
  BY <1>1 DEF Current, Missed, IInv, TypeOK
<1>4. \A r \in Current(op[c].key) : IsActive(r) => op[c].live
  BY <1>1 DEF IInv, LiveCovers
<1>5. CASE rows[op[c].key] = NoRow
  <2> DEFINE o == [kind |-> "done", key |-> op[c].key, want |-> op[c].want,
                   row |-> NoRow, live |-> op[c].live]
  <2>1. op' = [op EXCEPT ![c] = o]
    BY <1>5 DEF LoadRow, Goto, Answer
  <2>2. o \in Ops
    BY <1>1 DEF Ops, Found, Missed
  <2>3. ~IsActive(NoRow)
    BY DEF IsActive
  <2> QED  BY QuietStep, <1>1, <1>2, <2>1, <2>2, <2>3
<1>6. CASE rows[op[c].key] # NoRow
  <2> DEFINE o == [kind |-> "fill", key |-> op[c].key, want |-> op[c].want,
                   gen |-> op[c].gen, row |-> rows[op[c].key], live |-> op[c].live]
  <2>1. op' = [op EXCEPT ![c] = o]
    BY <1>6 DEF LoadRow, Goto
  <2>2. o \in Ops
    BY <1>1, <1>3, <1>6 DEF Ops, Loaded, Missed
  <2>3. op[c].gen \leq gen
    BY <1>1 DEF IInv, GenPast
  <2>4. IsActive(rows[op[c].key]) => op[c].live
    BY <1>3, <1>4
  <2> QED  BY QuietStep, <1>1, <1>2, <1>3, <2>1, <2>2, <2>3, <2>4
<1> QED  BY <1>5, <1>6

\* The only writer of the cache: what it stores is current, by FillCurrent.
LEMMA FillCacheInv == ASSUME IInv, NEW c \in Clients, FillCache(c) PROVE IInv'
<1> op \in [Clients -> Ops]  BY DEF IInv, TypeOK, Ops
<1> DEFINE o == [kind |-> "done", key |-> op[c].key, want |-> op[c].want,
                 row |-> op[c].row, live |-> op[c].live]
<1>1. op[c].kind = "fill" /\ op[c] \in Loaded
  BY OpByKind DEF FillCache
<1>2. op' = [op EXCEPT ![c] = o] /\ UNCHANGED <<users, rows, minted, gen>>
  BY DEF FillCache, Goto, Answer
<1>3. o \in Ops
  BY <1>1 DEF Ops, Found, Loaded
<1>4. op'[c] = o /\ \A d \in Clients : d # c => op'[d] = op[d]
  BY <1>2
<1>5. \A k, r : (r \in Current(k))' <=> r \in Current(k)
  BY <1>1, <1>2, <1>4 DEF Current, Replaced
<1>6. TypeOK'
  <2>1. cache' \in [KeyIds -> Row \cup {NoRow}]
    BY <1>1 DEF FillCache, IInv, TypeOK, Loaded
  <2> QED  BY <1>2, <1>3, <2>1 DEF IInv, TypeOK, Ops
<1>7. CacheCurrent'
  <2>1. CASE gen = op[c].gen
    <3>1. op[c].row \in Current(op[c].key)
      BY <1>1, <2>1 DEF IInv, FillCurrent
    <3>2. cache' = [cache EXCEPT ![op[c].key] = op[c].row]
      BY <2>1 DEF FillCache
    <3> QED  BY <1>5, <3>1, <3>2 DEF IInv, CacheCurrent, TypeOK
  <2>2. CASE gen # op[c].gen
    BY <1>5, <2>2 DEF FillCache, IInv, CacheCurrent
  <2> QED  BY <2>1, <2>2
<1>8. FillCurrent'
  BY <1>2, <1>4, <1>5 DEF IInv, FillCurrent
<1>9. GenPast'
  BY <1>2, <1>4 DEF IInv, GenPast
<1>10. LiveCovers'
  BY <1>1, <1>4, <1>5 DEF IInv, LiveCovers, IsActive
<1>11. RowsMinted'
  BY <1>2 DEF IInv, RowsMinted
<1> QED  BY <1>6, <1>7, <1>8, <1>9, <1>10, <1>11 DEF IInv

LEMMA ChangeRowInv == ASSUME IInv, NEW c \in Clients, ChangeRow(c) PROVE IInv'
<1> op[c] \in Ops  BY DEF IInv, TypeOK, Ops
<1> DEFINE k == op[c].key
           old == rows[k]
           new == IF op[c].want = "delete" THEN NoRow ELSE [old EXCEPT !.status = op[c].want]
<1>1. op[c].kind = "done" /\ op[c] \in Found /\ op[c].want # "verify"
  BY OpByKind DEF ChangeRow
<1>2. k \in KeyIds /\ old \in Row \cup {NoRow} /\ (op[c].want = "delete" \/ op[c].want \in Status)
  BY <1>1 DEF Found, Wants, IInv, TypeOK
<1>3. UNCHANGED <<users, minted, cache, gen>> /\ users \in SUBSET Users /\ minted \in SUBSET KeyIds
  BY DEF ChangeRow, IInv, TypeOK
<1>4. CASE old = NoRow
  <2>1. op' = [op EXCEPT ![c] = Idle] /\ rows' = rows
    BY <1>4 DEF ChangeRow, Return, Goto
  <2>2. Idle \in Ops /\ Idle.kind = "idle"
    BY DEF Ops, Idle
  <2> QED  BY QuietStep, <1>1, <1>3, <2>1, <2>2
<1>5. CASE old # NoRow
  <2> DEFINE next == [kind |-> "invalidate", key |-> k, old |-> old]
  <2>1. SetRow(c, k, new, next)
    BY <1>5 DEF ChangeRow
  <2>2. new \in Row \cup {NoRow}
    BY <1>2, <1>5 DEF Row
  <2>3. next \in Ops
    BY <1>2, <1>5 DEF Ops, Changed
  <2>4. k \in minted
    BY <1>2, <1>5 DEF IInv, RowsMinted
  <2>5. next.kind = "invalidate" /\ next.key = k /\ next.old = rows[k]
    OBVIOUS
  <2> HIDE DEF new, next
  <2> QED  BY RowStep, <1>1, <1>2, <1>3, <2>1, <2>2, <2>3, <2>4, <2>5
<1> QED  BY <1>4, <1>5

\* The acknowledged change takes its key out of the cache, and every lookup
\* that could still store a row of it is a generation behind.
LEMMA InvalidateInv == ASSUME IInv, NEW c \in Clients, Invalidate(c) PROVE IInv'
<1> op \in [Clients -> Ops] /\ gen \in Nat  BY DEF IInv, TypeOK, Ops
<1>1. op[c].kind = "invalidate" /\ op[c] \in Changed
  BY OpByKind DEF Invalidate
<1>2. /\ op' = [op EXCEPT ![c] = Idle]
      /\ cache' = [cache EXCEPT ![op[c].key] = NoRow]
      /\ gen' = gen + 1
      /\ UNCHANGED <<users, rows, minted>>
  BY DEF Invalidate, Return, Goto
<1>3. op'[c] = Idle /\ \A d \in Clients : d # c => op'[d] = op[d]
  BY <1>2
<1>4. \A j, x : (x \in Current(j))' => x \in Current(j)
  BY <1>2, <1>3 DEF Current, Replaced, Idle
<1>5. \A j, x : x \in Current(j) /\ j # op[c].key => (x \in Current(j))'
  BY <1>2, <1>3 DEF Current, Replaced
<1>6. TypeOK'
  <2>1. op' \in [Clients -> Ops]
    BY <1>2 DEF Ops
  <2>2. cache' \in [KeyIds -> Row \cup {NoRow}]
    BY <1>2 DEF IInv, TypeOK
  <2>3. gen' \in Nat
    BY <1>2
  <2> QED  BY <1>2, <2>1, <2>2, <2>3 DEF IInv, TypeOK, Ops
<1>7. CacheCurrent'
  <2> SUFFICES ASSUME NEW k \in KeyIds, cache'[k] # NoRow
               PROVE  (cache[k] \in Current(k))'
    BY DEF CacheCurrent
  <2>1. k # op[c].key /\ cache'[k] = cache[k]
    BY <1>2 DEF IInv, TypeOK
  <2> QED  BY <2>1, <1>5 DEF IInv, CacheCurrent
<1>8. FillCurrent'
  <2> SUFFICES ASSUME NEW d \in Clients, op'[d].kind = "fill", op'[d].gen = gen + 1
               PROVE  FALSE
    BY <1>2 DEF FillCurrent
  <2>1. op'[d] = op[d] /\ op[d].kind = "fill"
    BY <1>3 DEF Idle
  <2>2. op[d].gen \in Nat /\ op[d].gen \leq gen
    BY <2>1, OpByKind DEF IInv, GenPast, Loaded
  <2> QED  BY <2>1, <2>2
<1>9. GenPast'
  <2> SUFFICES ASSUME NEW d \in Clients, op'[d].kind \in {"lookup", "fill"}
               PROVE  op'[d].gen \leq gen + 1
    BY <1>2 DEF GenPast
  <2>1. op'[d] = op[d]
    BY <1>3 DEF Idle
  <2>2. op[d].gen \in Nat /\ op[d].gen \leq gen
    BY <2>1, OpByKind DEF IInv, GenPast, Loaded, Missed
  <2> QED  BY <2>1, <2>2
<1>10. LiveCovers'
  BY <1>3, <1>4 DEF IInv, LiveCovers, IsActive, Idle
<1>11. RowsMinted'
  BY <1>2 DEF IInv, RowsMinted
<1> QED  BY <1>6, <1>7, <1>8, <1>9, <1>10, <1>11 DEF IInv

\* A new row, by GetSessionToken or CreateAccessKey: its id was never used.
LEMMA InsertInv ==
    ASSUME IInv, NEW c \in Clients, NEW k \in KeyIds \ minted, NEW r \in Row,
           SetRow(c, k, r, Idle), minted' = minted \cup {k},
           op[c].kind # "invalidate", UNCHANGED <<users, cache, gen>>
    PROVE  IInv'
<1>1. rows[k] = NoRow
  BY DEF IInv, RowsMinted
<1>2. Idle \in Ops /\ Idle.kind = "idle"
  BY DEF Ops, Idle
<1>3. minted' \in SUBSET KeyIds /\ minted \subseteq minted' /\ k \in minted'
  BY DEF IInv, TypeOK
<1> QED  BY <1>1, <1>2, <1>3, RowStep

LEMMA RestartInv == ASSUME IInv, Restart PROVE IInv'
<1>1. TypeOK'
  BY DEF Restart, IInv, TypeOK
<1> QED
  BY <1>1 DEF Restart, IInv, CacheCurrent, FillCurrent, GenPast, LiveCovers, RowsMinted, Idle

\* Requests that return, or note a user, without touching a key.
LEMMA UserStepsInv ==
    ASSUME IInv, NEW c \in Clients,
           \/ FinishLookup(c) \/ CreateUser(c) \/ BeginCreateKey(c)
           \/ BeginDeleteUser(c) \/ RemoveUser(c) \/ Fail(c)
    PROVE  IInv'
<1>1. UNCHANGED <<rows, minted, cache, gen>> /\ users' \in SUBSET Users /\ op[c].kind # "invalidate"
  BY DEF FinishLookup, CreateUser, BeginCreateKey, BeginDeleteUser, RemoveUser, Fail, IInv, TypeOK, Idle
<1>2. PICK o \in {Idle} \cup Checked : op' = [op EXCEPT ![c] = o]
  <2>1. CASE CreateUser(c)
    <3>1. op' = [op EXCEPT ![c] = Idle]
      BY <2>1 DEF CreateUser, IInv, TypeOK
    <3> QED  BY <3>1
  <2>2. CASE BeginCreateKey(c)
    <3>1. PICK u \in users : op' = [op EXCEPT ![c] = [kind |-> "createKey", user |-> u]]
      BY <2>2 DEF BeginCreateKey, Goto
    <3>2. [kind |-> "createKey", user |-> u] \in Checked
      BY DEF Checked, IInv, TypeOK
    <3> QED  BY <3>1, <3>2
  <2>3. CASE BeginDeleteUser(c)
    <3>1. PICK u \in Users : op' = [op EXCEPT ![c] = [kind |-> "deleteUser", user |-> u]]
      BY <2>3 DEF BeginDeleteUser, Goto
    <3>2. [kind |-> "deleteUser", user |-> u] \in Checked
      BY DEF Checked
    <3> QED  BY <3>1, <3>2
  <2>4. CASE FinishLookup(c) \/ RemoveUser(c) \/ Fail(c)
    BY <2>4 DEF FinishLookup, RemoveUser, Fail, Return, Goto
  <2> QED  BY <2>1, <2>2, <2>3, <2>4
<1>3. o \in Ops /\ o.kind \in {"idle", "createKey", "deleteUser"}
  BY DEF Ops, Idle, Checked
<1> QED  BY <1>1, <1>2, <1>3, QuietStep

LEMMA NextInv == IInv /\ [Next]_vars => IInv'
<1> SUFFICES ASSUME IInv, [Next]_vars PROVE IInv'
  OBVIOUS
<1>1. CASE Restart
  BY <1>1, RestartInv
<1>2. ASSUME NEW c \in Clients, ClientStep(c) PROVE IInv'
  <2>1. CASE BeginLookup(c)
    BY <2>1, BeginLookupInv
  <2>2. CASE LoadRow(c)
    BY <2>2, LoadRowInv
  <2>3. CASE FillCache(c)
    BY <2>3, FillCacheInv
  <2>4. CASE ChangeRow(c)
    BY <2>4, ChangeRowInv
  <2>5. CASE Invalidate(c)
    BY <2>5, InvalidateInv
  <2>6. CASE MintSession(c)
    <3>1. op[c] \in Found /\ op[c].row \in Row
      BY <2>6, OpByKind DEF MintSession, Accepted, IsActive, IInv, TypeOK, Ops, Found
    <3>2. PICK k \in KeyIds \ minted :
            /\ minted' = minted \cup {k}
            /\ SetRow(c, k, [user |-> op[c].row.user, status |-> "Active", session |-> TRUE], Idle)
      BY <2>6 DEF MintSession
    <3>3. [user |-> op[c].row.user, status |-> "Active", session |-> TRUE] \in Row
      BY <3>1 DEF Row, Status
    <3>4. op[c].kind # "invalidate" /\ UNCHANGED <<users, cache, gen>>
      BY <2>6 DEF MintSession, Accepted
    <3> QED  BY <3>2, <3>3, <3>4, InsertInv
  <2>7. CASE InsertKey(c)
    <3>1. op[c] \in Checked /\ op[c].kind = "createKey"
      BY <2>7, OpByKind DEF InsertKey, IInv, TypeOK, Ops
    <3>2. PICK k \in KeyIds \ minted :
            /\ minted' = minted \cup {k}
            /\ SetRow(c, k, [user |-> op[c].user, status |-> "Active", session |-> FALSE], Idle)
      BY <2>7 DEF InsertKey
    <3>3. [user |-> op[c].user, status |-> "Active", session |-> FALSE] \in Row
      BY <3>1 DEF Checked, Row, Status
    <3>4. UNCHANGED <<users, cache, gen>>
      BY <2>7 DEF InsertKey
    <3> QED  BY <3>1, <3>2, <3>3, <3>4, InsertInv
  <2>8. CASE \/ FinishLookup(c) \/ CreateUser(c) \/ BeginCreateKey(c)
             \/ BeginDeleteUser(c) \/ RemoveUser(c) \/ Fail(c)
    BY <2>8, UserStepsInv
  <2> QED  BY <1>2, <2>1, <2>2, <2>3, <2>4, <2>5, <2>6, <2>7, <2>8 DEF ClientStep
<1>3. CASE UNCHANGED vars
  BY <1>3 DEF vars, IInv, TypeOK, CacheCurrent, FillCurrent, GenPast, LiveCovers, RowsMinted,
              Current, Replaced, IsActive
<1> QED  BY <1>1, <1>2, <1>3 DEF Next

LEMMA Invariance == Spec => []IInv
BY InitInv, NextInv, PTL DEF Spec

-----------------------------------------------------------------------------
(* The theorems.                                                           *)

\* The tables, the cache and the requests keep their types (users.go,
\* access_key_cache.go).
THEOREM TypeCorrect == Spec => []TypeOK
BY Invariance, PTL DEF IInv

\* What the cache holds of a key is its row, or what an unanswered change of it
\* has replaced (LookupAccessKeyRecord's generation check).
THEOREM CacheCurrentHolds == Spec => []CacheCurrent
BY Invariance, PTL DEF IInv

\* No request that begins after a revocation was answered is accepted
\* (DeleteAccessKeyInAccount, UpdateAccessKeyInAccount, authn.Verify).
THEOREM RevocationHolds == Spec => []RevokedKeyRefused
<1>1. IInv => RevokedKeyRefused
  BY DEF IInv, LiveCovers, RevokedKeyRefused, Accepted
<1> QED  BY Invariance, <1>1, PTL

-----------------------------------------------------------------------------
(* Refinement of AccessKeyRegister.                                        *)

absCall == [c \in Clients |-> AbstractCall(op[c])]

LEMMA AbstractShape ==
    ASSUME NEW o \in Ops
    PROVE  /\ o.kind \in {"fill", "done"} =>
                AbstractCall(o) = [kind |-> "taken", key |-> o.key, row |-> o.row]
           /\ o.kind = "invalidate" =>
                AbstractCall(o) = [kind |-> "changing", key |-> o.key, old |-> o.old]
           /\ o.kind \in {"idle", "lookup", "createKey", "deleteUser"} =>
                AbstractCall(o) = Register!NoCall
BY OpByKind DEF AbstractCall, Register!NoCall

\* Both specifications allow the same answers for a key.
LEMMA SameAnswers ==
    ASSUME IInv, NEW k, NEW r
    PROVE  r \in Register!Answers(k) <=> r \in Current(k)
<1> op \in [Clients -> Ops]  BY DEF IInv, TypeOK, Ops
<1>1. \A d \in Clients :
        /\ AbstractCall(op[d]).kind = "changing" <=> op[d].kind = "invalidate"
        /\ op[d].kind = "invalidate" =>
             AbstractCall(op[d]).key = op[d].key /\ AbstractCall(op[d]).old = op[d].old
  <2> SUFFICES ASSUME NEW d \in Clients
               PROVE  /\ AbstractCall(op[d]).kind = "changing" <=> op[d].kind = "invalidate"
                      /\ op[d].kind = "invalidate" =>
                           AbstractCall(op[d]).key = op[d].key /\ AbstractCall(op[d]).old = op[d].old
    OBVIOUS
  <2>1. op[d] \in Ops
    OBVIOUS
  <2> QED  BY <2>1, AbstractShape, OpByKind DEF Register!NoCall
<1> DEFINE absWriters == {d \in Clients : AbstractCall(op[d]).kind = "changing" /\ AbstractCall(op[d]).key = k}
           writers == {d \in Clients : op[d].kind = "invalidate" /\ op[d].key = k}
<1>2. absWriters = writers
  BY <1>1
<1>3. Register!Replaced(k) = {AbstractCall(op[d]).old : d \in absWriters}
  BY DEF Register!Replaced
<1>4. {AbstractCall(op[d]).old : d \in writers} = {op[d].old : d \in writers}
  BY <1>1
<1>5. Register!Replaced(k) = Replaced(k)
  BY <1>2, <1>3, <1>4 DEF Replaced
<1> QED  BY <1>5 DEF Register!Answers, Current

\* One request moves and the others keep their abstract call.
LEMMA OneCall ==
    ASSUME NEW c \in Clients, op \in [Clients -> Ops], op' \in [Clients -> Ops],
           \A d \in Clients : d # c => AbstractCall(op'[d]) = AbstractCall(op[d])
    PROVE  absCall' = [absCall EXCEPT ![c] = AbstractCall(op'[c])]
BY DEF absCall

\* The history of a lookup is not part of its abstract call.
LEMMA NoticeAbstract ==
    ASSUME NEW o \in Ops, NEW k, NEW r
    PROVE  AbstractCall(Notice(o, k, r)) = AbstractCall(o)
BY NoticeKeeps, OpByKind DEF AbstractCall

LEMMA InsertShape ==
    ASSUME IInv, NEW c \in Clients, op[c] \in Ops, MintSession(c) \/ InsertKey(c)
    PROVE  \E k \in KeyIds \ minted, r \in Row : SetRow(c, k, r, Idle)
<1>1. CASE MintSession(c)
  <2>1. op[c].row \in Row
    BY <1>1, OpByKind DEF MintSession, Accepted, IsActive, Found
  <2>2. [user |-> op[c].row.user, status |-> "Active", session |-> TRUE] \in Row
    BY <2>1 DEF Row, Status
  <2> QED  BY <1>1, <2>2 DEF MintSession
<1>2. CASE InsertKey(c)
  <2>1. op[c].user \in Users
    BY <1>2, OpByKind DEF InsertKey, Checked
  <2>2. [user |-> op[c].user, status |-> "Active", session |-> FALSE] \in Row
    BY <2>1 DEF Row, Status
  <2> QED  BY <1>2, <2>2 DEF InsertKey
<1> QED  BY <1>1, <1>2

LEMMA RegisterStep == IInv /\ IInv' /\ [Next]_vars => [Register!RegNext]_(Register!regVars)
<1> SUFFICES ASSUME IInv, IInv', [Next]_vars
             PROVE  [Register!RegNext]_(Register!regVars)
  OBVIOUS
<1> op \in [Clients -> Ops] /\ op' \in [Clients -> Ops]  BY DEF IInv, TypeOK, Ops
<1>q. ASSUME rows' = rows, absCall' = absCall
      PROVE  [Register!RegNext]_(Register!regVars)
  BY <1>q DEF Register!regVars, absCall
<1>1. CASE Restart
  <2>1. absCall' = [c \in Clients |-> Register!NoCall]
    BY <1>1 DEF Restart, absCall, AbstractCall, Idle, Register!NoCall
  <2> QED  BY <1>1, <2>1 DEF Restart, Register!RegNext, Register!Crash, absCall
<1>2. ASSUME NEW c \in Clients, ClientStep(c)
      PROVE  [Register!RegNext]_(Register!regVars)
  <2> DEFINE Before == AbstractCall(op[c])
             After == AbstractCall(op'[c])
  <2>0. \A d \in Clients : op[d] \in Ops /\ op'[d] \in Ops
    OBVIOUS
  <2>a. ASSUME \E o : op' = [op EXCEPT ![c] = o]
        PROVE  absCall' = [absCall EXCEPT ![c] = After]
    <3>1. \A d \in Clients : d # c => op'[d] = op[d]
      BY <2>a
    <3> QED  BY <3>1, OneCall
  <2>b. ASSUME NEW k, NEW r, NEW next, SetRow(c, k, r, next)
        PROVE  absCall' = [absCall EXCEPT ![c] = After]
    <3>1. \A d \in Clients : d # c => AbstractCall(op'[d]) = AbstractCall(op[d])
      BY <2>0, <2>b, NoticeAbstract DEF SetRow
    <3> QED  BY <3>1, OneCall
  <2>c. absCall[c] = Before
    BY DEF absCall
  <2>s. ASSUME rows' = rows, \E o : op' = [op EXCEPT ![c] = o], After = Before
        PROVE  [Register!RegNext]_(Register!regVars)
    BY <2>s, <2>a, <2>c, <1>q DEF absCall
  <2>r. ASSUME rows' = rows, \E o : op' = [op EXCEPT ![c] = o],
               Before # Register!NoCall, After = Register!NoCall
        PROVE  [Register!RegNext]_(Register!regVars)
    BY <2>r, <2>a, <2>c DEF absCall, Register!RegNext, Register!Return
  <2>t. ASSUME NEW k \in KeyIds, NEW r \in Current(k), rows' = rows, \E o : op' = [op EXCEPT ![c] = o],
               Before = Register!NoCall, After = [kind |-> "taken", key |-> k, row |-> r]
        PROVE  [Register!RegNext]_(Register!regVars)
    <3>1. r \in Register!Answers(k)
      BY SameAnswers
    <3>2. absCall' = [absCall EXCEPT ![c] = [kind |-> "taken", key |-> k, row |-> r]]
      BY <2>t, <2>a
    <3>3. absCall[c] = Register!NoCall
      BY <2>t, <2>c
    <3>4. Register!Take(c)
      BY <2>t, <3>1, <3>2, <3>3 DEF absCall, Register!Take
    <3> QED  BY <3>4 DEF Register!RegNext
  <2>1. CASE BeginLookup(c)
    <3>1. PICK k \in KeyIds, w \in IF gen < MaxGen THEN Wants ELSE {"verify"} :
            LET o == [kind |-> "lookup", key |-> k, want |-> w, gen |-> gen,
                      live |-> \E r \in Current(k) : IsActive(r)]
            IN op' = [op EXCEPT ![c] = IF cache[k] # NoRow THEN Answer(o, cache[k]) ELSE o]
      BY <2>1 DEF BeginLookup, Goto
    <3>2. op[c].kind = "idle" /\ rows' = rows
      BY <2>1 DEF BeginLookup, Idle
    <3>3. Before = Register!NoCall
      BY <3>2, <2>0, AbstractShape
    <3>4. CASE cache[k] = NoRow
      <4>1. op'[c].kind = "lookup"
        BY <3>1, <3>4
      <4>2. After = Register!NoCall
        BY <4>1, <2>0, AbstractShape
      <4> QED  BY <3>1, <3>2, <3>3, <4>2, <2>s
    <3>5. CASE cache[k] # NoRow
      <4>1. op'[c].kind = "done" /\ op'[c].key = k /\ op'[c].row = cache[k]
        BY <3>1, <3>5 DEF Answer
      <4>2. After = [kind |-> "taken", key |-> k, row |-> cache[k]]
        BY <4>1, <2>0, AbstractShape
      <4>3. cache[k] \in Current(k)
        BY <3>5 DEF IInv, CacheCurrent
      <4> QED  BY <3>1, <3>2, <3>3, <4>2, <4>3, <2>t
    <3> QED  BY <3>4, <3>5
  <2>2. CASE LoadRow(c)
    <3>1. op[c].kind = "lookup" /\ op[c].key \in KeyIds /\ rows' = rows
      BY <2>2, <2>0, OpByKind DEF LoadRow, Missed
    <3>2. Before = Register!NoCall
      BY <3>1, <2>0, AbstractShape
    <3>3. op'[c].kind \in {"fill", "done"} /\ op'[c].key = op[c].key /\ op'[c].row = rows[op[c].key]
      BY <2>2 DEF LoadRow, Goto, Answer
    <3>4. After = [kind |-> "taken", key |-> op[c].key, row |-> rows[op[c].key]]
      BY <3>3, <2>0, AbstractShape
    <3>5. rows[op[c].key] \in Current(op[c].key)
      BY DEF Current
    <3>6. \E o : op' = [op EXCEPT ![c] = o]
      BY <2>2 DEF LoadRow, Goto
    <3> QED  BY <3>1, <3>2, <3>4, <3>5, <3>6, <2>t
  <2>3. CASE FillCache(c)
    <3>1. op[c].kind = "fill" /\ rows' = rows /\ op' = [op EXCEPT ![c] = Answer(op[c], op[c].row)]
      BY <2>3 DEF FillCache, Goto
    <3>2. op'[c].kind = "done" /\ op'[c].key = op[c].key /\ op'[c].row = op[c].row
      BY <3>1 DEF Answer
    <3>3. After = Before
      BY <3>1, <3>2, <2>0, AbstractShape
    <3> QED  BY <3>1, <3>3, <2>s
  <2>4. CASE FinishLookup(c) \/ Invalidate(c)
    <3>1. op[c].kind \in {"done", "invalidate"} /\ rows' = rows /\ op' = [op EXCEPT ![c] = Idle]
      BY <2>4 DEF FinishLookup, Invalidate, Return, Goto
    <3>2. Before # Register!NoCall
      BY <3>1, <2>0, AbstractShape DEF Register!NoCall
    <3>3. After = Register!NoCall
      BY <3>1, <2>0, AbstractShape DEF Idle
    <3> QED  BY <3>1, <3>2, <3>3, <2>r
  <2>5. CASE ChangeRow(c)
    <3> DEFINE k == op[c].key
    <3>1. op[c].kind = "done" /\ op[c] \in Found /\ k \in KeyIds
      BY <2>5, <2>0, OpByKind DEF ChangeRow, Found
    <3>2. Before = [kind |-> "taken", key |-> k, row |-> op[c].row]
      BY <3>1, <2>0, AbstractShape
    <3>3. CASE rows[k] = NoRow
      <4>1. op' = [op EXCEPT ![c] = Idle] /\ rows' = rows
        BY <2>5, <3>3 DEF ChangeRow, Return, Goto
      <4>2. After = Register!NoCall
        BY <4>1, <2>0, AbstractShape DEF Idle
      <4>3. Before # Register!NoCall
        BY <3>2 DEF Register!NoCall
      <4> HIDE DEF Before, After
      <4> QED  BY <4>1, <4>2, <4>3, <2>r
    <3>4. CASE rows[k] # NoRow
      <4> DEFINE new == IF op[c].want = "delete" THEN NoRow ELSE [rows[k] EXCEPT !.status = op[c].want]
                 next == [kind |-> "invalidate", key |-> k, old |-> rows[k]]
      <4>1. SetRow(c, k, new, next)
        BY <2>5, <3>4 DEF ChangeRow
      <4>2. op'[c] = next /\ rows' = [rows EXCEPT ![k] = new]
        BY <4>1 DEF SetRow
      <4>3. After = [kind |-> "changing", key |-> k, old |-> rows[k]]
        BY <4>2, <2>0, AbstractShape
      <4>4. new \in Row \cup {NoRow}
        <5>1. rows[k] \in Row
          BY <3>1, <3>4 DEF IInv, TypeOK
        <5>2. op[c].want = "delete" \/ op[c].want \in Status
          BY <2>5, <3>1 DEF ChangeRow, Found, Wants
        <5> QED  BY <5>1, <5>2 DEF Row
      <4>5. absCall' = [absCall EXCEPT ![c] = After]
        BY <4>1, <2>b
      <4>6. absCall[c].kind = "taken" /\ absCall[c].key = k
        BY <2>c, <3>2
      <4>7. absCall' = [absCall EXCEPT ![c] = [kind |-> "changing", key |-> k, old |-> rows[k]]]
        BY <4>3, <4>5
      <4> HIDE DEF new, next, Before, After
      <4>8. Register!Change(c)
        BY <3>4, <4>2, <4>4, <4>6, <4>7 DEF Register!Change, absCall
      <4> QED  BY <4>8 DEF Register!RegNext
    <3> QED  BY <3>3, <3>4
  <2>6. CASE MintSession(c) \/ InsertKey(c)
    <3>1. PICK k \in KeyIds \ minted, r \in Row : SetRow(c, k, r, Idle)
      BY <2>6, <2>0, InsertShape
    <3>2. op'[c] = Idle /\ rows' = [rows EXCEPT ![k] = r] /\ rows[k] = NoRow
      BY <3>1 DEF SetRow, IInv, RowsMinted
    <3>3. After = Register!NoCall
      BY <3>2, <2>0, AbstractShape DEF Idle
    <3>4. absCall' = [absCall EXCEPT ![c] = After]
      BY <3>1, <2>b
    <3>5. op[c].kind \in {"done", "createKey"}
      BY <2>6 DEF MintSession, Accepted, InsertKey
    <3>6. Before.kind \in {"none", "taken"}
      BY <3>5, <2>0, AbstractShape DEF Register!NoCall
    <3>7. Register!Add(c)
      BY <2>c, <3>1, <3>2, <3>3, <3>4, <3>6 DEF Register!Add, Register!Insert, absCall
    <3> QED  BY <3>7 DEF Register!RegNext
  <2>7. CASE CreateUser(c)
    BY <2>7, <1>q DEF CreateUser, absCall
  <2>8. CASE BeginCreateKey(c) \/ BeginDeleteUser(c) \/ RemoveUser(c) \/ Fail(c)
    <3>1. op[c].kind \in {"idle", "lookup", "createKey", "deleteUser"} /\ rows' = rows
      BY <2>8 DEF BeginCreateKey, BeginDeleteUser, RemoveUser, Fail, Idle
    <3>2. op'[c].kind \in {"idle", "createKey", "deleteUser"} /\ \E o : op' = [op EXCEPT ![c] = o]
      BY <2>8 DEF BeginCreateKey, BeginDeleteUser, RemoveUser, Fail, Return, Goto, Idle
    <3>3. After = Before
      BY <3>1, <3>2, <2>0, AbstractShape
    <3> QED  BY <3>1, <3>2, <3>3, <2>s
  <2> QED  BY <1>2, <2>1, <2>2, <2>3, <2>4, <2>5, <2>6, <2>7, <2>8 DEF ClientStep
<1>3. CASE UNCHANGED vars
  BY <1>3, <1>q DEF vars, absCall, AbstractCall
<1> QED  BY <1>1, <1>2, <1>3 DEF Next

LEMMA RegisterInit == Init => Register!RegInit
BY DEF Init, Register!RegInit, AbstractCall, Idle, Register!NoCall

\* Lookups answered from the cache implement lookups of the table
\* (LookupAccessKeyRecord).
THEOREM RefinesRegister == Spec => ImplementsRegister
BY Invariance, RegisterInit, RegisterStep, PTL DEF Spec, ImplementsRegister, Register!RegSpec
=============================================================================
