---------------------------- MODULE IAMAccessKeys ----------------------------
(***************************************************************************)
(* IAM users, their access keys, and the in-process cache of unsealed keys *)
(* that every signed request is verified against.                          *)
(*                                                                         *)
(* Requests are served by concurrent goroutines.  Each SQL statement is    *)
(* one step; so is each critical section of accessKeyCacheMu.  Nothing     *)
(* else orders them: a lookup reads the row between two critical sections, *)
(* a change is a statement followed later by an invalidation, and          *)
(* DeleteUser and CreateAccessKey each check in one statement and act in   *)
(* the next.                                                               *)
(*                                                                         *)
(* A row keeps what decides whether a request is accepted: its user, its   *)
(* status, and whether it is a temporary session.  The secret, the token   *)
(* and the expiry time never change once written, and are checked again on *)
(* every request, cached or not.                                           *)
(***************************************************************************)
EXTENDS Naturals, FiniteSets

CONSTANTS
    Clients,    \* goroutines serving requests
    Users,      \* user names
    KeyIds,     \* access key ids; random, so none is minted twice
    NoRow,      \* the absence of a row, or of a cache entry
    MaxGen      \* bound: changes of a key begin only below this generation

Status == {"Active", "Inactive"}
Row == [user : Users, status : Status, session : BOOLEAN]

ASSUME NoRowAssumption == NoRow \notin Row

VARIABLES
    users,      \* the users table
    rows,       \* the access_keys table
    minted,     \* the ids ever given out
    cache,      \* accessKeyCache: key id -> unsealed row, or NoRow
    gen,        \* accessKeyCacheGen
    op          \* op[c]: where client c's request stands

vars == <<users, rows, minted, cache, gen, op>>

-----------------------------------------------------------------------------
(* Requests.  "want" is what the caller of a lookup goes on to do: verify  *)
(* the signature of a request, delete the key, or set its status.          *)

Wants == {"verify", "delete"} \cup Status

\* "live" is a history variable: the key was usable at some moment since the
\* lookup began, a change that was not yet answered counting as not yet made.
Missed == [kind : {"lookup"}, key : KeyIds, want : Wants, gen : Nat, live : BOOLEAN]
Loaded == [kind : {"fill"}, key : KeyIds, want : Wants, gen : Nat, row : Row, live : BOOLEAN]
Found == [kind : {"done"}, key : KeyIds, want : Wants, row : Row \cup {NoRow}, live : BOOLEAN]
\* "old" is a history variable: the row the statement replaced.
Changed == [kind : {"invalidate"}, key : KeyIds, old : Row]
Checked == [kind : {"createKey", "deleteUser"}, user : Users]

Idle == [kind |-> "idle"]

TypeOK ==
    /\ users \in SUBSET Users
    /\ rows \in [KeyIds -> Row \cup {NoRow}]
    /\ minted \in SUBSET KeyIds
    /\ cache \in [KeyIds -> Row \cup {NoRow}]
    /\ gen \in Nat
    /\ op \in [Clients -> {Idle} \cup Missed \cup Loaded \cup Found \cup Changed \cup Checked]

Init ==
    /\ users = {}
    /\ rows = [k \in KeyIds |-> NoRow]
    /\ minted = {}
    /\ cache = [k \in KeyIds |-> NoRow]
    /\ gen = 0
    /\ op = [c \in Clients |-> Idle]

IsActive(r) == r # NoRow /\ r.status = "Active"

\* What a change of k that is still to be invalidated has replaced.
Replaced(k) ==
    {op[c].old : c \in {d \in Clients : op[d].kind = "invalidate" /\ op[d].key = k}}
Current(k) == {rows[k]} \cup Replaced(k)

Goto(c, o) == op' = [op EXCEPT ![c] = o]
Return(c) == Goto(c, Idle)

\* The row of k becomes r, and every unanswered lookup of k lives through it;
\* the writer c goes on to next.
Notice(o, k, r) ==
    IF o.kind \in {"lookup", "fill"} /\ o.key = k /\ IsActive(r)
      THEN [o EXCEPT !.live = TRUE] ELSE o
SetRow(c, k, r, next) ==
    /\ rows' = [rows EXCEPT ![k] = r]
    /\ op' = [d \in Clients |-> IF d = c THEN next ELSE Notice(op[d], k, r)]

-----------------------------------------------------------------------------
(* LookupAccessKeyRecord and what its callers do with the answer.          *)

Answer(o, r) == [kind |-> "done", key |-> o.key, want |-> o.want, row |-> r, live |-> o.live]

\* First critical section: a hit is copied out, a miss notes the generation.
BeginLookup(c) ==
    /\ op[c] = Idle
    /\ \E k \in KeyIds, w \in IF gen < MaxGen THEN Wants ELSE {"verify"} :
         LET o == [kind |-> "lookup", key |-> k, want |-> w, gen |-> gen,
                   live |-> \E r \in Current(k) : IsActive(r)]
         IN Goto(c, IF cache[k] # NoRow THEN Answer(o, cache[k]) ELSE o)
    /\ UNCHANGED <<users, rows, minted, cache, gen>>

\* loadAccessKeyRecordUncached: one SELECT, outside the lock.
LoadRow(c) ==
    /\ op[c].kind = "lookup"
    /\ LET o == op[c]
           r == rows[o.key]
       IN Goto(c, IF r = NoRow
                    THEN Answer(o, NoRow)
                    ELSE [kind |-> "fill", key |-> o.key, want |-> o.want,
                          gen |-> o.gen, row |-> r, live |-> o.live])
    /\ UNCHANGED <<users, rows, minted, cache, gen>>

\* Broken: the row is kept even when an invalidation raced.
FillAlways(c) ==
    /\ op[c].kind = "fill"
    /\ cache' = [cache EXCEPT ![op[c].key] = op[c].row]
    /\ Goto(c, Answer(op[c], op[c].row))
    /\ UNCHANGED <<users, rows, minted, gen>>

\* Second critical section: the row is kept unless an invalidation raced.
FillCache(c) ==
    /\ op[c].kind = "fill"
    /\ cache' = IF gen = op[c].gen THEN [cache EXCEPT ![op[c].key] = op[c].row] ELSE cache
    /\ Goto(c, Answer(op[c], op[c].row))
    /\ UNCHANGED <<users, rows, minted, gen>>

\* authn.Verify: an unknown or inactive key is refused.
Accepted(o) == o.kind = "done" /\ o.want = "verify" /\ IsActive(o.row)

\* The request is served, or refused: a lookup for a change may be refused
\* too (a root key, a user name that is not the key's).
FinishLookup(c) ==
    /\ op[c].kind = "done"
    /\ Return(c)
    /\ UNCHANGED <<users, rows, minted, cache, gen>>

\* Delete/UpdateAccessKeyInAccount: the statement.  No row affected: an error,
\* and no invalidation.
ChangeRow(c) ==
    /\ op[c].kind = "done"
    /\ op[c].want # "verify"
    /\ LET k == op[c].key
           old == rows[k]
           new == IF op[c].want = "delete" THEN NoRow
                  ELSE [old EXCEPT !.status = op[c].want]
       IN IF old = NoRow
            THEN Return(c) /\ UNCHANGED rows
            ELSE SetRow(c, k, new, [kind |-> "invalidate", key |-> k, old |-> old])
    /\ UNCHANGED <<users, minted, cache, gen>>

\* Broken: invalidation drops the entry but does not count a new generation.
InvalidateEntryOnly(c) ==
    /\ op[c].kind = "invalidate"
    /\ cache' = [cache EXCEPT ![op[c].key] = NoRow]
    /\ gen' = gen
    /\ Return(c)
    /\ UNCHANGED <<users, rows, minted>>

\* Broken: invalidation counts a new generation but leaves the entry.
CountGenerationOnly(c) ==
    /\ op[c].kind = "invalidate"
    /\ gen' = gen + 1
    /\ Return(c)
    /\ UNCHANGED <<users, rows, minted, cache>>

\* invalidateAccessKeyCache, after which the change is answered.
Invalidate(c) ==
    /\ op[c].kind = "invalidate"
    /\ cache' = [cache EXCEPT ![op[c].key] = NoRow]
    /\ gen' = gen + 1
    /\ Return(c)
    /\ UNCHANGED <<users, rows, minted>>

\* GetSessionToken with long-lived credentials: MintTempCredentialsOpts inserts
\* a row for the user the verified key names.
MintSession(c) ==
    /\ Accepted(op[c])
    /\ ~op[c].row.session
    /\ \E k \in KeyIds \ minted :
         /\ minted' = minted \cup {k}
         /\ SetRow(c, k, [user |-> op[c].row.user, status |-> "Active", session |-> TRUE], Idle)
    /\ UNCHANGED <<users, cache, gen>>

-----------------------------------------------------------------------------
(* Users and long-lived keys.                                              *)

\* The primary key refuses a second user of the same name.
CreateUser(c) ==
    /\ op[c] = Idle
    /\ \E u \in Users \ users : users' = users \cup {u}
    /\ UNCHANGED <<rows, minted, cache, gen, op>>

\* CreateUserAccessKey: GetUser, then the INSERT.
BeginCreateKey(c) ==
    /\ op[c] = Idle
    /\ \E u \in users : Goto(c, [kind |-> "createKey", user |-> u])
    /\ UNCHANGED <<users, rows, minted, cache, gen>>

InsertKey(c) ==
    /\ op[c].kind = "createKey"
    /\ \E k \in KeyIds \ minted :
         /\ minted' = minted \cup {k}
         /\ SetRow(c, k, [user |-> op[c].user, status |-> "Active", session |-> FALSE], Idle)
    /\ UNCHANGED <<users, cache, gen>>

KeysOf(u) == {k \in KeyIds : rows[k] # NoRow /\ rows[k].user = u}

\* DeleteUser: the COUNT that refuses a user with keys, then the DELETE.
BeginDeleteUser(c) ==
    /\ op[c] = Idle
    /\ \E u \in Users :
         /\ KeysOf(u) = {}
         /\ Goto(c, [kind |-> "deleteUser", user |-> u])
    /\ UNCHANGED <<users, rows, minted, cache, gen>>

RemoveUser(c) ==
    /\ op[c].kind = "deleteUser"
    /\ users' = users \ {op[c].user}
    /\ Return(c)
    /\ UNCHANGED <<rows, minted, cache, gen>>

\* A statement fails (SQLite busy): the request ends with an error.  A change
\* that has been made is always followed by its invalidation.
Fail(c) ==
    /\ op[c].kind \in {"lookup", "createKey", "deleteUser"}
    /\ Return(c)
    /\ UNCHANGED <<users, rows, minted, cache, gen>>

\* The process restarts: the database stays, the cache and the requests do not.
Restart ==
    /\ op' = [c \in Clients |-> Idle]
    /\ cache' = [k \in KeyIds |-> NoRow]
    /\ gen' = 0
    /\ UNCHANGED <<users, rows, minted>>

ClientStep(c) ==
    \/ BeginLookup(c) \/ LoadRow(c) \/ FillCache(c) \/ FinishLookup(c)
    \/ ChangeRow(c) \/ Invalidate(c) \/ MintSession(c)
    \/ CreateUser(c) \/ BeginCreateKey(c) \/ InsertKey(c)
    \/ BeginDeleteUser(c) \/ RemoveUser(c) \/ Fail(c)

Next == Restart \/ \E c \in Clients : ClientStep(c)

Spec == Init /\ [][Next]_vars

-----------------------------------------------------------------------------
(* Properties.                                                             *)

\* A request is accepted only if its key was usable at some moment since the
\* request began, where an unanswered DeleteAccessKey or UpdateAccessKey counts
\* as not made yet: once a revocation is answered, no request that starts later
\* gets through, whatever lookups were under way when it was made
\* (LookupAccessKeyRecord's generation check, authn.Verify).
RevokedKeyRefused == \A c \in Clients : Accepted(op[c]) => op[c].live

\* The other direction for a whole change: when nothing is changing a key, what
\* the cache holds of it is its row, so that a reactivated key is accepted and
\* a deleted one is not (invalidateAccessKeyCache after each statement).
CacheCurrent == \A k \in KeyIds : cache[k] # NoRow => cache[k] \in Current(k)

\* Lookups behind the cache implement lookups without one.
AbstractCall(o) ==
    CASE o.kind \in {"fill", "done"} -> [kind |-> "taken", key |-> o.key, row |-> o.row]
      [] o.kind = "invalidate" -> [kind |-> "changing", key |-> o.key, old |-> o.old]
      [] OTHER -> [kind |-> "none"]

Register == INSTANCE AccessKeyRegister
              WITH value <- rows, call <- [c \in Clients |-> AbstractCall(op[c])]

\* The lookup promise: an answer is the row, or what an unanswered change of it
\* has replaced, at a moment within the lookup (LookupAccessKeyRecord).
ImplementsRegister == Register!RegSpec

=============================================================================
