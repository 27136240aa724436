-------------------------- MODULE AccessKeyRegister --------------------------
(***************************************************************************)
(* What LookupAccessKeyRecord promises its callers: the access-key table   *)
(* read without a cache.  A change of a key (DeleteAccessKey,              *)
(* UpdateAccessKey) has an effect at once but may be observed late until   *)
(* it is acknowledged; from the acknowledgement on, nobody is answered     *)
(* with the value it replaced.  IAMAccessKeys is shown to implement this   *)
(* specification although its lookups are answered from a cache.           *)
(***************************************************************************)
EXTENDS Naturals

CONSTANTS
    Clients,    \* the goroutines that serve requests
    KeyIds,     \* access key ids
    Row,        \* the contents an access_keys row can have
    NoRow       \* no such row

VARIABLES
    value,      \* value[k]: the row of key k
    call        \* call[c]: the call client c is making

regVars == <<value, call>>

NoCall == [kind |-> "none"]
Taken == [kind : {"taken"}, key : KeyIds, row : Row \cup {NoRow}]
Changing == [kind : {"changing"}, key : KeyIds, old : Row]

RegTypeOK ==
    /\ value \in [KeyIds -> Row \cup {NoRow}]
    /\ call \in [Clients -> {NoCall} \cup Taken \cup Changing]

\* The values a lookup of k may be answered with: the row, and whatever an
\* unacknowledged change has replaced.
Replaced(k) ==
    {call[c].old : c \in {d \in Clients : call[d].kind = "changing" /\ call[d].key = k}}
Answers(k) == {value[k]} \cup Replaced(k)

RegInit ==
    /\ value = [k \in KeyIds |-> NoRow]
    /\ call = [c \in Clients |-> NoCall]

Insert(k) ==
    /\ value[k] = NoRow
    /\ \E r \in Row : value' = [value EXCEPT ![k] = r]

\* A lookup settles on its answer, keeps it for a while, and returns.
Take(c) ==
    /\ call[c] = NoCall
    /\ \E k \in KeyIds : \E r \in Answers(k) :
         call' = [call EXCEPT ![c] = [kind |-> "taken", key |-> k, row |-> r]]
    /\ UNCHANGED value

Return(c) ==
    /\ call[c] # NoCall
    /\ call' = [call EXCEPT ![c] = NoCall]
    /\ UNCHANGED value

\* A row is inserted by a call that looked at no key, or by a request signed
\* with the key its lookup found (GetSessionToken).
Add(c) ==
    /\ \E k \in KeyIds : Insert(k)
    /\ call[c].kind \in {"none", "taken"}
    /\ call' = [call EXCEPT ![c] = NoCall]

\* A change by the call that looked the key up first, as the IAM handlers do.
Change(c) ==
    /\ call[c].kind = "taken"
    /\ value[call[c].key] # NoRow
    /\ \E r \in Row \cup {NoRow} : value' = [value EXCEPT ![call[c].key] = r]
    /\ call' = [call EXCEPT ![c] =
                    [kind |-> "changing", key |-> call[c].key, old |-> value[call[c].key]]]

Crash ==
    /\ call' = [c \in Clients |-> NoCall]
    /\ UNCHANGED value

RegNext ==
    \/ \E c \in Clients : Take(c) \/ Return(c) \/ Add(c) \/ Change(c)
    \/ Crash

RegSpec == RegInit /\ [][RegNext]_regVars
=============================================================================
