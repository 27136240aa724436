--------------------------- MODULE MC_DynamoWrites ---------------------------
(* A small instance of DynamoWrites for TLC. *)
EXTENDS DynamoWrites, TLC

CONSTANTS k1, k2, a1, a2

symmetry == Permutations(Clients)

Act(kind, k, attrs, cond) == [kind |-> kind, key |-> k, attrs |-> attrs, cond |-> cond]

List(checks, writes) == [checks |-> checks, writes |-> writes]

\* Transactions that write two items, and one that checks an item.
Transactions == {List({}, <<Act("Put", k1, {a1}, "none"), Act("Delete", k2, {}, "none")>>),
                 List({k1}, <<Act("Update", k2, {a2}, "none")>>)}

\* Single-item requests, with the conditions.
SingleWrites == {Act("Put", k1, {a1}, "absent"), Act("Update", k1, {a2}, "exists")}

=============================================================================
