---------------------------- MODULE AuthzRequests ----------------------------
(***************************************************************************)
(* A request is authorized while the policies that decide it change.       *)
(*                                                                         *)
(* The server reads the layers one statement at a time (evalInputs): the   *)
(* resource's policy with the resource, then the identity's documents, the *)
(* boundary, the SCPs, the RCPs, and for AssumeRole the identity's         *)
(* documents again.  A user's documents come from one query; what is       *)
(* attached to a role, or to root, and what is inline in it from two.  No  *)
(* transaction or version ties these reads together.                       *)
(* Who asks, its session policy, the place of its account and the resource *)
(* are those of one credential and one resource and stay.                  *)
(***************************************************************************)
EXTENDS Naturals, Sequences, AuthzEval

CONSTANTS
    PlainDocuments,     \* documents of identities, sessions, boundaries, SCPs, RCPs
    ResourceDocuments,  \* policies of resources, keys and roles
    Credentials,        \* who asks, with which session policy
    Situations,         \* of the account, the resource and its grants
    MaxChanges          \* bound: changes of policies

ASSUME PolicyAssumption ==
    /\ PlainDocuments \subseteq Documents
    /\ ResourceDocuments \subseteq Documents
    /\ Credentials \subseteq
         [caller : {"root", "user", "role", "federated"}, session : SUBSET Documents]
    /\ \A c \in Credentials : c.caller = "user" => c.session = {}
    /\ Situations \subseteq
         [management : BOOLEAN, foreign : BOOLEAN, grant : BOOLEAN, publicRead : BOOLEAN]
    /\ MaxChanges \in Nat

VARIABLES
    now,       \* the policies as they stand, a view
    request,   \* Idle, or the gate, the number of layers read and what was read
    changes,   \* policies changed so far
    possible,  \* history: the gate allowed at some moment since the request began
    revoked    \* history: since then a document was taken away or replaced

vars == <<now, request, changes, possible, revoked>>

Idle == [read |-> 0]

\* evalInputs, and the second load of the identity's documents.
\* Broken: the boundary before the identity.
BoundaryFirst(gate) ==
    IF gate = "assumeRole"
      THEN <<"boundary", "attached", "inline", "scps", "rcps", "attachedAgain", "inlineAgain">>
      ELSE <<"boundary", "attached", "inline", "scps", "rcps">>

ReadOrder(gate) ==
    IF gate = "assumeRole"
      THEN <<"attached", "inline", "boundary", "scps", "rcps", "attachedAgain", "inlineAgain">>
      ELSE <<"attached", "inline", "boundary", "scps", "rcps">>

\* IdentityPolicyDocsForUser: one query, for the user of a federated session too.
OneQuery(caller) == caller \in {"user", "federated"}

Decided == request # Idle /\ request.read = Len(ReadOrder(request.gate))

TypeOK ==
    /\ now \in Views
    /\ now.caller = "root" => now.boundary = NoDocument
    /\ now.caller = "user" => now.session = {}
    /\ now.caller = "federated" => now.session # {}
    /\ now.attachedAgain = now.attached /\ now.inlineAgain = now.inline
    /\ request = Idle \/ request \in [gate : CallerGates, read : 0..7, seen : Views]
    /\ request # Idle => request.read <= Len(ReadOrder(request.gate))
    /\ changes \in 0..MaxChanges
    /\ possible \in BOOLEAN
    /\ revoked \in BOOLEAN

\* A federated user without a session policy is denied everything.  Of root's
\* credentials those of GetFederationToken may have a policy.
SessionDocs(caller, session) ==
    IF caller = "federated" /\ session = {} THEN {{}} ELSE session

Init ==
    /\ \E c \in Credentials, s \in Situations :
         \E identity \in {{}} \cup {{doc} : doc \in PlainDocuments} :
         \E policy \in {NoDocument} \cup ResourceDocuments :
           now = [caller |-> c.caller, management |-> s.management, foreign |-> s.foreign,
                  grant |-> s.grant, publicRead |-> s.publicRead,
                  session |-> SessionDocs(c.caller, c.session),
                  attached |-> {}, inline |-> identity,
                  boundary |-> NoDocument, scps |-> {}, rcps |-> {}, policy |-> policy,
                  attachedAgain |-> {}, inlineAgain |-> identity]
    /\ request = Idle
    /\ changes = 0
    /\ possible = FALSE
    /\ revoked = FALSE

-----------------------------------------------------------------------------
(* Changes of policies.                                                    *)

\* The policies become "next"; "away" says that something was taken away.
Change(next, away) ==
    /\ changes < MaxChanges
    /\ next # now
    /\ now' = next
    /\ changes' = changes + 1
    /\ possible' = (possible \/ (request # Idle /\ Allows(request.gate, next)))
    /\ revoked' = (revoked \/ (request # Idle /\ away))
    /\ UNCHANGED request

\* A document that can refuse.
Restrictive(doc) == \E st \in doc : st.effect = "Deny" \/ st.condition = "unknown"

WithAttached(docs) == [now EXCEPT !.attached = docs, !.attachedAgain = docs]
WithInline(docs) == [now EXCEPT !.inline = docs, !.inlineAgain = docs]

\* A restriction attached beside a request of a role is like one taken away:
\* the request may read the attached documents before it and the inline ones
\* after a later change.
AttachPolicy(doc) ==
    Change(WithAttached(now.attached \cup {doc}), ~OneQuery(now.caller) /\ Restrictive(doc))

DetachPolicy(doc) == Change(WithAttached(now.attached \ {doc}), TRUE)

PutInlinePolicy(doc) == Change(WithInline(now.inline \cup {doc}), FALSE)

DeleteInlinePolicy(doc) == Change(WithInline(now.inline \ {doc}), TRUE)

\* The document of a policy that is there already is replaced.
ReplaceInlinePolicy(old, doc) ==
    old \in now.inline /\ Change(WithInline((now.inline \ {old}) \cup {doc}), TRUE)

SetDefaultManagedPolicyVersion(old, doc) ==
    old \in now.attached /\ Change(WithAttached((now.attached \ {old}) \cup {doc}), TRUE)

\* A boundary that is there already is replaced.
PutPermissionsBoundary(doc) ==
    /\ now.caller # "root"
    /\ Change([now EXCEPT !.boundary = doc], Present(now.boundary))

DeletePermissionsBoundary == Change([now EXCEPT !.boundary = NoDocument], TRUE)

AttachSCP(doc) == Change([now EXCEPT !.scps = now.scps \cup {doc}], FALSE)
DetachSCP(doc) == Change([now EXCEPT !.scps = now.scps \ {doc}], TRUE)
AttachRCP(doc) == Change([now EXCEPT !.rcps = now.rcps \cup {doc}], FALSE)
DetachRCP(doc) == Change([now EXCEPT !.rcps = now.rcps \ {doc}], TRUE)

SetResourcePolicy(doc) == Change([now EXCEPT !.policy = doc], TRUE)

-----------------------------------------------------------------------------
(* A request.                                                              *)

\* The resource, key or role is loaded, and its policy with it.
Begin(gate) ==
    /\ request = Idle
    /\ request' = [gate |-> gate, read |-> 0, seen |-> now]
    /\ possible' = Allows(gate, now)
    /\ revoked' = FALSE
    /\ UNCHANGED <<now, changes>>

\* The next statement reads an identity's two layers.
Paired == OneQuery(now.caller) /\ request.read \in {0, 5}

\* What the next statements of the request read of a layer.
Layer(i) == ReadOrder(request.gate)[request.read + i]

ReadLayer ==
    /\ request # Idle
    /\ ~Decided
    /\ ~Paired
    /\ request' = [request EXCEPT !.read = request.read + 1,
                        !.seen = [request.seen EXCEPT ![Layer(1)] = now[Layer(1)]]]
    /\ UNCHANGED <<now, changes, possible, revoked>>

ReadUser ==
    /\ request # Idle
    /\ ~Decided
    /\ Paired
    /\ request' = [request EXCEPT !.read = request.read + 2,
                        !.seen = [request.seen EXCEPT ![Layer(1)] = now[Layer(1)],
                                                      ![Layer(2)] = now[Layer(2)]]]
    /\ UNCHANGED <<now, changes, possible, revoked>>

\* The request is served or refused.
End ==
    /\ Decided
    /\ request' = Idle
    /\ possible' = FALSE
    /\ revoked' = FALSE
    /\ UNCHANGED <<now, changes>>

Next ==
    \/ \E doc \in PlainDocuments :
         \/ AttachPolicy(doc) \/ DetachPolicy(doc)
         \/ PutInlinePolicy(doc) \/ DeleteInlinePolicy(doc)
         \/ PutPermissionsBoundary(doc)
         \/ AttachSCP(doc) \/ DetachSCP(doc)
         \/ AttachRCP(doc) \/ DetachRCP(doc)
    \/ \E old, doc \in PlainDocuments :
         ReplaceInlinePolicy(old, doc) \/ SetDefaultManagedPolicyVersion(old, doc)
    \/ DeletePermissionsBoundary
    \/ \E doc \in ResourceDocuments : SetResourcePolicy(doc)
    \/ \E gate \in CallerGates : Begin(gate)
    \/ ReadLayer \/ ReadUser
    \/ End

Spec == Init /\ [][Next]_vars

-----------------------------------------------------------------------------
\* Documents refuse a caller: a Deny matches, or a key is not in the catalog.
Refused(doc, caller, mode) == \E st \in doc :
    st.condition = "unknown" \/ (st.effect = "Deny" /\ Matches(st, caller, mode))

\* The documents beside the resource's policy whose refusal counts: not root's
\* own where a resource decides, not its session's for a key.
Consulted(gate, v) ==
    (IF gate = "resource" /\ v.caller = "root" THEN {} ELSE Identity(v))
      \cup (IF gate = "key" /\ v.caller = "root" THEN {} ELSE v.session)
      \cup Boundary(v) \cup SCPs(v) \cup v.rcps

\* No gate allows what a document that it must heed denies, or what a document
\* with a condition key outside the catalog might: each gate consults the
\* layers in another order, by another matcher and with exceptions of its own
\* (eval_full.go:29, eval_resource_xa.go:35, eval_kms.go:28, handlers.go:707).
\* A trust's unknown key is skipped when a role is passed (passrole.go:247).
ExplicitDenyWins == \A gate \in CallerGates : Allows(gate, now) =>
    /\ \A doc \in Consulted(gate, now) : ~Refused(doc, now.caller, "identity")
    /\ gate \in {"resource", "key", "assumeRole"} =>
         \A doc \in AsSet(now.policy) : ~Refused(doc, now.caller, "delegated")
    /\ gate = "passRole" => ~Hits(AsSet(now.policy), now.caller, "service", "Deny")

Consents(doc, caller, mode) == \E st \in doc : st.effect = "Allow" /\ Matches(st, caller, mode)

AnyConsents(docs, caller, mode) == \E doc \in docs : Consents(doc, caller, mode)

\* What a gate allows every layer agreed to: each SCP and RCP by itself, the
\* session, the boundary, and a grant that is none of these, from the identity
\* or from the resource in its own account.  A boundary does not bind where
\* the resource alone grants (handlers.go:703-706); sessions of root bind
\* only where EvaluateFull decides.
EveryLayerConsents == \A gate \in CallerGates : Allows(gate, now) =>
    LET c == now.caller
        identity == c = "root" \/ AnyConsents(Identity(now), c, "identity")
        resource == gate = "resource" /\ ~now.foreign /\ AnyConsents(AsSet(now.policy), c, "direct")
    IN
    /\ \A doc \in now.rcps \cup SCPs(now) : Consents(doc, c, "identity")
    /\ \/ now.session = {}
       \/ AnyConsents(now.session, c, "identity")
       \/ c = "root" /\ gate \in {"resource", "key"}
    /\ \/ Boundary(now) = {}
       \/ AnyConsents(Boundary(now), c, "identity")
       \/ resource /\ ~Evaluate(c, Identity(now))
    /\ identity \/ resource \/ (gate = "key" /\ now.grant)
    /\ gate \in {"key", "assumeRole"} \/ (gate = "resource" /\ now.foreign) =>
         AnyConsents(AsSet(now.policy), c, "delegated")
    /\ gate = "passRole" => AnyConsents(AsSet(now.policy), c, "service")

\* A request that was allowed on documents read at different moments could
\* have been allowed at one of them, as long as documents were only added
\* (and no restriction attached to a role, see AttachPolicy): an administrator
\* may bound a principal and then grant to it, in that order, beside any
\* request (handlers.go:613-678).
NoTornGrant == Decided /\ ~revoked /\ Allows(request.gate, request.seen) => possible

\* Attaching a document that allows nothing opens no gate, wherever it is
\* attached: a refusal also ends the grants of the resource's policy and is
\* not taken for a missing grant of the identity (eval_resource_xa.go:35-72).
\* (Policies take every value between requests that they take beside one.)
DenyNeverGrants ==
    LET Attached(layer, doc) == [now EXCEPT ![layer] = now[layer] \cup {doc}] IN
    request = Idle =>
    \A doc \in PlainDocuments : (\A st \in doc : st.effect = "Deny") =>
      \A gate \in Gates, layer \in {"attached", "inline", "scps", "rcps"} :
        Allows(gate, Attached(layer, doc)) => Allows(gate, now)

=============================================================================
