------------------------------ MODULE AuthzEval ------------------------------
(***************************************************************************)
(* Authorization of one request: the evaluators of internal/kernel/authz   *)
(* and the gates of the server that combine them.                          *)
(*                                                                         *)
(* A document is the set of its statements; no evaluator depends on their  *)
(* order, and a document that cannot be parsed is one without statements.  *)
(* A statement is what the matchers tell of it for the request at hand:    *)
(*   effect     "Allow", "Deny" or anything else                           *)
(*   names      the Principal: "nobody" where there is none, or a pattern  *)
(*   covers     its Action and Resource patterns match                     *)
(*   condition  "match", "noMatch", or "unknown" for a key or operator     *)
(*              that is not in the catalog                                 *)
(* What the caller is does not change during a request: "root" and         *)
(* "federated" (GetFederationToken) sessions, "user", "role", the identity *)
(* "provider" of AssumeRoleWithSAML and WithWebIdentity, "anonymous".      *)
(***************************************************************************)
EXTENDS FiniteSets

Callers == {"root", "user", "role", "federated", "provider", "anonymous"}
Names == {"nobody", "everyone", "aws", "caller", "account", "provider", "service"}

Statements ==
    [effect : {"Allow", "Deny", "other"}, names : Names,
     covers : BOOLEAN, condition : {"match", "noMatch", "unknown"}]

Documents == SUBSET Statements

CONSTANT NoDocument   \* a boundary or resource policy that is not there

Present(doc) == doc # NoDocument
AsSet(doc) == IF doc = NoDocument THEN {} ELSE {doc}

-----------------------------------------------------------------------------
(* Matching.                                                               *)

\* matchPrincipal: the root of the caller's account stands for the account's
\* users and roles only where the account delegates.
MatchPrincipal(names, caller, delegate) ==
    \/ names = "everyone"
    \/ names = "provider" /\ caller = "provider"
    \/ /\ caller # "provider"
       /\ \/ names = "aws"
          \/ names = "caller" /\ caller # "anonymous"
          \/ names = "account" /\ caller # "anonymous" /\ (delegate \/ caller = "root")

Applies(st) == st.effect \in {"Allow", "Deny"} /\ st.covers /\ st.condition = "match"

\* The way a statement is matched depends on where its document is attached:
\* to an identity, to a resource, to a resource whose account delegates (role
\* trust too), or to a resource or role that a service asks for.
Matches(st, caller, mode) ==
    /\ Applies(st)
    /\ CASE mode = "identity"  -> st.names = "nobody" \/ MatchPrincipal(st.names, caller, FALSE)
         [] mode = "direct"    -> MatchPrincipal(st.names, caller, FALSE)
         [] mode = "delegated" -> MatchPrincipal(st.names, caller, TRUE)
         [] mode = "service"   -> st.names \in {"everyone", "service"}
         [] mode = "root"      -> st.names \in {"everyone", "aws", "account"}

Hits(docs, caller, mode, effect) ==
    \E doc \in docs : \E st \in doc : st.effect = effect /\ Matches(st, caller, mode)

Unknown(docs) == \E doc \in docs : \E st \in doc : st.condition = "unknown"

\* policyEffectHits found a Deny, or a condition key it does not know.
Refuses(docs, caller, mode) == Unknown(docs) \/ Hits(docs, caller, mode, "Deny")

Permits(docs, caller, mode) ==
    Hits(docs, caller, mode, "Allow") /\ ~Refuses(docs, caller, mode)

-----------------------------------------------------------------------------
(* Evaluators.                                                             *)

evaluatePolicies(caller, docs) == Permits(docs, caller, "identity")

Evaluate(caller, docs) == caller = "root" \/ evaluatePolicies(caller, docs)

\* A view is what one request knows of the policies: who asks, the account's
\* place in the organization, the resource's account and grants, and the
\* documents of every layer (the identity's, attached and inline, once more
\* for AssumeRole).
Views ==
    [caller : Callers, management : BOOLEAN, foreign : BOOLEAN, grant : BOOLEAN,
     publicRead : BOOLEAN, session : SUBSET Documents,
     attached : SUBSET Documents, inline : SUBSET Documents,
     boundary : {NoDocument} \cup Documents, scps : SUBSET Documents,
     rcps : SUBSET Documents, policy : {NoDocument} \cup Documents,
     attachedAgain : SUBSET Documents, inlineAgain : SUBSET Documents]

Identity(v) == v.attached \cup v.inline
Boundary(v) == IF v.caller = "root" THEN {} ELSE AsSet(v.boundary)
SCPs(v) == IF v.management THEN {} ELSE v.scps

\* Broken: the documents of an organization allow together.
orgFilterAllowsTogether(v, docs) == docs = {} \/ evaluatePolicies(v.caller, docs)

\* Every document of an organization must allow by itself.
orgFilterAllows(v, docs) == \A doc \in docs : evaluatePolicies(v.caller, {doc})

OrgFiltersDeny(v) == ~orgFilterAllows(v, v.rcps) \/ ~orgFilterAllows(v, SCPs(v))

\* Broken: the identity's documents are left to their own evaluation.
denyScanOfOthers(v) ==
    Refuses(v.session \cup v.rcps \cup SCPs(v) \cup Boundary(v), v.caller, "identity")

denyScanFull(v) ==
    Refuses(Identity(v) \cup v.session \cup v.rcps \cup SCPs(v) \cup Boundary(v), v.caller, "identity")

EvaluateFull(v) ==
    /\ ~denyScanFull(v)
    /\ ~OrgFiltersDeny(v)
    /\ Evaluate(v.caller, Identity(v))
    /\ Boundary(v) # {} => evaluatePolicies(v.caller, Boundary(v))
    /\ v.session # {} => evaluatePolicies(v.caller, v.session)

\* Broken: an explicit Deny of the identity does not count beside the policy.
ResourceRefusesOnly(v) == Refuses(AsSet(v.policy), v.caller, "delegated")

ResourceRefuses(v) ==
    \/ v.caller # "root" /\ Refuses(Identity(v), v.caller, "identity")
    \/ Refuses(AsSet(v.policy), v.caller, "delegated")

EvaluateResourceAccess(v) ==
    /\ ~ResourceRefuses(v)
    /\ IF v.foreign
         THEN Evaluate(v.caller, Identity(v)) /\ Hits(AsSet(v.policy), v.caller, "delegated", "Allow")
         ELSE Evaluate(v.caller, Identity(v)) \/ Hits(AsSet(v.policy), v.caller, "direct", "Allow")

\* An account-level operation has no key and no policy: that is "control".
EvaluateKMS(v) ==
    /\ Present(v.policy)
    /\ ~Refuses(Identity(v), v.caller, "identity")
    /\ Permits(AsSet(v.policy), v.caller, "delegated")
    /\ v.grant \/ Evaluate(v.caller, Identity(v))

EvaluateCrossAccount(caller, identity, trust) ==
    /\ Evaluate(caller, identity)
    /\ Permits(AsSet(trust), caller, "delegated")

\* A statement with an unknown key does not match here, whatever its effect.
TrustAllowsService(trust) ==
    /\ Hits(AsSet(trust), "anonymous", "service", "Allow")
    /\ ~Hits(AsSet(trust), "anonymous", "service", "Deny")

\* The service is allowed, or the account's root; a Deny of one leaves the other.
EventTargetResourcePolicyAllows(policy) ==
    \E path \in {"service", "root"} : Permits(AsSet(policy), "anonymous", path)

EvaluateAnonymousS3GetObject(v) ==
    /\ ~Refuses(AsSet(v.policy), "anonymous", "direct")
    /\ Hits(AsSet(v.policy), "anonymous", "direct", "Allow") \/ v.publicRead

-----------------------------------------------------------------------------
(* Gates of the server.                                                    *)

\* The session is consulted with Evaluate: not for root.
authorizeDataplaneOR(v) ==
    /\ ~OrgFiltersDeny(v)
    /\ EvaluateResourceAccess(v)
    /\ ~Refuses(Boundary(v) \cup v.session, v.caller, "identity")
    /\ v.session # {} => Evaluate(v.caller, v.session)
    /\ Evaluate(v.caller, Identity(v)) /\ Boundary(v) # {} => Evaluate(v.caller, Boundary(v))

authorizeDataplaneKMS(v) ==
    /\ ~OrgFiltersDeny(v)
    /\ EvaluateKMS(v)
    /\ Boundary(v) # {} => Evaluate(v.caller, Boundary(v))
    /\ v.session # {} => Evaluate(v.caller, v.session)

\* The identity's documents are loaded a second time after the first gate, by
\* the caller's own name: a federated user, no principal of any policy, has none.
callerDocs(v) == IF v.caller = "federated" THEN {} ELSE v.attachedAgain \cup v.inlineAgain

handleAssumeRole(v) ==
    EvaluateFull(v) /\ EvaluateCrossAccount(v.caller, callerDocs(v), v.policy)

CheckPassRole(v) == EvaluateFull(v) /\ TrustAllowsService(v.policy)

\* The provider's own documents allow exactly the role that it asks for.
AssumeRoleWithProvider(v) == Permits(AsSet(v.policy), "provider", "delegated")

CallerGates == {"control", "resource", "key", "assumeRole", "passRole"}
PolicyGates == {"webIdentity", "anonymousGet", "delivery"}
Gates == CallerGates \cup PolicyGates

Allows(gate, v) ==
    CASE gate = "control" -> EvaluateFull(v)
      [] gate = "resource" -> authorizeDataplaneOR(v)
      [] gate = "key" -> authorizeDataplaneKMS(v)
      [] gate = "assumeRole" -> handleAssumeRole(v)
      [] gate = "passRole" -> CheckPassRole(v)
      [] gate = "webIdentity" -> AssumeRoleWithProvider(v)
      [] gate = "anonymousGet" -> EvaluateAnonymousS3GetObject(v)
      [] gate = "delivery" -> EventTargetResourcePolicyAllows(v.policy)

=============================================================================
