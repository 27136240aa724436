-------------------------- MODULE AuthzSecretsProofs --------------------------
(***************************************************************************)
(* Theorems about the authorization of requests, for any documents, any    *)
(* credentials and any number of changes of policies, and, in the second   *)
(* half, about the versions of a secret, for any number of clients,        *)
(* versions and requests.                                                  *)
(*                                                                         *)
(* Authorization: the first facts relate the matchers to the statements of *)
(* documents; the deny and consent theorems follow from them gate by gate. *)
(* That a grant is not torn needs an invariant: the moments at which the   *)
(* identity's documents were read bound what every later read can add.     *)
(*                                                                         *)
(* Secrets: a request stands where its phase says; versions stay sealed    *)
(* under their ids; a request alone leaves one current version.            *)
(***************************************************************************)
EXTENDS AuthzRequests, SecretStages, FiniteSetTheorems, SequenceTheorems, TLAPS

-----------------------------------------------------------------------------
(* Types.                                                                  *)

\* A change to a well-typed view keeps the types.
LEMMA ChangeType ==
    ASSUME TypeOK, NEW next \in Views, NEW away \in BOOLEAN, Change(next, away),
           next.caller = now.caller, next.session = now.session,
           next.attachedAgain = next.attached, next.inlineAgain = next.inline,
           now.caller = "root" => next.boundary = now.boundary
    PROVE  TypeOK'
<1>1. /\ now' = next /\ request' = request /\ changes' = changes + 1 /\ changes < MaxChanges
      /\ possible' \in BOOLEAN /\ revoked' \in BOOLEAN
    BY DEF Change, TypeOK
<1>2. changes' \in 0..MaxChanges
    BY <1>1, PolicyAssumption DEF TypeOK
<1> QED
    BY <1>1, <1>2 DEF TypeOK

\* What a policy change may put in place of a view.
LEMMA ViewChange ==
    ASSUME NEW v \in Views, NEW doc \in Documents
    PROVE  /\ \A docs \in SUBSET Documents :
                /\ [v EXCEPT !.attached = docs, !.attachedAgain = docs] \in Views
                /\ [v EXCEPT !.inline = docs, !.inlineAgain = docs] \in Views
                /\ [v EXCEPT !.scps = docs] \in Views
                /\ [v EXCEPT !.rcps = docs] \in Views
           /\ [v EXCEPT !.boundary = doc] \in Views
           /\ [v EXCEPT !.boundary = NoDocument] \in Views
           /\ [v EXCEPT !.policy = doc] \in Views
           /\ v.attached \in SUBSET Documents /\ v.inline \in SUBSET Documents
           /\ v.scps \in SUBSET Documents /\ v.rcps \in SUBSET Documents
    BY DEF Views

\* A change of the identity's documents leaves a view.
LEMMA IdentityChange ==
    ASSUME now \in Views, NEW docs \in SUBSET Documents
    PROVE  WithAttached(docs) \in Views /\ WithInline(docs) \in Views
<1>1. WithAttached(docs) \in Views
    BY DEF WithAttached, Views
<1>2. WithInline(docs) \in Views
    BY DEF WithInline, Views
<1> QED
    BY <1>1, <1>2

\* A view that one layer of the policies in force is read into is one.
LEMMA LayerRead ==
    ASSUME now \in Views, NEW w \in Views
    PROVE  /\ [w EXCEPT !.attached = now.attached] \in Views
           /\ [w EXCEPT !.inline = now.inline] \in Views
           /\ [w EXCEPT !.boundary = now.boundary] \in Views
           /\ [w EXCEPT !.scps = now.scps] \in Views
           /\ [w EXCEPT !.rcps = now.rcps] \in Views
           /\ [w EXCEPT !.attachedAgain = now.attachedAgain] \in Views
           /\ [w EXCEPT !.inlineAgain = now.inlineAgain] \in Views
<1>1. [w EXCEPT !.attached = now.attached] \in Views
    BY DEF Views
<1>2. [w EXCEPT !.inline = now.inline] \in Views
    BY DEF Views
<1>3. [w EXCEPT !.boundary = now.boundary] \in Views
    BY DEF Views
<1>4. [w EXCEPT !.scps = now.scps] \in Views
    BY DEF Views
<1>5. [w EXCEPT !.rcps = now.rcps] \in Views
    BY DEF Views
<1>6. [w EXCEPT !.attachedAgain = now.attachedAgain] \in Views
    BY DEF Views
<1>7. [w EXCEPT !.inlineAgain = now.inlineAgain] \in Views
    BY DEF Views
<1> QED
    BY <1>1, <1>2, <1>3, <1>4, <1>5, <1>6, <1>7

\* So is a view that both layers of an identity are read into at once.
LEMMA PairRead ==
    ASSUME now \in Views, NEW w \in Views
    PROVE  /\ [w EXCEPT !.attached = now.attached, !.inline = now.inline] \in Views
           /\ [w EXCEPT !.attachedAgain = now.attachedAgain, !.inlineAgain = now.inlineAgain] \in Views
<1>1. [w EXCEPT !.attached = now.attached, !.inline = now.inline] \in Views
    BY DEF Views
<1>2. [w EXCEPT !.attachedAgain = now.attachedAgain, !.inlineAgain = now.inlineAgain] \in Views
    BY DEF Views
<1> QED
    BY <1>1, <1>2

\* The initial states are well typed (session policies of PolicyAssumption).
LEMMA InitType == Init => TypeOK
<1> SUFFICES ASSUME Init PROVE TypeOK
    OBVIOUS
<1>1. PICK c \in Credentials, s \in Situations,
           identity \in {{}} \cup {{doc} : doc \in PlainDocuments},
           policy \in {NoDocument} \cup ResourceDocuments :
           now = [caller |-> c.caller, management |-> s.management, foreign |-> s.foreign,
                  grant |-> s.grant, publicRead |-> s.publicRead,
                  session |-> SessionDocs(c.caller, c.session),
                  attached |-> {}, inline |-> identity,
                  boundary |-> NoDocument, scps |-> {}, rcps |-> {}, policy |-> policy,
                  attachedAgain |-> {}, inlineAgain |-> identity]
    BY DEF Init
<1>2. /\ c.caller \in {"root", "user", "role", "federated"} /\ c.session \in SUBSET Documents
      /\ c.caller = "user" => c.session = {}
    BY PolicyAssumption
<1>3. /\ s.management \in BOOLEAN /\ s.foreign \in BOOLEAN /\ s.grant \in BOOLEAN
      /\ s.publicRead \in BOOLEAN
    BY PolicyAssumption
<1>4. identity \in SUBSET Documents /\ policy \in {NoDocument} \cup Documents
    BY PolicyAssumption
<1>5. {} \in Documents
    BY DEF Documents
<1>6. /\ SessionDocs(c.caller, c.session) \in SUBSET Documents
      /\ c.caller = "federated" => SessionDocs(c.caller, c.session) # {}
      /\ c.caller = "user" => SessionDocs(c.caller, c.session) = {}
    BY <1>2, <1>5 DEF SessionDocs
<1>7. now \in Views
    BY <1>1, <1>2, <1>3, <1>4, <1>6 DEF Views, Callers
<1>8. /\ now.caller = c.caller /\ now.boundary = NoDocument
      /\ now.attachedAgain = now.attached /\ now.inlineAgain = now.inline
      /\ now.session = SessionDocs(c.caller, c.session)
    BY <1>1
<1>9. changes \in 0..MaxChanges
    BY PolicyAssumption DEF Init
<1> QED
    BY <1>6, <1>7, <1>8, <1>9 DEF Init, TypeOK

\* The layers in the order in which they are read.
LEMMA ReadOrderFacts ==
    ASSUME NEW gate \in CallerGates
    PROVE  /\ Len(ReadOrder(gate)) = IF gate = "assumeRole" THEN 7 ELSE 5
           /\ ReadOrder(gate)[1] = "attached" /\ ReadOrder(gate)[2] = "inline"
           /\ ReadOrder(gate)[3] = "boundary"
           /\ ReadOrder(gate)[4] = "scps" /\ ReadOrder(gate)[5] = "rcps"
           /\ gate = "assumeRole" =>
                ReadOrder(gate)[6] = "attachedAgain" /\ ReadOrder(gate)[7] = "inlineAgain"
    BY DEF ReadOrder

\* A request that has not read everything reads one or two layers.
LEMMA ReadFacts ==
    ASSUME TypeOK, ReadLayer \/ ReadUser
    PROVE  /\ request \in [gate : CallerGates, read : 0..7, seen : Views] /\ request # Idle
           /\ UNCHANGED <<now, changes, possible, revoked>>
           /\ request.read \in 0..6
           /\ request.read \in {5, 6} => request.gate = "assumeRole"
           /\ request.read # Len(ReadOrder(request.gate))
<1>1. /\ request \in [gate : CallerGates, read : 0..7, seen : Views] /\ request # Idle
      /\ UNCHANGED <<now, changes, possible, revoked>>
    BY DEF ReadLayer, ReadUser, TypeOK
<1>2. request.read # Len(ReadOrder(request.gate)) /\ request.read <= Len(ReadOrder(request.gate))
    BY <1>1 DEF ReadLayer, ReadUser, Decided, TypeOK
<1>3. /\ request.read # IF request.gate = "assumeRole" THEN 7 ELSE 5
      /\ request.read <= IF request.gate = "assumeRole" THEN 7 ELSE 5
    BY <1>1, <1>2, ReadOrderFacts
<1> QED
    BY <1>1, <1>2, <1>3

\* One layer: which one, by the number of those already read.
LEMMA ReadLayerFacts ==
    ASSUME TypeOK, ReadLayer
    PROVE  /\ request'.read = request.read + 1 /\ request'.gate = request.gate
           /\ request' = [gate |-> request'.gate, read |-> request'.read, seen |-> request'.seen]
           /\ request.read = 0 => request'.seen = [request.seen EXCEPT !.attached = now.attached]
           /\ request.read = 1 => request'.seen = [request.seen EXCEPT !.inline = now.inline]
           /\ request.read = 2 => request'.seen = [request.seen EXCEPT !.boundary = now.boundary]
           /\ request.read = 3 => request'.seen = [request.seen EXCEPT !.scps = now.scps]
           /\ request.read = 4 => request'.seen = [request.seen EXCEPT !.rcps = now.rcps]
           /\ request.read = 5 => request'.seen = [request.seen EXCEPT !.attachedAgain = now.attachedAgain]
           /\ request.read = 6 => request'.seen = [request.seen EXCEPT !.inlineAgain = now.inlineAgain]
<1>1. PICK layer, s : /\ layer = ReadOrder(request.gate)[request.read + 1]
                      /\ s = [request.seen EXCEPT ![layer] = now[layer]]
    OBVIOUS
<1>2. request' = [request EXCEPT !.read = request.read + 1, !.seen = s]
    BY <1>1 DEF ReadLayer, Layer
<1>3. /\ request'.seen = s /\ request'.gate = request.gate /\ request'.read = request.read + 1
      /\ request' = [gate |-> request'.gate, read |-> request'.read, seen |-> request'.seen]
    BY <1>2, ReadFacts
<1>4. /\ request.read = 0 => layer = "attached"
      /\ request.read = 1 => layer = "inline"
      /\ request.read = 2 => layer = "boundary"
      /\ request.read = 3 => layer = "scps"
      /\ request.read = 4 => layer = "rcps"
      /\ request.read = 5 => layer = "attachedAgain"
      /\ request.read = 6 => layer = "inlineAgain"
    BY <1>1, ReadFacts, ReadOrderFacts
<1> QED
    BY <1>1, <1>3, <1>4

\* Two layers: those of the identity, the first or the second time.
LEMMA ReadUserFacts ==
    ASSUME TypeOK, ReadUser
    PROVE  /\ request.read \in {0, 5}
           /\ request'.read = request.read + 2 /\ request'.gate = request.gate
           /\ request' = [gate |-> request'.gate, read |-> request'.read, seen |-> request'.seen]
           /\ request.read = 0 => request'.seen =
                [request.seen EXCEPT !.attached = now.attached, !.inline = now.inline]
           /\ request.read = 5 => request'.seen =
                [request.seen EXCEPT !.attachedAgain = now.attachedAgain, !.inlineAgain = now.inlineAgain]
<1>1. PICK one, two, s : /\ one = ReadOrder(request.gate)[request.read + 1]
                         /\ two = ReadOrder(request.gate)[request.read + 2]
                         /\ s = [request.seen EXCEPT ![one] = now[one], ![two] = now[two]]
    OBVIOUS
<1>2. request' = [request EXCEPT !.read = request.read + 2, !.seen = s]
    BY <1>1 DEF ReadUser, Layer
<1>3. /\ request'.seen = s /\ request'.gate = request.gate /\ request'.read = request.read + 2
      /\ request' = [gate |-> request'.gate, read |-> request'.read, seen |-> request'.seen]
      /\ request.read \in {0, 5}
    BY <1>2, ReadFacts DEF ReadUser, Paired
<1>4. /\ request.read = 0 => one = "attached" /\ two = "inline"
      /\ request.read = 5 => one = "attachedAgain" /\ two = "inlineAgain"
    BY <1>1, ReadFacts, ReadOrderFacts
<1> QED
    BY <1>1, <1>3, <1>4

\* Every step keeps the types.
LEMMA TypeStep == ASSUME TypeOK, [Next]_vars PROVE TypeOK'
<1>0. now \in Views /\ PlainDocuments \subseteq Documents /\ ResourceDocuments \subseteq Documents
    BY PolicyAssumption DEF TypeOK
<1>1. ASSUME NEW doc \in PlainDocuments,
             \/ AttachPolicy(doc) \/ DetachPolicy(doc)
             \/ PutInlinePolicy(doc) \/ DeleteInlinePolicy(doc)
      PROVE  TypeOK'
    <2>1. PICK docs \in SUBSET Documents, away \in BOOLEAN :
              Change(WithAttached(docs), away) \/ Change(WithInline(docs), away)
        BY <1>0, <1>1, ViewChange DEF AttachPolicy, DetachPolicy, PutInlinePolicy,
           DeleteInlinePolicy, OneQuery, Restrictive
    <2>2. PICK next \in {WithAttached(docs), WithInline(docs)} : Change(next, away)
        BY <2>1
    <2>3. next \in Views
        BY <1>0, <2>2, IdentityChange
    <2>4. now.attachedAgain = now.attached /\ now.inlineAgain = now.inline
        BY DEF TypeOK
    <2>5. /\ next.caller = now.caller /\ next.session = now.session
          /\ next.attachedAgain = next.attached /\ next.inlineAgain = next.inline
          /\ next.boundary = now.boundary
        BY <1>0, <2>2, <2>4 DEF WithAttached, WithInline, Views
    <2> QED
        BY <2>2, <2>3, <2>5, ChangeType
<1>10. ASSUME NEW old \in PlainDocuments, NEW doc \in PlainDocuments,
              ReplaceInlinePolicy(old, doc) \/ SetDefaultManagedPolicyVersion(old, doc)
       PROVE  TypeOK'
    <2>1. PICK docs \in SUBSET Documents :
              Change(WithAttached(docs), TRUE) \/ Change(WithInline(docs), TRUE)
        BY <1>0, <1>10, ViewChange DEF ReplaceInlinePolicy, SetDefaultManagedPolicyVersion
    <2>2. PICK next \in {WithAttached(docs), WithInline(docs)} : Change(next, TRUE)
        BY <2>1
    <2>3. next \in Views
        BY <1>0, <2>2, IdentityChange
    <2>4. now.attachedAgain = now.attached /\ now.inlineAgain = now.inline
        BY DEF TypeOK
    <2>5. /\ next.caller = now.caller /\ next.session = now.session
          /\ next.attachedAgain = next.attached /\ next.inlineAgain = next.inline
          /\ next.boundary = now.boundary
        BY <1>0, <2>2, <2>4 DEF WithAttached, WithInline, Views
    <2> QED
        BY <2>2, <2>3, <2>5, ChangeType
<1>2. ASSUME NEW doc \in PlainDocuments,
             PutPermissionsBoundary(doc) \/ DeletePermissionsBoundary
      PROVE  TypeOK'
    <2>1. PICK b \in {NoDocument} \cup Documents, away \in BOOLEAN :
              /\ Change([now EXCEPT !.boundary = b], away)
              /\ now.caller = "root" => b = NoDocument
        BY <1>0, <1>2 DEF PutPermissionsBoundary, DeletePermissionsBoundary, Present
    <2>2. [now EXCEPT !.boundary = b] \in Views
        BY <1>0, ViewChange
    <2>3. now.caller = "root" => b = now.boundary
        BY <2>1 DEF TypeOK
    <2>4. PICK next : next = [now EXCEPT !.boundary = b]
        OBVIOUS
    <2>5. /\ next.caller = now.caller /\ next.session = now.session
          /\ next.attachedAgain = next.attached /\ next.inlineAgain = next.inline
          /\ next.boundary = b
        BY <1>0, <2>4 DEF Views, TypeOK
    <2> QED
        BY <2>1, <2>2, <2>3, <2>4, <2>5, ChangeType
<1>3. ASSUME NEW doc \in PlainDocuments,
             AttachSCP(doc) \/ DetachSCP(doc) \/ AttachRCP(doc) \/ DetachRCP(doc)
      PROVE  TypeOK'
    <2>1. PICK docs \in SUBSET Documents, away \in BOOLEAN :
              \/ Change([now EXCEPT !.scps = docs], away)
              \/ Change([now EXCEPT !.rcps = docs], away)
        BY <1>0, <1>3, ViewChange DEF AttachSCP, DetachSCP, AttachRCP, DetachRCP
    <2>2. PICK next : /\ next = [now EXCEPT !.scps = docs] \/ next = [now EXCEPT !.rcps = docs]
                      /\ Change(next, away)
        BY <2>1
    <2>3. next \in Views
        BY <1>0, <2>2, ViewChange
    <2>4. /\ next.caller = now.caller /\ next.session = now.session
          /\ next.attachedAgain = now.attachedAgain /\ next.inlineAgain = now.inlineAgain
          /\ next.attached = now.attached /\ next.inline = now.inline
          /\ next.boundary = now.boundary
        BY <1>0, <2>2 DEF Views
    <2>5. now.attachedAgain = now.attached /\ now.inlineAgain = now.inline
        BY DEF TypeOK
    <2> QED
        BY <2>2, <2>3, <2>4, <2>5, ChangeType
<1>4. ASSUME NEW doc \in ResourceDocuments, SetResourcePolicy(doc) PROVE TypeOK'
    <2>1. PICK next : next = [now EXCEPT !.policy = doc] /\ Change(next, TRUE)
        BY <1>4 DEF SetResourcePolicy
    <2>2. doc \in Documents
        BY <1>0
    <2>3. next \in Views
        BY <1>0, <2>1, <2>2, ViewChange
    <2>4. /\ next.caller = now.caller /\ next.session = now.session
          /\ next.attachedAgain = now.attachedAgain /\ next.inlineAgain = now.inlineAgain
          /\ next.attached = now.attached /\ next.inline = now.inline
          /\ next.boundary = now.boundary
        BY <1>0, <2>1 DEF Views
    <2>5. now.attachedAgain = now.attached /\ now.inlineAgain = now.inline
        BY DEF TypeOK
    <2> QED
        BY <2>1, <2>3, <2>4, <2>5, ChangeType
<1>5. ASSUME NEW gate \in CallerGates, Begin(gate) PROVE TypeOK'
    <2>1. Allows(gate, now) \in BOOLEAN
        <3>1. CASE gate = "control"
            BY <3>1 DEF Allows, EvaluateFull
        <3>2. CASE gate = "resource"
            BY <3>2 DEF Allows, authorizeDataplaneOR
        <3>3. CASE gate = "key"
            BY <3>3 DEF Allows, authorizeDataplaneKMS
        <3>4. CASE gate = "assumeRole"
            BY <3>4 DEF Allows, handleAssumeRole
        <3>5. CASE gate = "passRole"
            BY <3>5 DEF Allows, CheckPassRole
        <3> QED
            BY <3>1, <3>2, <3>3, <3>4, <3>5 DEF CallerGates
    <2>2. possible' \in BOOLEAN /\ revoked' \in BOOLEAN
        BY <1>5, <2>1 DEF Begin
    <2>3. request' \in [gate : CallerGates, read : 0..7, seen : Views]
        BY <1>0, <1>5 DEF Begin
    <2>4. UNCHANGED <<now, changes>> /\ request'.read <= Len(ReadOrder(request'.gate))
        BY <1>5, <2>3, ReadOrderFacts DEF Begin
    <2> QED
        BY <2>2, <2>3, <2>4 DEF TypeOK
<1>6. CASE ReadLayer \/ ReadUser
    <2>1. request'.seen \in Views
        <3>1. request.seen \in Views /\ request.read \in 0..6
            BY <1>6, ReadFacts
        <3>2. request.read \in {0, 1, 2, 3, 4, 5, 6}
            BY <3>1
        <3>3. CASE ReadLayer
            <4> DEFINE w == request.seen
            <4>0. w \in Views
                BY <3>1
            <4>1. /\ [w EXCEPT !.attached = now.attached] \in Views
                  /\ [w EXCEPT !.inline = now.inline] \in Views
                  /\ [w EXCEPT !.boundary = now.boundary] \in Views
                  /\ [w EXCEPT !.scps = now.scps] \in Views
                  /\ [w EXCEPT !.rcps = now.rcps] \in Views
                  /\ [w EXCEPT !.attachedAgain = now.attachedAgain] \in Views
                  /\ [w EXCEPT !.inlineAgain = now.inlineAgain] \in Views
                <5> HIDE DEF w
                <5> QED
                    BY <1>0, <4>0, LayerRead
            <4> QED
                BY <3>2, <3>3, <4>1, ReadLayerFacts
        <3>4. CASE ReadUser
            <4>1. /\ [request.seen EXCEPT !.attached = now.attached, !.inline = now.inline] \in Views
                  /\ [request.seen EXCEPT !.attachedAgain = now.attachedAgain,
                                          !.inlineAgain = now.inlineAgain] \in Views
                BY <1>0, <3>1, PairRead
            <4> QED
                BY <3>4, <4>1, ReadUserFacts
        <3> QED
            BY <1>6, <3>3, <3>4
    <2>2. /\ request'.gate = request.gate /\ request.gate \in CallerGates
          /\ request'.read \in 0..7 /\ request'.read <= Len(ReadOrder(request'.gate))
          /\ request' = [gate |-> request'.gate, read |-> request'.read, seen |-> request'.seen]
        <3>1. CASE ReadLayer
            BY <3>1, ReadFacts, ReadLayerFacts, ReadOrderFacts
        <3>2. CASE ReadUser
            BY <3>2, ReadFacts, ReadUserFacts, ReadOrderFacts
        <3> QED
            BY <1>6, <3>1, <3>2
    <2>3. UNCHANGED <<now, changes, possible, revoked>>
        BY <1>6, ReadFacts
    <2>4. request' \in [gate : CallerGates, read : 0..7, seen : Views]
        BY <2>1, <2>2
    <2> QED
        BY <2>2, <2>3, <2>4 DEF TypeOK
<1>7. CASE End
    BY <1>7 DEF End, TypeOK
<1>8. CASE UNCHANGED vars
    BY <1>8 DEF vars, TypeOK
<1>9. CASE DeletePermissionsBoundary /\ PlainDocuments = {}
    <2>1. Change([now EXCEPT !.boundary = NoDocument], TRUE) /\ [now EXCEPT !.boundary = NoDocument] \in Views
        BY <1>0, <1>9 DEF DeletePermissionsBoundary, Views
    <2>2. PICK next : next = [now EXCEPT !.boundary = NoDocument]
        OBVIOUS
    <2>3. /\ next.caller = now.caller /\ next.session = now.session
          /\ next.attachedAgain = next.attached /\ next.inlineAgain = next.inline
          /\ next.boundary = NoDocument
        BY <1>0, <2>2 DEF Views, TypeOK
    <2> QED
        BY <2>1, <2>2, <2>3, ChangeType DEF TypeOK
<1> QED
    BY <1>1, <1>2, <1>3, <1>4, <1>5, <1>6, <1>7, <1>8, <1>9, <1>10 DEF Next

\* Every view of the policies, and what a request has seen of them, is well
\* formed (evalInputs, handlers.go:613).
THEOREM TypeCorrect == Spec => []TypeOK
<1> QED
    BY InitType, TypeStep, PTL DEF Spec

-----------------------------------------------------------------------------
(* What the evaluators say of single documents.                            *)

\* Documents refuse exactly when one of them does.
LEMMA RefusesDocs ==
    ASSUME NEW docs, NEW c, NEW mode
    PROVE  Refuses(docs, c, mode) <=> \E doc \in docs : Refused(doc, c, mode)
    BY DEF Refuses, Unknown, Hits, Refused

\* A layer that permits consents and does not refuse.
LEMMA PermitsDocs ==
    ASSUME NEW docs, NEW c, NEW mode, Permits(docs, c, mode)
    PROVE  AnyConsents(docs, c, mode) /\ \A doc \in docs : ~Refused(doc, c, mode)
    BY RefusesDocs DEF Permits, Hits, AnyConsents, Consents

\* Organization filters that pass consent one by one (orgFilterAllows).
LEMMA OrgDocs ==
    ASSUME NEW v, ~OrgFiltersDeny(v), NEW doc \in v.rcps \cup SCPs(v)
    PROVE  Consents(doc, v.caller, "identity") /\ ~Refused(doc, v.caller, "identity")
<1>1. evaluatePolicies(v.caller, {doc})
    BY DEF OrgFiltersDeny, orgFilterAllows
<1> QED
    BY <1>1, PermitsDocs DEF evaluatePolicies, AnyConsents

\* Root has no boundary.
LEMMA BoundaryNotRoot == ASSUME NEW v, Boundary(v) # {} PROVE v.caller # "root"
    BY DEF Boundary

-----------------------------------------------------------------------------
(* An explicit Deny wins.                                                  *)

\* EvaluateFull scans every layer for refusals first (denyScanFull).
LEMMA FullHeeds ==
    ASSUME NEW v, EvaluateFull(v),
           NEW doc \in Identity(v) \cup v.session \cup Boundary(v) \cup SCPs(v) \cup v.rcps
    PROVE  ~Refused(doc, v.caller, "identity")
    BY RefusesDocs DEF EvaluateFull, denyScanFull

\* authorizeDataplaneOR: each layer is scanned, root's identity excepted.
LEMMA ResourceHeeds ==
    ASSUME NEW v, authorizeDataplaneOR(v)
    PROVE  /\ \A doc \in Consulted("resource", v) : ~Refused(doc, v.caller, "identity")
           /\ \A doc \in AsSet(v.policy) : ~Refused(doc, v.caller, "delegated")
<1>1. ~OrgFiltersDeny(v) /\ EvaluateResourceAccess(v) /\ ~Refuses(Boundary(v) \cup v.session, v.caller, "identity")
    BY DEF authorizeDataplaneOR
<1>2. \A doc \in v.rcps \cup SCPs(v) : ~Refused(doc, v.caller, "identity")
    BY <1>1, OrgDocs
<1>3. ~ResourceRefuses(v)
    BY <1>1 DEF EvaluateResourceAccess
<1>4. /\ v.caller # "root" => \A doc \in Identity(v) : ~Refused(doc, v.caller, "identity")
      /\ \A doc \in AsSet(v.policy) : ~Refused(doc, v.caller, "delegated")
    BY <1>3, RefusesDocs DEF ResourceRefuses
<1>5. \A doc \in Boundary(v) \cup v.session : ~Refused(doc, v.caller, "identity")
    BY <1>1, RefusesDocs
<1> QED
    BY <1>2, <1>4, <1>5 DEF Consulted

\* authorizeDataplaneKMS: the key's policy and the identity, then each layer.
LEMMA KeyHeeds ==
    ASSUME NEW v, authorizeDataplaneKMS(v)
    PROVE  /\ \A doc \in Consulted("key", v) : ~Refused(doc, v.caller, "identity")
           /\ \A doc \in AsSet(v.policy) : ~Refused(doc, v.caller, "delegated")
<1>1. /\ ~OrgFiltersDeny(v) /\ EvaluateKMS(v)
      /\ Boundary(v) # {} => Evaluate(v.caller, Boundary(v))
      /\ v.session # {} => Evaluate(v.caller, v.session)
    BY DEF authorizeDataplaneKMS
<1>2. \A doc \in v.rcps \cup SCPs(v) : ~Refused(doc, v.caller, "identity")
    BY <1>1, OrgDocs
<1>3. /\ \A doc \in Identity(v) : ~Refused(doc, v.caller, "identity")
      /\ \A doc \in AsSet(v.policy) : ~Refused(doc, v.caller, "delegated")
    BY <1>1, RefusesDocs, PermitsDocs DEF EvaluateKMS
<1>4. \A doc \in Boundary(v) : ~Refused(doc, v.caller, "identity")
    <2>1. Boundary(v) # {} => Permits(Boundary(v), v.caller, "identity")
        BY <1>1, BoundaryNotRoot DEF Evaluate, evaluatePolicies
    <2> QED
        BY <2>1, PermitsDocs
<1>5. v.caller # "root" => \A doc \in v.session : ~Refused(doc, v.caller, "identity")
    <2>1. v.caller # "root" /\ v.session # {} => Permits(v.session, v.caller, "identity")
        BY <1>1 DEF Evaluate, evaluatePolicies
    <2> QED
        BY <2>1, PermitsDocs
<1> QED
    BY <1>2, <1>3, <1>4, <1>5 DEF Consulted

\* The role's trust is permitted before the role is assumed.
LEMMA TrustHeeds ==
    ASSUME NEW v, handleAssumeRole(v)
    PROVE  /\ EvaluateFull(v)
           /\ Permits(AsSet(v.policy), v.caller, "delegated")
    BY DEF handleAssumeRole, EvaluateCrossAccount

\* A service's trust is matched without regard to the caller.
LEMMA ServiceMode ==
    ASSUME NEW docs, NEW c, NEW d, NEW effect
    PROVE  Hits(docs, c, "service", effect) <=> Hits(docs, d, "service", effect)
<1>1. \A st : Matches(st, c, "service") <=> Matches(st, d, "service")
    BY DEF Matches
<1> QED
    BY <1>1 DEF Hits

\* No gate of a caller allows against a document that it must heed.
LEMMA DenyState == ExplicitDenyWins
<1> SUFFICES ASSUME NEW gate \in CallerGates, Allows(gate, now)
             PROVE  /\ \A doc \in Consulted(gate, now) : ~Refused(doc, now.caller, "identity")
                    /\ gate \in {"resource", "key", "assumeRole"} =>
                         \A doc \in AsSet(now.policy) : ~Refused(doc, now.caller, "delegated")
                    /\ gate = "passRole" => ~Hits(AsSet(now.policy), now.caller, "service", "Deny")
    BY DEF ExplicitDenyWins
<1>1. CASE gate = "control"
    <2>1. EvaluateFull(now)
        BY <1>1 DEF Allows
    <2> QED
        BY <1>1, <2>1, FullHeeds DEF Consulted
<1>2. CASE gate = "resource"
    <2>1. authorizeDataplaneOR(now)
        BY <1>2 DEF Allows
    <2> QED
        BY <1>2, <2>1, ResourceHeeds
<1>3. CASE gate = "key"
    <2>1. authorizeDataplaneKMS(now)
        BY <1>3 DEF Allows
    <2> QED
        BY <1>3, <2>1, KeyHeeds
<1>4. CASE gate = "assumeRole"
    <2>1. EvaluateFull(now) /\ Permits(AsSet(now.policy), now.caller, "delegated")
        BY <1>4, TrustHeeds DEF Allows
    <2> QED
        BY <1>4, <2>1, FullHeeds, PermitsDocs DEF Consulted
<1>5. CASE gate = "passRole"
    <2>1. EvaluateFull(now) /\ TrustAllowsService(now.policy)
        BY <1>5 DEF Allows, CheckPassRole
    <2>2. ~Hits(AsSet(now.policy), now.caller, "service", "Deny")
        BY <2>1, ServiceMode DEF TrustAllowsService
    <2> QED
        BY <1>5, <2>1, <2>2, FullHeeds DEF Consulted
<1> QED
    BY <1>1, <1>2, <1>3, <1>4, <1>5 DEF CallerGates

\* An explicit Deny, or a condition outside the catalog, of a document that a
\* gate must heed is never overruled, for any documents (eval_full.go:29,
\* eval_resource_xa.go:35, eval_kms.go:28, handlers.go:707).
THEOREM DenyWins == Spec => []ExplicitDenyWins
<1> QED
    BY DenyState, PTL

-----------------------------------------------------------------------------
(* Every layer consents.                                                   *)

\* What EveryLayerConsents asks of one gate.
LayersConsent(gate, v) ==
    LET c == v.caller
        identity == c = "root" \/ AnyConsents(Identity(v), c, "identity")
        resource == gate = "resource" /\ ~v.foreign /\ AnyConsents(AsSet(v.policy), c, "direct")
    IN
    /\ \A doc \in v.rcps \cup SCPs(v) : Consents(doc, c, "identity")
    /\ \/ v.session = {}
       \/ AnyConsents(v.session, c, "identity")
       \/ c = "root" /\ gate \in {"resource", "key"}
    /\ \/ Boundary(v) = {}
       \/ AnyConsents(Boundary(v), c, "identity")
       \/ resource /\ ~Evaluate(c, Identity(v))
    /\ identity \/ resource \/ (gate = "key" /\ v.grant)
    /\ gate \in {"key", "assumeRole"} \/ (gate = "resource" /\ v.foreign) =>
         AnyConsents(AsSet(v.policy), c, "delegated")
    /\ gate = "passRole" => AnyConsents(AsSet(v.policy), c, "service")

\* The identity allows by a statement, or is root.
LEMMA EvaluateConsents ==
    ASSUME NEW c, NEW docs, Evaluate(c, docs)
    PROVE  c = "root" \/ AnyConsents(docs, c, "identity")
    BY PermitsDocs DEF Evaluate, evaluatePolicies

\* EvaluateFull asks every layer.
LEMMA FullConsents ==
    ASSUME NEW v, EvaluateFull(v)
    PROVE  /\ \A doc \in v.rcps \cup SCPs(v) : Consents(doc, v.caller, "identity")
           /\ v.session # {} => AnyConsents(v.session, v.caller, "identity")
           /\ Boundary(v) # {} => AnyConsents(Boundary(v), v.caller, "identity")
           /\ v.caller = "root" \/ AnyConsents(Identity(v), v.caller, "identity")
    BY OrgDocs, EvaluateConsents, PermitsDocs DEF EvaluateFull, evaluatePolicies

\* A resource's gate: the resource's grant replaces the identity's, and the
\* boundary's, in its own account only.
LEMMA ResourceConsents ==
    ASSUME NEW v, authorizeDataplaneOR(v) PROVE LayersConsent("resource", v)
<1>1. ~OrgFiltersDeny(v) /\ EvaluateResourceAccess(v)
    BY DEF authorizeDataplaneOR
<1>2. v.session # {} => Evaluate(v.caller, v.session)
    BY DEF authorizeDataplaneOR
<1>3. Evaluate(v.caller, Identity(v)) /\ Boundary(v) # {} => Evaluate(v.caller, Boundary(v))
    BY DEF authorizeDataplaneOR
<1>4. \A doc \in v.rcps \cup SCPs(v) : Consents(doc, v.caller, "identity")
    BY <1>1, OrgDocs
<1>5. v.session = {} \/ AnyConsents(v.session, v.caller, "identity") \/ v.caller = "root"
    BY <1>2, EvaluateConsents
<1>6. v.foreign =>
        /\ Evaluate(v.caller, Identity(v))
        /\ AnyConsents(AsSet(v.policy), v.caller, "delegated")
    BY <1>1 DEF EvaluateResourceAccess, Hits, AnyConsents, Consents
<1>7. Evaluate(v.caller, Identity(v)) \/ (~v.foreign /\ AnyConsents(AsSet(v.policy), v.caller, "direct"))
    BY <1>1 DEF EvaluateResourceAccess, Hits, AnyConsents, Consents
<1>8. Boundary(v) # {} /\ Evaluate(v.caller, Identity(v)) => AnyConsents(Boundary(v), v.caller, "identity")
    BY <1>3, EvaluateConsents, BoundaryNotRoot
<1> QED
    BY <1>4, <1>5, <1>6, <1>7, <1>8, EvaluateConsents DEF LayersConsent

\* A key's gate: the key's policy, and the identity unless a grant stands in.
LEMMA KeyConsents ==
    ASSUME NEW v, authorizeDataplaneKMS(v) PROVE LayersConsent("key", v)
<1>1. /\ ~OrgFiltersDeny(v) /\ EvaluateKMS(v)
      /\ Boundary(v) # {} => Evaluate(v.caller, Boundary(v))
      /\ v.session # {} => Evaluate(v.caller, v.session)
    BY DEF authorizeDataplaneKMS
<1>2. \A doc \in v.rcps \cup SCPs(v) : Consents(doc, v.caller, "identity")
    BY <1>1, OrgDocs
<1>3. v.session = {} \/ AnyConsents(v.session, v.caller, "identity") \/ v.caller = "root"
    BY <1>1, EvaluateConsents
<1>4. Boundary(v) # {} => AnyConsents(Boundary(v), v.caller, "identity")
    BY <1>1, EvaluateConsents, BoundaryNotRoot
<1>5. /\ AnyConsents(AsSet(v.policy), v.caller, "delegated")
      /\ v.grant \/ Evaluate(v.caller, Identity(v))
    BY <1>1, PermitsDocs DEF EvaluateKMS
<1> QED
    BY <1>2, <1>3, <1>4, <1>5, EvaluateConsents DEF LayersConsent

\* The layers consent to what any gate of a caller allows.
LEMMA ConsentState == EveryLayerConsents
<1> SUFFICES ASSUME NEW gate \in CallerGates, Allows(gate, now) PROVE LayersConsent(gate, now)
    BY DEF EveryLayerConsents, LayersConsent
<1>1. CASE gate = "control"
    BY <1>1, FullConsents DEF Allows, LayersConsent
<1>2. CASE gate = "resource"
    BY <1>2, ResourceConsents DEF Allows
<1>3. CASE gate = "key"
    BY <1>3, KeyConsents DEF Allows
<1>4. CASE gate = "assumeRole"
    <2>1. EvaluateFull(now) /\ Permits(AsSet(now.policy), now.caller, "delegated")
        BY <1>4, TrustHeeds DEF Allows
    <2> QED
        BY <1>4, <2>1, FullConsents, PermitsDocs DEF LayersConsent
<1>5. CASE gate = "passRole"
    <2>1. EvaluateFull(now) /\ TrustAllowsService(now.policy)
        BY <1>5 DEF Allows, CheckPassRole
    <2>2. AnyConsents(AsSet(now.policy), now.caller, "service")
        BY <2>1, ServiceMode DEF TrustAllowsService, Hits, AnyConsents, Consents
    <2> QED
        BY <1>5, <2>1, <2>2, FullConsents DEF LayersConsent
<1> QED
    BY <1>1, <1>2, <1>3, <1>4, <1>5 DEF CallerGates

\* Every layer agreed to what a gate allows, with the exceptions that the
\* property names (handlers.go:692-792).
THEOREM ConsentNeeded == Spec => []EveryLayerConsents
<1> QED
    BY ConsentState, PTL


-----------------------------------------------------------------------------
(* No grant is torn.                                                       *)

\* Views of one request on one resource.
SameRequest(u, v) ==
    /\ u.caller = v.caller /\ u.management = v.management /\ u.foreign = v.foreign
    /\ u.grant = v.grant /\ u.session = v.session /\ u.policy = v.policy

\* The first view binds the request no more than the second one does.
Looser(u, v) ==
    /\ u.boundary \in {NoDocument, v.boundary}
    /\ u.scps \subseteq v.scps
    /\ u.rcps \subseteq v.rcps

\* The identity of the first view has that of the second one, and beside it
\* documents that refuse nobody.
Wider(u, v) ==
    /\ v.attached \subseteq u.attached /\ u.inline = v.inline
    /\ \A doc \in u.attached \ v.attached : ~Restrictive(doc)

\* Documents that refuse nobody together do not refuse in part either.
LEMMA RefusesPart ==
    ASSUME NEW docs, NEW more, docs \subseteq more, NEW c, NEW mode, Refuses(docs, c, mode)
    PROVE  Refuses(more, c, mode)
    BY RefusesDocs

\* A looser view has fewer documents of the organization and the boundary.
LEMMA LooserLayers ==
    ASSUME NEW u \in Views, NEW v \in Views, SameRequest(u, v), Looser(u, v)
    PROVE  /\ ~OrgFiltersDeny(v) => ~OrgFiltersDeny(u)
           /\ SCPs(u) \subseteq SCPs(v)
           /\ Boundary(u) = {} \/ Boundary(u) = Boundary(v)
<1>1. SCPs(u) \subseteq SCPs(v)
    BY DEF SCPs, SameRequest, Looser
<1>2. Boundary(u) = {} \/ Boundary(u) = Boundary(v)
    BY DEF Boundary, AsSet, SameRequest, Looser
<1>3. ASSUME ~OrgFiltersDeny(v) PROVE ~OrgFiltersDeny(u)
    BY <1>1, <1>3 DEF OrgFiltersDeny, orgFilterAllows, SameRequest, Looser
<1> QED
    BY <1>1, <1>2, <1>3

\* A wider identity refuses what the other one refuses and permits as much.
LEMMA WiderIdentity ==
    ASSUME NEW u \in Views, NEW v \in Views, Wider(u, v), NEW c
    PROVE  /\ \A doc \in Identity(u) : Refused(doc, c, "identity") => doc \in Identity(v)
           /\ Refuses(Identity(u), c, "identity") => Refuses(Identity(v), c, "identity")
           /\ Evaluate(c, Identity(v)) => Evaluate(c, Identity(u))
<1>1. \A doc \in Identity(u) : Refused(doc, c, "identity") => doc \in Identity(v)
    BY DEF Identity, Wider, Refused, Restrictive
<1>2. Refuses(Identity(u), c, "identity") => Refuses(Identity(v), c, "identity")
    BY <1>1, RefusesDocs
<1>3. Hits(Identity(v), c, "identity", "Allow") => Hits(Identity(u), c, "identity", "Allow")
    BY DEF Identity, Wider, Hits
<1> QED
    BY <1>1, <1>2, <1>3 DEF Evaluate, evaluatePolicies, Permits

\* EvaluateFull of a looser view with a wider identity.
LEMMA FullLooser ==
    ASSUME NEW u \in Views, NEW v \in Views, SameRequest(u, v), Looser(u, v), Wider(u, v),
           EvaluateFull(v)
    PROVE  EvaluateFull(u)
<1>1. /\ ~denyScanFull(v) /\ ~OrgFiltersDeny(v) /\ Evaluate(v.caller, Identity(v))
      /\ Boundary(v) # {} => evaluatePolicies(v.caller, Boundary(v))
      /\ v.session # {} => evaluatePolicies(v.caller, v.session)
    BY DEF EvaluateFull
<1>2. u.caller = v.caller /\ u.session = v.session
    BY DEF SameRequest
<1>3. ~denyScanFull(u)
    <2>1. \A doc \in Identity(v) \cup v.session \cup v.rcps \cup SCPs(v) \cup Boundary(v) :
              ~Refused(doc, v.caller, "identity")
        BY <1>1, RefusesDocs DEF denyScanFull
    <2>2. u.session \cup u.rcps \cup SCPs(u) \cup Boundary(u)
             \subseteq v.session \cup v.rcps \cup SCPs(v) \cup Boundary(v)
        BY <1>2, LooserLayers DEF Looser
    <2>3. \A doc \in Identity(u) \cup u.session \cup u.rcps \cup SCPs(u) \cup Boundary(u) :
              ~Refused(doc, u.caller, "identity")
        BY <1>2, <2>1, <2>2, WiderIdentity
    <2> QED
        BY <2>3, RefusesDocs DEF denyScanFull
<1>4. ~OrgFiltersDeny(u) /\ (Boundary(u) = {} \/ Boundary(u) = Boundary(v))
    BY <1>1, LooserLayers
<1>5. Evaluate(u.caller, Identity(u))
    BY <1>1, <1>2, WiderIdentity
<1> QED
    BY <1>1, <1>2, <1>3, <1>4, <1>5 DEF EvaluateFull

\* What a gate allows it also allows in a looser view with a wider identity,
\* unless the resource alone granted it: then the identity's grant would bring
\* the boundary into play.
LEMMA Monotone ==
    ASSUME NEW u \in Views, NEW v \in Views, SameRequest(u, v), Looser(u, v), Wider(u, v),
           u.attachedAgain = u.attached, u.inlineAgain = u.inline,
           NEW gate \in CallerGates, Allows(gate, v),
           gate = "resource" => Evaluate(v.caller, Identity(v)) \/ Identity(u) = Identity(v)
    PROVE  Allows(gate, u)
<1>1. /\ u.caller = v.caller /\ u.session = v.session /\ u.policy = v.policy
      /\ u.foreign = v.foreign /\ u.grant = v.grant
    BY DEF SameRequest
<1>2. /\ ~OrgFiltersDeny(v) => ~OrgFiltersDeny(u)
      /\ Boundary(u) = {} \/ Boundary(u) = Boundary(v)
    BY LooserLayers
<1>3. /\ Refuses(Identity(u), u.caller, "identity") => Refuses(Identity(v), v.caller, "identity")
      /\ Evaluate(v.caller, Identity(v)) => Evaluate(u.caller, Identity(u))
    BY <1>1, WiderIdentity
<1>4. CASE gate = "control"
    BY <1>4, FullLooser DEF Allows
<1>5. CASE gate = "resource"
    <2>1. authorizeDataplaneOR(v)
        BY <1>5 DEF Allows
    <2>2. EvaluateResourceAccess(u)
        <3>1. EvaluateResourceAccess(v) /\ ~ResourceRefuses(v)
            BY <2>1 DEF authorizeDataplaneOR, EvaluateResourceAccess
        <3>2. ~ResourceRefuses(u)
            BY <1>1, <1>3, <3>1 DEF ResourceRefuses
        <3> QED
            BY <1>1, <1>3, <3>1, <3>2 DEF EvaluateResourceAccess
    <2>3. ~Refuses(Boundary(u) \cup u.session, u.caller, "identity")
        <3>1. ~Refuses(Boundary(v) \cup v.session, v.caller, "identity")
            BY <2>1 DEF authorizeDataplaneOR
        <3>2. Boundary(u) \cup u.session \subseteq Boundary(v) \cup v.session
            BY <1>1, <1>2
        <3> QED
            BY <1>1, <3>1, <3>2, RefusesPart
    <2>4. /\ u.session # {} => Evaluate(u.caller, u.session)
          /\ Evaluate(u.caller, Identity(u)) /\ Boundary(u) # {} => Evaluate(u.caller, Boundary(u))
        BY <1>1, <1>2, <1>5, <2>1 DEF authorizeDataplaneOR
    <2>5. ~OrgFiltersDeny(u)
        BY <1>2, <2>1 DEF authorizeDataplaneOR
    <2> QED
        BY <1>5, <2>2, <2>3, <2>4, <2>5 DEF Allows, authorizeDataplaneOR
<1>6. CASE gate = "key"
    <2>1. authorizeDataplaneKMS(v)
        BY <1>6 DEF Allows
    <2>2. EvaluateKMS(u)
        <3>1. EvaluateKMS(v)
            BY <2>1 DEF authorizeDataplaneKMS
        <3> QED
            BY <1>1, <1>3, <3>1 DEF EvaluateKMS
    <2>3. /\ u.session # {} => Evaluate(u.caller, u.session)
          /\ Boundary(u) # {} => Evaluate(u.caller, Boundary(u))
          /\ ~OrgFiltersDeny(u)
        BY <1>1, <1>2, <2>1 DEF authorizeDataplaneKMS
    <2> QED
        BY <1>6, <2>2, <2>3 DEF Allows, authorizeDataplaneKMS
<1>7. CASE gate = "assumeRole"
    <2>1. EvaluateFull(v) /\ Permits(AsSet(v.policy), v.caller, "delegated")
        BY <1>7, TrustHeeds DEF Allows
    <2>2. EvaluateFull(u)
        BY <2>1, FullLooser
    <2>3. u.caller # "federated"
        <3>1. Evaluate(v.caller, callerDocs(v))
            BY <1>7 DEF Allows, handleAssumeRole, EvaluateCrossAccount
        <3>2. v.caller = "federated" => ~Evaluate(v.caller, callerDocs(v))
            BY DEF callerDocs, Evaluate, evaluatePolicies, Permits, Hits
        <3> QED
            BY <1>1, <3>1, <3>2
    <2>4. Evaluate(u.caller, callerDocs(u))
        BY <2>2, <2>3 DEF EvaluateFull, callerDocs, Identity
    <2> QED
        BY <1>1, <1>7, <2>1, <2>2, <2>4 DEF Allows, handleAssumeRole, EvaluateCrossAccount
<1>8. CASE gate = "passRole"
    <2>1. EvaluateFull(v) /\ TrustAllowsService(v.policy)
        BY <1>8 DEF Allows, CheckPassRole
    <2>2. EvaluateFull(u)
        BY <2>1, FullLooser
    <2> QED
        BY <1>1, <1>8, <2>1, <2>2 DEF Allows, CheckPassRole
<1> QED
    BY <1>4, <1>5, <1>6, <1>7, <1>8 DEF CallerGates

\* What the resource alone grants it also grants in a looser view with a part
\* of the identity.
LEMMA MonotoneAlone ==
    ASSUME NEW w \in Views, NEW v \in Views, SameRequest(w, v), Looser(w, v),
           Identity(w) \subseteq Identity(v),
           Allows("resource", v), ~Evaluate(v.caller, Identity(v))
    PROVE  Allows("resource", w)
<1>1. /\ w.caller = v.caller /\ w.session = v.session /\ w.policy = v.policy
      /\ w.foreign = v.foreign
    BY DEF SameRequest
<1>2. authorizeDataplaneOR(v)
    BY DEF Allows
<1>3. EvaluateResourceAccess(v) /\ ~ResourceRefuses(v) /\ v.caller # "root"
    BY <1>2 DEF authorizeDataplaneOR, EvaluateResourceAccess, Evaluate
<1>4. ~Refuses(Identity(v), v.caller, "identity")
    BY <1>3 DEF ResourceRefuses
<1>5. ~ResourceRefuses(w)
    BY <1>1, <1>3, <1>4, RefusesPart DEF ResourceRefuses
<1>6. EvaluateResourceAccess(w)
    BY <1>1, <1>3, <1>5 DEF EvaluateResourceAccess
<1>7. ~Evaluate(w.caller, Identity(w))
    <2>1. ~Hits(Identity(v), v.caller, "identity", "Allow")
        BY <1>3, <1>4 DEF Evaluate, evaluatePolicies, Permits
    <2>2. ~Hits(Identity(w), w.caller, "identity", "Allow")
        BY <1>1, <2>1 DEF Hits
    <2> QED
        BY <1>1, <1>3, <2>2 DEF Evaluate, evaluatePolicies, Permits
<1>8. /\ ~OrgFiltersDeny(w)
      /\ w.session # {} => Evaluate(w.caller, w.session)
      /\ ~Refuses(Boundary(w) \cup w.session, w.caller, "identity")
    <2>1. /\ ~OrgFiltersDeny(v) /\ ~Refuses(Boundary(v) \cup v.session, v.caller, "identity")
          /\ v.session # {} => Evaluate(v.caller, v.session)
        BY <1>2 DEF authorizeDataplaneOR
    <2>2. ~OrgFiltersDeny(w) /\ Boundary(w) \cup w.session \subseteq Boundary(v) \cup v.session
        BY <1>1, <2>1, LooserLayers
    <2> QED
        BY <1>1, <2>1, <2>2, RefusesPart
<1> QED
    BY <1>6, <1>7, <1>8 DEF Allows, authorizeDataplaneOR

\* A moment since the request began: the gate allowed there only if the
\* history says so, and what is there now, or was read after it, binds at
\* least as much.
Moment(u) ==
    LET v == request.seen IN
    /\ Allows(request.gate, u) => possible
    /\ SameRequest(u, v) /\ u.attachedAgain = u.attached /\ u.inlineAgain = u.inline
    /\ Looser(u, now)
    /\ request.read >= 3 => u.boundary \in {NoDocument, v.boundary}
    /\ request.read >= 4 => u.scps \subseteq v.scps
    /\ request.read >= 5 => u.rcps \subseteq v.rcps

\* The moment at which the attached documents were read.
First(u) ==
    /\ Moment(u)
    /\ u.attached = request.seen.attached
    /\ u.inline \subseteq (IF request.read = 1 THEN now.inline ELSE request.seen.inline)

\* The moment at which the inline ones were read.
Second(u) == Moment(u) /\ Wider(u, request.seen)

\* Between the two no restriction was attached to a role or to root.
Between ==
    /\ request.seen.attached \subseteq now.attached
    /\ \A doc \in now.attached \ request.seen.attached : ~Restrictive(doc)

\* The strengthening of NoTornGrant.
TornInv ==
    request # Idle =>
      /\ SameRequest(now, request.seen) \/ revoked
      /\ Allows(request.gate, now) => possible
      /\ request.read = 1 => ~OneQuery(now.caller)
      /\ ~revoked /\ request.read = 1 => Between
      /\ ~revoked /\ request.read >= 1 => \E u \in Views : First(u)
      /\ ~revoked /\ request.read >= 2 => \E u \in Views : Second(u)

\* Looser views only get looser when documents are added.
LEMMA LooserGrows ==
    ASSUME NEW u \in Views, NEW v \in Views, NEW w \in Views, Looser(u, v), Looser(v, w)
    PROVE  Looser(u, w)
    BY DEF Looser

\* What a change that takes nothing away leaves of the policies.
Grows(next) ==
    /\ SameRequest(next, now) /\ Looser(now, next)
    /\ now.attached \subseteq next.attached /\ now.inline \subseteq next.inline
    /\ OneQuery(now.caller) \/ \A doc \in next.attached \ now.attached : ~Restrictive(doc)

\* Such a change keeps the moments.
LEMMA ChangeTorn ==
    ASSUME TypeOK, TornInv, NEW next \in Views, NEW away \in BOOLEAN, Change(next, away),
           next.caller = now.caller, ~away => Grows(next)
    PROVE  TornInv'
<1>1. /\ now' = next /\ UNCHANGED request
      /\ possible' = (possible \/ (request # Idle /\ Allows(request.gate, next)))
      /\ revoked' = (revoked \/ (request # Idle /\ away))
    BY DEF Change
<1>2. SUFFICES ASSUME request # Idle PROVE TornInv'
    BY <1>1 DEF TornInv
<1>3. Allows(request.gate, next) => possible'
    BY <1>1, <1>2
<1>4. request.read = 1 => ~OneQuery(next.caller)
    BY <1>2 DEF TornInv
<1>5. CASE revoked'
    BY <1>1, <1>2, <1>3, <1>4, <1>5 DEF TornInv
<1>6. CASE ~revoked'
    <2>1. ~revoked /\ ~away /\ Grows(next)
        BY <1>1, <1>2, <1>6
    <2>2. SameRequest(next, request.seen)
        BY <1>2, <2>1 DEF SameRequest, Grows, TornInv
    <2>3. ASSUME NEW u \in Views, Moment(u) PROVE Moment(u)'
        <3>1. Allows(request.gate, u) => possible'
            BY <1>1, <2>3 DEF Moment
        <3>2. Looser(u, next)
            BY <2>1, <2>3, LooserGrows DEF Moment, TypeOK, Grows
        <3> QED
            BY <1>1, <2>3, <3>1, <3>2 DEF Moment
    <2>4. ASSUME NEW u \in Views, First(u) PROVE First(u)'
        <3>1. Moment(u)'
            BY <2>3, <2>4 DEF First
        <3>2. u.inline \subseteq (IF request.read = 1 THEN next.inline ELSE request.seen.inline)
            BY <2>1, <2>4 DEF First, Grows
        <3> QED
            BY <1>1, <2>4, <3>1, <3>2 DEF First
    <2>5. ASSUME NEW u \in Views, Second(u) PROVE Second(u)'
        BY <1>1, <2>3, <2>5 DEF Second
    <2>6. request.read = 1 => Between'
        <3> SUFFICES ASSUME request.read = 1 PROVE Between'
            OBVIOUS
        <3>1. Between /\ ~OneQuery(now.caller)
            BY <1>2, <2>1 DEF TornInv
        <3> QED
            BY <1>1, <2>1, <3>1 DEF Between, Grows
    <2>7. request.read >= 1 => \E u \in Views : First(u)'
        BY <1>2, <2>1, <2>4 DEF TornInv
    <2>8. request.read >= 2 => \E u \in Views : Second(u)'
        BY <1>2, <2>1, <2>5 DEF TornInv
    <2> QED
        BY <1>1, <1>3, <1>4, <2>2, <2>6, <2>7, <2>8 DEF TornInv
<1> QED
    BY <1>5, <1>6

\* Every change of policies keeps the strengthening.
LEMMA ChangesTorn ==
    ASSUME TypeOK, TornInv,
           \/ \E doc \in PlainDocuments :
                \/ AttachPolicy(doc) \/ DetachPolicy(doc)
                \/ PutInlinePolicy(doc) \/ DeleteInlinePolicy(doc)
                \/ PutPermissionsBoundary(doc)
                \/ AttachSCP(doc) \/ DetachSCP(doc) \/ AttachRCP(doc) \/ DetachRCP(doc)
           \/ \E old, doc \in PlainDocuments :
                ReplaceInlinePolicy(old, doc) \/ SetDefaultManagedPolicyVersion(old, doc)
           \/ DeletePermissionsBoundary
           \/ \E doc \in ResourceDocuments : SetResourcePolicy(doc)
    PROVE  TornInv'
<1>0. now \in Views /\ PlainDocuments \subseteq Documents /\ ResourceDocuments \subseteq Documents
    BY PolicyAssumption DEF TypeOK
<1>1. ASSUME NEW doc \in PlainDocuments, AttachPolicy(doc) \/ PutInlinePolicy(doc) PROVE TornInv'
    <2> DEFINE more == now.attached \cup {doc}
               moreInline == now.inline \cup {doc}
    <2>1. more \in SUBSET Documents /\ moreInline \in SUBSET Documents
        BY <1>0, ViewChange
    <2>2. CASE AttachPolicy(doc)
        <3>1. PICK next : next = WithAttached(more)
            OBVIOUS
        <3>2. PICK away : away = (~OneQuery(now.caller) /\ Restrictive(doc))
            OBVIOUS
        <3>3. away \in BOOLEAN /\ Change(next, away)
            BY <2>2, <3>1, <3>2 DEF AttachPolicy
        <3>4. next \in Views
            BY <1>0, <2>1, <3>1, ViewChange DEF WithAttached
        <3>5. /\ SameRequest(next, now) /\ Looser(now, next) /\ next.caller = now.caller
              /\ next.attached = more /\ next.inline = now.inline
            BY <1>0, <3>1 DEF WithAttached, Views, SameRequest, Looser
        <3>6. ~away => Grows(next)
            BY <3>2, <3>5 DEF Grows
        <3> QED
            BY <3>3, <3>4, <3>5, <3>6, ChangeTorn
    <2>3. CASE PutInlinePolicy(doc)
        <3>1. PICK next : next = WithInline(moreInline)
            OBVIOUS
        <3>2. Change(next, FALSE)
            BY <2>3, <3>1 DEF PutInlinePolicy
        <3>3. next \in Views
            BY <1>0, <2>1, <3>1, ViewChange DEF WithInline
        <3>4. /\ SameRequest(next, now) /\ Looser(now, next) /\ next.caller = now.caller
              /\ next.attached = now.attached /\ next.inline = moreInline
            BY <1>0, <3>1 DEF WithInline, Views, SameRequest, Looser
        <3>5. Grows(next)
            BY <3>4 DEF Grows
        <3> QED
            BY <3>2, <3>3, <3>4, <3>5, ChangeTorn
    <2> QED
        BY <1>1, <2>2, <2>3
<1>2. ASSUME NEW doc \in PlainDocuments, PutPermissionsBoundary(doc) PROVE TornInv'
    <2>1. PICK next : next = [now EXCEPT !.boundary = doc]
        OBVIOUS
    <2> DEFINE away == Present(now.boundary)
    <2>2. away \in BOOLEAN /\ Change(next, away)
        BY <1>2, <2>1 DEF PutPermissionsBoundary, Present
    <2>3. next \in Views /\ next.caller = now.caller
        BY <1>0, <2>1, ViewChange DEF Views
    <2>4. ~away => Grows(next)
        BY <1>0, <2>1 DEF Views, SameRequest, Looser, Present, Grows
    <2> QED
        BY <2>2, <2>3, <2>4, ChangeTorn
<1>3. ASSUME NEW doc \in PlainDocuments, AttachSCP(doc) \/ AttachRCP(doc) PROVE TornInv'
    <2>1. PICK next : /\ \/ next = [now EXCEPT !.scps = now.scps \cup {doc}]
                         \/ next = [now EXCEPT !.rcps = now.rcps \cup {doc}]
                      /\ Change(next, FALSE)
        BY <1>3 DEF AttachSCP, AttachRCP
    <2>2. /\ now.scps \cup {doc} \in SUBSET Documents
          /\ now.rcps \cup {doc} \in SUBSET Documents
        BY <1>0, ViewChange
    <2>3. next \in Views
        BY <1>0, <2>1, <2>2, ViewChange
    <2>4. next.caller = now.caller /\ Grows(next)
        BY <1>0, <2>1 DEF Views, SameRequest, Looser, Grows
    <2> QED
        BY <2>1, <2>3, <2>4, ChangeTorn
<1>4. ASSUME NEW next \in Views, next.caller = now.caller, Change(next, TRUE) PROVE TornInv'
    BY <1>4, ChangeTorn
<1>5. ASSUME NEW old \in PlainDocuments, NEW doc \in PlainDocuments,
             \/ DetachPolicy(doc) \/ DeleteInlinePolicy(doc)
             \/ ReplaceInlinePolicy(old, doc) \/ SetDefaultManagedPolicyVersion(old, doc)
      PROVE  TornInv'
    <2>0. PICK docs \in SUBSET Documents :
              Change(WithAttached(docs), TRUE) \/ Change(WithInline(docs), TRUE)
        BY <1>0, <1>5, ViewChange DEF DetachPolicy, DeleteInlinePolicy, ReplaceInlinePolicy,
           SetDefaultManagedPolicyVersion
    <2>1. PICK next \in {WithAttached(docs), WithInline(docs)} : Change(next, TRUE)
        BY <2>0
    <2>2. next \in Views
        BY <1>0, <2>1, IdentityChange
    <2>3. next.caller = now.caller
        BY <1>0, <2>1 DEF WithAttached, WithInline, Views
    <2> QED
        BY <1>4, <2>1, <2>2, <2>3
<1>6. ASSUME NEW doc \in PlainDocuments, DetachSCP(doc) \/ DetachRCP(doc) PROVE TornInv'
    <2>1. PICK next : /\ \/ next = [now EXCEPT !.scps = now.scps \ {doc}]
                         \/ next = [now EXCEPT !.rcps = now.rcps \ {doc}]
                      /\ Change(next, TRUE)
        BY <1>6 DEF DetachSCP, DetachRCP
    <2>2. /\ now.scps \ {doc} \in SUBSET Documents
          /\ now.rcps \ {doc} \in SUBSET Documents
        BY <1>0, ViewChange
    <2>3. next \in Views
        BY <1>0, <2>1, <2>2, ViewChange
    <2>4. next.caller = now.caller
        BY <1>0, <2>1 DEF Views
    <2> QED
        BY <1>4, <2>1, <2>3, <2>4
<1>7. CASE DeletePermissionsBoundary
    <2>1. PICK next : next = [now EXCEPT !.boundary = NoDocument]
        OBVIOUS
    <2>2. next \in Views /\ next.caller = now.caller
        BY <1>0, <2>1 DEF Views
    <2> QED
        BY <1>4, <1>7, <2>1, <2>2 DEF DeletePermissionsBoundary
<1>8. ASSUME NEW doc \in ResourceDocuments, SetResourcePolicy(doc) PROVE TornInv'
    <2>1. PICK next : next = [now EXCEPT !.policy = doc]
        OBVIOUS
    <2>2. next \in Views /\ next.caller = now.caller
        BY <1>0, <2>1, ViewChange DEF Views
    <2> QED
        BY <1>4, <1>8, <2>1, <2>2 DEF SetResourcePolicy
<1> QED
    BY <1>1, <1>2, <1>3, <1>5, <1>6, <1>7, <1>8

\* What a request has seen after it read more.
LEMMA ReadSeen ==
    ASSUME TypeOK, ReadLayer \/ ReadUser
    PROVE  LET v == request.seen
               w == request'.seen
           IN
           /\ request'.gate = request.gate /\ request.read \in 0..6
           /\ request'.read = request.read + (IF ReadUser THEN 2 ELSE 1)
           /\ ReadUser => OneQuery(now.caller) /\ request.read \in {0, 5}
           /\ ~ReadUser /\ request.read = 0 => ~OneQuery(now.caller)
           /\ SameRequest(w, v)
           /\ w.attached = IF request.read = 0 THEN now.attached ELSE v.attached
           /\ w.inline = IF request.read = 1 \/ (request.read = 0 /\ ReadUser)
                           THEN now.inline ELSE v.inline
           /\ w.boundary = IF request.read = 2 THEN now.boundary ELSE v.boundary
           /\ w.scps = IF request.read = 3 THEN now.scps ELSE v.scps
           /\ w.rcps = IF request.read = 4 THEN now.rcps ELSE v.rcps
<1>1. request.seen \in Views /\ request.read \in {0, 1, 2, 3, 4, 5, 6}
    BY ReadFacts
<1>2. CASE ReadUser
    <2>1. OneQuery(now.caller) /\ request.read \in {0, 5}
        BY <1>2 DEF ReadUser, Paired
    <2>2. request'.read = request.read + 2 /\ request'.gate = request.gate
        BY <1>2, ReadUserFacts
    <2>3. PICK v, w : v = request.seen /\ w = request'.seen
        OBVIOUS
    <2>4. /\ request.read = 0 => w = [v EXCEPT !.attached = now.attached, !.inline = now.inline]
          /\ request.read = 5 => w = [v EXCEPT !.attachedAgain = now.attachedAgain,
                                              !.inlineAgain = now.inlineAgain]
        BY <1>2, <2>3, ReadUserFacts
    <2>5. /\ SameRequest(w, v)
          /\ w.boundary = v.boundary /\ w.scps = v.scps /\ w.rcps = v.rcps
          /\ request.read = 0 => w.attached = now.attached /\ w.inline = now.inline
          /\ request.read = 5 => w.attached = v.attached /\ w.inline = v.inline
        BY <1>1, <2>1, <2>3, <2>4 DEF Views, SameRequest
    <2> QED
        BY <1>1, <1>2, <2>1, <2>2, <2>3, <2>5
<1>3. CASE ~ReadUser
    <2>1. ReadLayer /\ (request.read = 0 => ~OneQuery(now.caller))
        BY <1>3 DEF ReadLayer, Paired
    <2>2. request'.read = request.read + 1 /\ request'.gate = request.gate
        BY <2>1, ReadLayerFacts
    <2>3. CASE request.read \in {0, 1, 2}
        BY <1>1, <1>3, <2>1, <2>2, <2>3, ReadLayerFacts DEF Views, SameRequest
    <2>4. CASE request.read \in {3, 4}
        BY <1>1, <1>3, <2>1, <2>2, <2>4, ReadLayerFacts DEF Views, SameRequest
    <2>5. CASE request.read \in {5, 6}
        BY <1>1, <1>3, <2>1, <2>2, <2>5, ReadLayerFacts DEF Views, SameRequest
    <2> QED
        BY <1>1, <2>3, <2>4, <2>5
<1> QED
    BY <1>2, <1>3

\* What is read later is there now, and so binds at least as much as a moment.
LEMMA MomentKept ==
    ASSUME TypeOK, ReadLayer \/ ReadUser, request.read >= 1, NEW u \in Views, Moment(u)
    PROVE  Moment(u)'
<1>1. UNCHANGED <<now, possible>> /\ request'.gate = request.gate
    BY ReadFacts, ReadSeen
<1>2. SameRequest(u, request'.seen)
    BY ReadSeen DEF Moment, SameRequest
<1>3. /\ request'.read >= 3 => u.boundary \in {NoDocument, request'.seen.boundary}
      /\ request'.read >= 4 => u.scps \subseteq request'.seen.scps
      /\ request'.read >= 5 => u.rcps \subseteq request'.seen.rcps
    BY ReadSeen DEF Moment, Looser
<1> QED
    BY <1>1, <1>2, <1>3 DEF Moment

\* Reading keeps the strengthening: the identity's two reads are its moments.
LEMMA ReadTorn ==
    ASSUME TypeOK, TornInv, ReadLayer \/ ReadUser
    PROVE  TornInv'
<1>1. UNCHANGED <<now, possible, revoked>> /\ request # Idle /\ request'.gate = request.gate
    BY ReadFacts, ReadSeen
<1>2. Allows(request'.gate, now') => possible'
    BY <1>1 DEF TornInv
<1>3. request'.read = 1 => ~OneQuery(now.caller)
    BY <1>1, ReadSeen DEF TornInv
<1>4. CASE revoked'
    BY <1>1, <1>2, <1>4, ReadSeen DEF TornInv
<1>5. CASE ~revoked'
    <2>1. SameRequest(now, request.seen) /\ SameRequest(now, request'.seen)
        BY <1>1, <1>5, ReadSeen DEF TornInv, SameRequest
    <2>2. now \in Views /\ now.attachedAgain = now.attached /\ now.inlineAgain = now.inline
        BY DEF TypeOK
    <2>3. request.read \in {0, 1} => Moment(now)'
        <3>1. Looser(now, now)
            BY DEF Looser
        <3>2. request.read \in {0, 1} => request'.read < 3
            BY ReadSeen
        <3> QED
            BY <1>1, <1>2, <2>1, <2>2, <3>1, <3>2, ReadSeen DEF Moment
    <2>4. CASE request.read = 0
        <3>1. First(now)'
            BY <1>1, <2>3, <2>4, ReadSeen DEF First
        <3>2. request'.read = 1 => Between'
            BY <1>1, <2>4, ReadSeen DEF Between
        <3>3. request'.read >= 2 => Second(now)'
            BY <1>1, <2>3, <2>4, ReadSeen DEF Second, Wider
        <3> QED
            BY <1>1, <1>2, <2>1, <2>2, <2>4, <3>1, <3>2, <3>3, ReadSeen DEF TornInv
    <2>5. CASE request.read >= 1
        <3>1. PICK w \in Views : First(w)
            BY <1>1, <1>5, <2>5 DEF TornInv
        <3>2. First(w)'
            BY <1>1, <2>5, <3>1, MomentKept, ReadSeen DEF First
        <3>3. \E u \in Views : Second(u)'
            <4>1. CASE request.read = 1
                <5>1. Between
                    BY <1>1, <1>5, <4>1 DEF TornInv
                <5>2. Wider(now, request'.seen)
                    BY <4>1, <5>1, ReadSeen DEF Between, Wider
                <5> QED
                    BY <1>1, <2>2, <2>3, <4>1, <5>2 DEF Second
            <4>2. CASE request.read >= 2
                <5>1. PICK u \in Views : Second(u)
                    BY <1>1, <1>5, <4>2 DEF TornInv
                <5>2. Moment(u)'
                    BY <2>5, <5>1, MomentKept DEF Second
                <5>3. Wider(u, request'.seen)
                    BY <4>2, <5>1, ReadSeen DEF Second, Wider
                <5> QED
                    BY <5>2, <5>3 DEF Second
            <4> QED
                BY <2>5, <4>1, <4>2, ReadSeen
        <3>4. request'.read # 1
            BY <2>5, ReadSeen
        <3> QED
            BY <1>1, <1>2, <2>1, <3>2, <3>3, <3>4 DEF TornInv
    <2> QED
        BY <2>4, <2>5, ReadSeen
<1> QED
    BY <1>4, <1>5

\* Every step keeps the strengthening.
LEMMA TornStep == ASSUME TypeOK, TornInv, [Next]_vars PROVE TornInv'
<1>1. ASSUME NEW gate \in CallerGates, Begin(gate) PROVE TornInv'
    <2>1. /\ request' = [gate |-> gate, read |-> 0, seen |-> now]
          /\ possible' = Allows(gate, now) /\ now' = now
        BY <1>1 DEF Begin
    <2>2. SameRequest(now, now)
        BY DEF SameRequest
    <2>3. request'.gate = gate /\ request'.read = 0 /\ request'.seen = now
        BY <2>1
    <2> QED
        BY <2>1, <2>2, <2>3 DEF TornInv
<1>2. CASE End
    BY <1>2 DEF End, TornInv
<1>3. CASE UNCHANGED vars
    BY <1>3 DEF vars, TornInv, First, Second, Between, Moment
<1> QED
    BY <1>1, <1>2, <1>3, ChangesTorn, ReadTorn DEF Next

\* The strengthening gives the property once everything is read.
LEMMA TornImplies == ASSUME TypeOK, TornInv PROVE NoTornGrant
<1> SUFFICES ASSUME Decided, ~revoked, Allows(request.gate, request.seen) PROVE possible
    BY DEF NoTornGrant
<1>1. /\ request # Idle /\ request.gate \in CallerGates /\ request.seen \in Views
      /\ request.read \in {5, 7}
    <2>1. request # Idle /\ request \in [gate : CallerGates, read : 0..7, seen : Views]
        BY DEF Decided, TypeOK
    <2> QED
        BY <2>1, ReadOrderFacts DEF Decided
<1>2. PICK u \in Views : Second(u)
    BY <1>1 DEF TornInv
<1>3. PICK w \in Views : First(w)
    BY <1>1 DEF TornInv
<1>4. \A m \in {u, w} : Looser(m, request.seen) /\ SameRequest(m, request.seen)
    BY <1>1, <1>2, <1>3 DEF First, Second, Moment, Looser
<1>5. CASE request.gate = "resource" /\ ~Evaluate(request.seen.caller, Identity(request.seen))
    <2>1. Identity(w) \subseteq Identity(request.seen)
        BY <1>1, <1>3 DEF First, Identity
    <2>2. Allows(request.gate, w)
        BY <1>1, <1>4, <1>5, <2>1, MonotoneAlone
    <2> QED
        BY <1>3, <2>2 DEF First, Moment
<1>6. CASE ~(request.gate = "resource" /\ ~Evaluate(request.seen.caller, Identity(request.seen)))
    <2>1. u.attachedAgain = u.attached /\ u.inlineAgain = u.inline /\ Wider(u, request.seen)
        BY <1>2 DEF Second, Moment
    <2>2. Allows(request.gate, u)
        BY <1>1, <1>4, <1>6, <2>1, Monotone
    <2> QED
        BY <1>2, <2>2 DEF Second, Moment
<1> QED
    BY <1>5, <1>6

\* While policies are only added, and no restriction to a role, a request is
\* never allowed on a mixture of documents that would not have been allowed at
\* one moment, however many changes fall between its reads (evalInputs,
\* handlers.go:613-678).
THEOREM GrantsWhole == Spec => []NoTornGrant
<1>1. Init => TypeOK /\ TornInv
    <2>1. Init => request = Idle
        BY DEF Init
    <2> QED
        BY <2>1, InitType DEF TornInv
<1>2. TypeOK /\ TornInv /\ [Next]_vars => (TypeOK /\ TornInv)'
    BY TypeStep, TornStep
<1>3. TypeOK /\ TornInv => NoTornGrant
    BY TornImplies
<1> QED
    BY <1>1, <1>2, <1>3, PTL DEF Spec

-----------------------------------------------------------------------------
(* Documents that only deny.                                               *)

\* What the identity still allows with such a document it allows without it.
LEMMA EvaluateWithDeny ==
    ASSUME NEW c, NEW docs, NEW doc, \A st \in doc : st.effect = "Deny",
           Evaluate(c, docs \cup {doc})
    PROVE  Evaluate(c, docs)
<1>1. CASE c = "root"
    BY <1>1 DEF Evaluate
<1>2. CASE Permits(docs \cup {doc}, c, "identity")
    <2>1. Hits(docs, c, "identity", "Allow")
        BY <1>2 DEF Permits, Hits
    <2>2. ~Refuses(docs, c, "identity")
        BY <1>2, RefusesPart DEF Permits
    <2> QED
        BY <2>1, <2>2 DEF Evaluate, evaluatePolicies, Permits
<1> QED
    BY <1>1, <1>2 DEF Evaluate, evaluatePolicies

\* Such a document of the identity opens no gate of a caller.
LEMMA IdentityDeny ==
    ASSUME NEW u \in Views, NEW v \in Views, NEW doc, \A st \in doc : st.effect = "Deny",
           \/ v = [u EXCEPT !.attached = u.attached \cup {doc}]
           \/ v = [u EXCEPT !.inline = u.inline \cup {doc}],
           NEW gate \in CallerGates, Allows(gate, v)
    PROVE  Allows(gate, u)
<1>1. /\ u.caller = v.caller /\ u.session = v.session /\ u.policy = v.policy
      /\ u.foreign = v.foreign /\ u.grant = v.grant /\ u.boundary = v.boundary
      /\ u.scps = v.scps /\ u.rcps = v.rcps /\ u.management = v.management
      /\ callerDocs(u) = callerDocs(v) /\ Identity(v) = Identity(u) \cup {doc}
    <2>1. /\ u.caller = v.caller /\ u.session = v.session /\ u.policy = v.policy
          /\ u.foreign = v.foreign /\ u.grant = v.grant /\ u.boundary = v.boundary
          /\ u.scps = v.scps /\ u.rcps = v.rcps /\ u.management = v.management
        BY DEF Views
    <2>2. \/ v.attached = u.attached \cup {doc} /\ v.inline = u.inline
          \/ v.inline = u.inline \cup {doc} /\ v.attached = u.attached
        BY DEF Views
    <2>3. callerDocs(u) = callerDocs(v)
        <3>1. u.attachedAgain = v.attachedAgain /\ u.inlineAgain = v.inlineAgain
            BY DEF Views
        <3> QED
            BY <2>1, <3>1 DEF callerDocs
    <2>4. Identity(v) = Identity(u) \cup {doc}
        BY <2>2 DEF Identity
    <2> QED
        BY <2>1, <2>3, <2>4
<1>2. /\ SCPs(u) = SCPs(v) /\ Boundary(u) = Boundary(v)
      /\ OrgFiltersDeny(u) <=> OrgFiltersDeny(v)
    BY <1>1 DEF SCPs, Boundary, OrgFiltersDeny, orgFilterAllows
<1>3. /\ Evaluate(v.caller, Identity(v)) => Evaluate(u.caller, Identity(u))
      /\ Refuses(Identity(u), u.caller, "identity") => Refuses(Identity(v), v.caller, "identity")
    <2>1. Identity(u) \subseteq Identity(v)
        BY <1>1
    <2>2. Evaluate(v.caller, Identity(v)) => Evaluate(u.caller, Identity(u))
        BY <1>1, EvaluateWithDeny
    <2> QED
        BY <1>1, <2>1, <2>2, RefusesPart
<1>4. EvaluateFull(v) => EvaluateFull(u)
    <2>1. denyScanFull(u) => denyScanFull(v)
        <3>1. Identity(u) \cup u.session \cup u.rcps \cup SCPs(u) \cup Boundary(u)
                 \subseteq Identity(v) \cup v.session \cup v.rcps \cup SCPs(v) \cup Boundary(v)
            BY <1>1, <1>2
        <3> QED
            BY <1>1, <3>1, RefusesPart DEF denyScanFull
    <2> QED
        BY <1>1, <1>2, <1>3, <2>1 DEF EvaluateFull
<1>5. CASE gate = "control"
    BY <1>4, <1>5 DEF Allows
<1>6. CASE gate = "resource"
    <2>1. authorizeDataplaneOR(v)
        BY <1>6 DEF Allows
    <2>2. EvaluateResourceAccess(u)
        <3>1. EvaluateResourceAccess(v) /\ ~ResourceRefuses(v)
            BY <2>1 DEF authorizeDataplaneOR, EvaluateResourceAccess
        <3>2. ~ResourceRefuses(u)
            BY <1>1, <1>3, <3>1 DEF ResourceRefuses
        <3> QED
            BY <1>1, <1>3, <3>1, <3>2 DEF EvaluateResourceAccess
    <2>3. /\ ~OrgFiltersDeny(v) /\ ~Refuses(Boundary(v) \cup v.session, v.caller, "identity")
          /\ v.session # {} => Evaluate(v.caller, v.session)
          /\ Evaluate(v.caller, Identity(v)) /\ Boundary(v) # {} => Evaluate(v.caller, Boundary(v))
        BY <2>1 DEF authorizeDataplaneOR
    <2>4. Boundary(u) # {} /\ Evaluate(u.caller, Identity(u)) => Evaluate(u.caller, Boundary(u))
        <3> SUFFICES ASSUME Boundary(u) # {}, Evaluate(u.caller, Identity(u))
                     PROVE  Evaluate(u.caller, Boundary(u))
            OBVIOUS
        <3>1. u.caller # "root" /\ ~Refuses(Identity(v), v.caller, "identity")
            BY <1>1, <2>1, BoundaryNotRoot DEF authorizeDataplaneOR, EvaluateResourceAccess, ResourceRefuses
        <3>2. Hits(Identity(u), u.caller, "identity", "Allow")
            BY <3>1 DEF Evaluate, evaluatePolicies, Permits
        <3>3. Hits(Identity(v), v.caller, "identity", "Allow")
            BY <1>1, <3>2 DEF Hits
        <3>4. Evaluate(v.caller, Identity(v))
            BY <3>1, <3>3 DEF Evaluate, evaluatePolicies, Permits
        <3> QED
            BY <1>1, <1>2, <2>3, <3>4
    <2> QED
        BY <1>1, <1>2, <1>6, <2>2, <2>3, <2>4 DEF Allows, authorizeDataplaneOR
<1>7. CASE gate = "key"
    <2>1. authorizeDataplaneKMS(v)
        BY <1>7 DEF Allows
    <2>2. EvaluateKMS(u)
        <3>1. EvaluateKMS(v)
            BY <2>1 DEF authorizeDataplaneKMS
        <3> QED
            BY <1>1, <1>3, <3>1 DEF EvaluateKMS
    <2> QED
        BY <1>1, <1>2, <1>7, <2>1, <2>2 DEF Allows, authorizeDataplaneKMS
<1>8. CASE gate = "assumeRole"
    BY <1>1, <1>4, <1>8 DEF Allows, handleAssumeRole
<1>9. CASE gate = "passRole"
    BY <1>1, <1>4, <1>9 DEF Allows, CheckPassRole
<1> QED
    BY <1>5, <1>6, <1>7, <1>8, <1>9 DEF CallerGates

\* The gates without an identity do not look at the identity's or the
\* organization's documents.
LEMMA PolicyGatesApart ==
    ASSUME NEW u, NEW v, u.policy = v.policy, u.publicRead = v.publicRead,
           NEW gate \in PolicyGates, Allows(gate, v)
    PROVE  Allows(gate, u)
<1>1. CASE gate = "webIdentity"
    BY <1>1 DEF Allows, AssumeRoleWithProvider
<1>2. CASE gate = "anonymousGet"
    BY <1>2 DEF Allows, EvaluateAnonymousS3GetObject
<1>3. CASE gate = "delivery"
    BY <1>3 DEF Allows
<1> QED
    BY <1>1, <1>2, <1>3 DEF PolicyGates

\* In any state of the right types a document that only denies opens nothing.
LEMMA DenyGrantsNothing == ASSUME TypeOK PROVE DenyNeverGrants
<1> SUFFICES ASSUME NEW doc \in PlainDocuments, \A st \in doc : st.effect = "Deny",
                    NEW gate \in Gates, NEW layer \in {"attached", "inline", "scps", "rcps"},
                    Allows(gate, [now EXCEPT ![layer] = now[layer] \cup {doc}])
             PROVE  Allows(gate, now)
    BY DEF DenyNeverGrants
<1>1. PICK v : v = [now EXCEPT ![layer] = now[layer] \cup {doc}]
    OBVIOUS
<1>2. now \in Views /\ v \in Views /\ Allows(gate, v)
    <2>1. now \in Views /\ doc \in Documents
        BY PolicyAssumption DEF TypeOK
    <2>2. CASE layer = "attached"
        BY <1>1, <2>1, <2>2 DEF Views
    <2>5. CASE layer = "inline"
        BY <1>1, <2>1, <2>5 DEF Views
    <2>3. CASE layer = "scps"
        BY <1>1, <2>1, <2>3 DEF Views
    <2>4. CASE layer = "rcps"
        BY <1>1, <2>1, <2>4 DEF Views
    <2> QED
        BY <1>1, <2>1, <2>2, <2>3, <2>4, <2>5
<1>3. v.policy = now.policy /\ v.publicRead = now.publicRead
    BY <1>1, <1>2 DEF Views
<1>4. CASE gate \in PolicyGates
    BY <1>2, <1>3, <1>4, PolicyGatesApart
<1>5. CASE gate \in CallerGates /\ layer \in {"attached", "inline"}
    <2>1. \/ v = [now EXCEPT !.attached = now.attached \cup {doc}]
          \/ v = [now EXCEPT !.inline = now.inline \cup {doc}]
        BY <1>1, <1>5
    <2> QED
        BY <1>2, <1>5, <2>1, IdentityDeny
<1>6. CASE gate \in CallerGates /\ layer \in {"scps", "rcps"}
    <2>1. /\ SameRequest(now, v) /\ Looser(now, v) /\ Wider(now, v) /\ Identity(now) = Identity(v)
        BY <1>1, <1>2, <1>6 DEF Views, SameRequest, Looser, Wider, Identity
    <2>2. now.attachedAgain = now.attached /\ now.inlineAgain = now.inline
        BY DEF TypeOK
    <2> QED
        BY <1>2, <1>6, <2>1, <2>2, Monotone
<1> QED
    BY <1>4, <1>5, <1>6 DEF Gates

\* Attaching a document that only denies never opens a gate, for any documents
\* and any state of the policies (eval_resource_xa.go:35-72).
THEOREM DenyAddsNothing == Spec => []DenyNeverGrants
<1> QED
    BY TypeCorrect, DenyGrantsNothing, PTL


-----------------------------------------------------------------------------
(* Secrets Manager versions: SecretStages.                                 *)

\* A nonempty finite set of numbers has a smallest element: the first version of
\* a list is defined.
LEMMA SmallestExists ==
  ASSUME NEW S \in SUBSET Nat, IsFiniteSet(S), S # {}
  PROVE  \E n \in S : \A k \in S : n <= k
<1> DEFINE Below(n) == {k \in S : k < n}
           Tops == {Below(n) : n \in S}
<1>1. Tops \subseteq SUBSET S /\ Tops # {}
  OBVIOUS
<1>2. PICK T \in Tops : \A U \in Tops : <<U, T>> \notin StrictSubsetOrdering(S)
  <2> HIDE DEF Tops
  <2>1. Tops \subseteq FiniteSubsetsOf(S)
    BY <1>1, FS_FiniteSubsetsOfFinite
  <2> QED BY <1>1, <2>1, FS_StrictSubsetOrderingWellFounded, WFMin
<1>3. PICK n \in S : T = Below(n)
  BY <1>2
<1>4. ASSUME NEW k \in S, k < n PROVE FALSE
  <2>1. k \in Nat /\ n \in Nat /\ S \subseteq Nat
    OBVIOUS
  <2>2. \A j \in Nat : j < k => j < n
    BY <1>4, <2>1
  <2>3. k \in T
    BY <1>3, <1>4
  <2>4. k \notin Below(k)
    BY <2>1
  <2>5. Below(k) \subseteq T
    BY <1>3, <2>1, <2>2
  <2>6. <<Below(k), T>> \in StrictSubsetOrdering(S)
    BY <1>3, <2>3, <2>4, <2>5 DEF StrictSubsetOrdering
  <2> QED BY <1>2, <2>6
<1>5. \A k \in S : n <= k
  BY <1>4
<1> QED BY <1>5

-----------------------------------------------------------------------------
(* Where a request may stand.                                              *)

\* What a request has, by its arguments or from earlier steps, where it is at pc or
\* goes on to pc.
Fit(r, pc) ==
    /\ pc \in {"createSecret", "createVersion"} => r.op = "create"
    /\ pc = "putSecret" => r.op = "put"
    /\ pc \in {"putList", "putRecord", "putLabel", "putInsert"} => r.op \in {"put", "putStages"}
    /\ pc \in {"putSecret", "putList", "putRecord", "putLabel", "putInsert", "putParent"} => r.num # 0 /\ r.to # None
    /\ pc = "putList" => "AWSCURRENT" \in r.stages
    /\ pc = "putParent" => r.op = "putStages"
    /\ pc = "again" => r.op = "rotate" \/ (r.op = "putStages" /\ r.num # 0 /\ r.to # None)
    /\ pc = "orphanCheck" => r.op = "rotate"
    /\ pc \in {"pendingLoad", "pendingInsert", "pendingBump", "invoke"}
         => r.op \in {"putPending", "rotate"} /\ r.to # None
    /\ pc \in {"pendingInsert", "pendingBump", "invoke"} => r.num # 0
    /\ pc \in {"removeRead", "removeWrite"} => r.op \in {"rotate", "move"} /\ r.from # None
    /\ pc \in {"addRead", "addWrite", "previousList", "onlyPreviousList", "syncRead", "syncWrite"}
         => r.op \in {"rotate", "move"} /\ r.to # None
    /\ pc = "load" => r.op # "create"
    /\ pc = "addWrite" /\ r.label = "AWSCURRENT" => "AWSCURRENT" \in r.stages

\* Phases that go on to "then".
Passing == {"sweepVersions", "sweepSecret", "ensure", "ensureRead", "backfill", "label"}

\* What "then" may be.
Onward == {"load", "again", "putList", "putRecord", "orphanCheck", "pendingLoad", "removeRead", "addRead",
           "onlyPreviousList", "syncRead"}

Placed(r) ==
    /\ Fit(r, r.pc)
    /\ r.pc \in Passing => r.then \in Onward /\ Fit(r, r.then)
    /\ r.pc \in {"backfill", "syncWrite"} => r.row # None
    /\ r.op = "rotate" => r.to # None
    /\ r.op = "move" => r.to # None \/ r.from # None
    /\ r.op \in {"put", "putCurrent"} => r.stages = {"AWSCURRENT"}

Typed ==
    /\ secret \in Secret \cup {None}
    /\ versions \in [Ids -> Version \cup {None}]
    /\ requests \in [Clients -> {NoRequest} \cup Request]
    /\ \A c \in Clients : requests[c] = NoRequest \/ Placed(requests[c])
    /\ begun \in 0..MaxRequests
    /\ torn \in BOOLEAN
    /\ astray \in SUBSET Ids
    /\ settled \in [op : Ops, id : Ids, stages : SUBSET Labels] \cup {None}

Todos == UNION {[S -> SUBSET Labels] : S \in SUBSET Ids}

LEMMA EmptyTodo == << >> \in Todos /\ DOMAIN << >> = {}
<1>1. << >> \in Seq(SUBSET Labels) /\ Len(<< >>) = 0
  BY EmptySeq
<1>2. DOMAIN << >> = {}
  BY <1>1, LenProperties
<1>3. << >> \in [{} -> SUBSET Labels]
  BY <1>1, <1>2, LenProperties
<1>4. {} \in SUBSET Ids
  OBVIOUS
<1>5. [{} -> SUBSET Labels] \in {[S -> SUBSET Labels] : S \in SUBSET Ids}
  BY <1>4
<1> QED BY <1>2, <1>3, <1>5 DEF Todos

LEMMA TodoIs == ASSUME NEW t \in Todos PROVE t = << >> <=> DOMAIN t = {}
  BY EmptyTodo DEF Todos

\* A function on some ids with labels as values is a list of labels to write.
LEMMA TodoMade ==
    ASSUME NEW S \in SUBSET Ids, NEW t, t \in [S -> SUBSET Labels]
    PROVE  t \in Todos /\ DOMAIN t = S
  BY DEF Todos

\* What is left of a list after one of its rows.
LEMMA TodoRest ==
    ASSUME NEW todo \in Todos, NEW id \in DOMAIN todo
    PROVE  /\ id \in Ids /\ todo[id] \in SUBSET Labels
           /\ \E t \in Todos : /\ t = [i \in DOMAIN todo \ {id} |-> todo[i]]
                               /\ DOMAIN t = DOMAIN todo \ {id} /\ \A i \in DOMAIN t : t[i] = todo[i]
<1>1. PICK S \in SUBSET Ids : todo \in [S -> SUBSET Labels]
  BY DEF Todos
<1> DEFINE t == [i \in DOMAIN todo \ {id} |-> todo[i]]
<1>2. DOMAIN todo = S /\ S \ {id} \in SUBSET Ids
  BY <1>1
<1>3. t \in [S \ {id} -> SUBSET Labels]
  BY <1>1, <1>2
<1>4. t \in Todos /\ DOMAIN t = DOMAIN todo \ {id} /\ \A i \in DOMAIN t : t[i] = todo[i]
  <2>1. DOMAIN t = DOMAIN todo \ {id} /\ \A i \in DOMAIN t : t[i] = todo[i]
    OBVIOUS
  <2> HIDE DEF t
  <2>2. t \in Todos
    BY <1>2, <1>3, TodoMade
  <2> QED BY <2>1, <2>2
<1> QED BY <1>1, <1>2, <1>4

LEMMA RequestIs ==
    Request = [op : Ops, pc : Phases, then : Phases,
     to : Ids \cup {None}, from : Ids \cup {None}, label : Labels,
     num : 0..MaxVersion, row : Secret \cup {None}, stages : SUBSET Labels,
     todo : Todos, value : Nat, late : BOOLEAN, solo : BOOLEAN]
  BY DEF Request, Todos

\* A request that is at a phase is a request.
LEMMA RequestAt ==
    ASSUME Typed, NEW c \in Clients, requests[c].pc # "idle"
    PROVE  requests[c] \in Request /\ Placed(requests[c])
  BY DEF Typed, NoRequest

\* One request moves, and the rows keep their types.
LEMMA Moved ==
    ASSUME Typed, NEW c \in Clients, NEW q, q = NoRequest \/ (q \in Request /\ Placed(q)),
           requests' = [requests EXCEPT ![c] = q],
           secret' \in Secret \cup {None}, versions' \in [Ids -> Version \cup {None}],
           begun' = begun, torn' \in BOOLEAN, astray' \in SUBSET Ids,
           settled' \in [op : Ops, id : Ids, stages : SUBSET Labels] \cup {None}
    PROVE  Typed'
<1>1. \A d \in Clients : requests'[d] = IF d = c THEN q ELSE requests[d]
  BY DEF Typed
<1>2. requests' \in [Clients -> {NoRequest} \cup Request]
  BY DEF Typed
<1>3. \A d \in Clients : requests'[d] = NoRequest \/ Placed(requests'[d])
  BY <1>1 DEF Typed
<1>4. \A d \in Clients : requests'[d] = NoRequest \/ Placed(requests[d])'
  BY <1>3 DEF Placed, Fit
<1> QED BY <1>2, <1>4 DEF Typed

\* A request moves on, nothing else changes.
LEMMA Went ==
    ASSUME Typed, NEW c \in Clients, NEW q, Update(c, q),
           q = NoRequest \/ (q \in Request /\ Placed(q)),
           UNCHANGED <<secret, versions, begun, astray>>, torn' \in BOOLEAN
    PROVE  Typed'
  BY Moved DEF Update, Typed

\* Versions and the secret keep their types when rows are written.
LEMMA RowsTyped ==
    ASSUME Typed
    PROVE  /\ \A id \in Ids, num \in 1..MaxVersion, sealed \in Sealed, stages \in SUBSET Labels :
                [versions EXCEPT ![id] = NewVersion(num, sealed, stages)] \in [Ids -> Version \cup {None}]
           /\ \A id \in Ids, stages \in SUBSET Labels : versions[id] # None =>
                [versions EXCEPT ![id].stages = stages] \in [Ids -> Version \cup {None}]
           /\ [i \in Ids |-> None] \in [Ids -> Version \cup {None}]
<1>1. \A num \in 1..MaxVersion, sealed \in Sealed, stages \in SUBSET Labels : NewVersion(num, sealed, stages) \in Version
  BY DEF NewVersion, Version
<1>2. \A id \in Ids, stages \in SUBSET Labels : versions[id] # None =>
        [versions[id] EXCEPT !.stages = stages] \in Version
  BY DEF Version, Typed
<1>3. \A id \in Ids, stages \in SUBSET Labels :
        [versions EXCEPT ![id].stages = stages] = [versions EXCEPT ![id] = [versions[id] EXCEPT !.stages = stages]]
  OBVIOUS
<1> QED BY <1>1, <1>2, <1>3 DEF Typed

LEMMA TypedInit == SecretInit => Typed
<1> SUFFICES ASSUME SecretInit PROVE Typed
  OBVIOUS
<1>1. requests \in [Clients -> {NoRequest} \cup Request] /\ \A c \in Clients : requests[c] = NoRequest
  BY DEF SecretInit
<1>2. begun \in 0..MaxRequests
  BY BoundsAssumption DEF SecretInit
<1>3. versions \in [Ids -> Version \cup {None}]
  BY DEF SecretInit
<1> QED BY <1>1, <1>2, <1>3 DEF SecretInit, Typed

\* What a client asks for.
LEMMA Asked ==
    ASSUME NEW op \in Ops, NEW a \in Arguments(op)
    PROVE  /\ a.to \in Ids \cup {None} /\ a.from \in Ids \cup {None} /\ a.label \in Labels /\ a.stages \in SUBSET Labels
           /\ op = "rotate" => a.to # None
           /\ op \in {"put", "putCurrent"} => a.stages = {"AWSCURRENT"}
<1>1. Tokens \subseteq Ids /\ None \notin Tokens
  BY NoneAssumption DEF Ids
<1>2. a.to \in (CASE op = "rotate" -> Tokens
                  [] op \in {"putPending", "putStages"} -> Tokens \cup {None}
                  [] op = "move" -> Ids \cup {None}
                  [] OTHER -> {None})
  BY DEF Arguments
<1>3. a.from \in (IF op = "move" THEN Ids \cup {None} ELSE {None})
  BY DEF Arguments
<1>4. a.label \in (IF op = "move" THEN Labels ELSE {"AWSCURRENT"})
  BY DEF Arguments
<1>5. a.stages \in (CASE op \in {"put", "putCurrent"} -> {{"AWSCURRENT"}}
                      [] op = "putPending" -> {{"AWSPENDING"}}
                      [] op = "putStages" -> SUBSET Labels \ {{}}
                      [] OTHER -> {{}})
  BY DEF Arguments
<1>6. a.to \in Ids \cup {None} /\ (op = "rotate" => a.to # None)
  BY <1>1, <1>2
<1>7. a.from \in Ids \cup {None} /\ a.label \in Labels
  BY <1>3, <1>4 DEF Labels
<1>8. a.stages \in SUBSET Labels
  <2>1. {"AWSCURRENT"} \in SUBSET Labels /\ {"AWSPENDING"} \in SUBSET Labels /\ {} \in SUBSET Labels
    BY DEF Labels
  <2> QED BY <1>5, <2>1
<1>9. op \in {"put", "putCurrent"} => a.stages = {"AWSCURRENT"}
  BY <1>5
<1> QED BY <1>6, <1>7, <1>8, <1>9

\* A request as it begins is a request.
LEMMA NewRequestIs ==
    ASSUME Typed, NEW c \in Clients, NEW op \in Ops, NEW a \in Arguments(op)
    PROVE  /\ NewRequest(c, op, a) \in Request
           /\ NewRequest(c, op, a).op = op /\ NewRequest(c, op, a).then = "load"
           /\ NewRequest(c, op, a).to = a.to /\ NewRequest(c, op, a).from = a.from /\ NewRequest(c, op, a).stages = a.stages
           /\ DOMAIN NewRequest(c, op, a).todo = {}
           /\ NewRequest(c, op, a).pc \in {"createSecret", "sweepVersions", "ensure"}
           /\ NewRequest(c, op, a).pc = "createSecret" <=> op = "create"
           /\ NewRequest(c, op, a).solo <=> \A d \in Clients \ {c} : requests[d] = NoRequest
<1> DEFINE pc == IF op = "create" THEN "createSecret"
                 ELSE IF secret.deletion = "due" THEN "sweepVersions" ELSE "ensure"
           value == IF op \in Bringing THEN begun + 1 ELSE 0
           alone == \A d \in Clients \ {c} : requests[d] = NoRequest
           t == << >>
           q == [op |-> op, pc |-> pc, then |-> "load", to |-> a.to, from |-> a.from, label |-> a.label,
                 num |-> 0, row |-> None, stages |-> a.stages, todo |-> t, value |-> value, late |-> FALSE, solo |-> alone]
<1>1. NewRequest(c, op, a) = q
  BY DEF NewRequest
<1>2. value \in Nat /\ alone \in BOOLEAN /\ 0 \in 0..MaxVersion
  BY BoundsAssumption DEF Typed
<1>3. pc \in {"createSecret", "sweepVersions", "ensure"} /\ (pc = "createSecret" <=> op = "create")
  <2>1. CASE op = "create"
    BY <2>1
  <2>2. CASE op # "create" /\ secret.deletion = "due"
    BY <2>2
  <2>3. CASE op # "create" /\ secret.deletion # "due"
    BY <2>3
  <2> QED BY <2>1, <2>2, <2>3
<1>4. t \in Todos /\ DOMAIN t = {}
  BY EmptyTodo
<1> HIDE DEF value, alone, pc, t
<1>5. q \in Request
  BY <1>2, <1>3, <1>4, Asked, RequestIs DEF Phases
<1>6. /\ q.op = op /\ q.then = "load" /\ q.to = a.to /\ q.from = a.from /\ q.stages = a.stages /\ q.todo = t
      /\ q.pc = pc /\ q.solo = alone
  OBVIOUS
<1> HIDE DEF q
<1> QED BY <1>1, <1>3, <1>4, <1>5, <1>6 DEF alone

LEMMA TypedBegin ==
    ASSUME Typed, NEW c \in Clients, NEW op \in Ops, Arrive(c, op)
    PROVE  Typed'
<1>1. PICK a \in Arguments(op) :
         /\ op = "move" => a.to # None \/ a.from # None
         /\ requests' = [d \in Clients |->
              IF d = c THEN NewRequest(c, op, a)
              ELSE IF requests[d] = NoRequest THEN NoRequest ELSE [requests[d] EXCEPT !.solo = FALSE]]
  BY DEF Arrive
<1> DEFINE q == NewRequest(c, op, a)
<1>2. q \in Request
  BY NewRequestIs
<1>3. Placed(q)
  <2>1. /\ q.op = op /\ q.then = "load" /\ q.to = a.to /\ q.from = a.from /\ q.stages = a.stages
        /\ q.pc \in {"createSecret", "sweepVersions", "ensure"} /\ (q.pc = "createSecret" <=> op = "create")
    BY NewRequestIs
  <2>2. /\ op = "rotate" => a.to # None
        /\ op \in {"put", "putCurrent"} => a.stages = {"AWSCURRENT"}
    BY Asked
  <2> HIDE DEF q
  <2> QED BY <1>1, <2>1, <2>2 DEF Placed, Fit, Passing, Onward
<1>7. requests' = [d \in Clients |-> IF d = c THEN q ELSE IF requests[d] = NoRequest THEN NoRequest ELSE [requests[d] EXCEPT !.solo = FALSE]]
  BY <1>1
<1> HIDE DEF q
<1>8. ASSUME NEW d \in Clients, requests[d] # NoRequest
      PROVE  [requests[d] EXCEPT !.solo = FALSE] \in Request /\ Placed([requests[d] EXCEPT !.solo = FALSE])
  <2>1. requests[d] \in Request /\ Placed(requests[d])
    BY <1>8 DEF Typed
  <2>2. [requests[d] EXCEPT !.solo = FALSE] \in Request
    BY <2>1, RequestIs
  <2>3. Placed([requests[d] EXCEPT !.solo = FALSE])
    BY <2>1, RequestIs DEF Placed, Fit
  <2> QED BY <2>2, <2>3
<1>9. requests' \in [Clients -> {NoRequest} \cup Request]
  BY <1>2, <1>7, <1>8
<1>10. \A d \in Clients : requests'[d] = NoRequest \/ Placed(requests'[d])
  BY <1>3, <1>7, <1>8
<1>11. \A d \in Clients : requests'[d] = NoRequest \/ Placed(requests[d])'
  BY <1>10 DEF Placed, Fit
<1>12. begun' \in 0..MaxRequests /\ settled' = None /\ UNCHANGED <<secret, versions, torn, astray>>
  BY BoundsAssumption DEF Arrive, Typed
<1> QED BY <1>9, <1>11, <1>12 DEF Typed

-----------------------------------------------------------------------------
(* The statements keep the types.                                          *)

LEMMA TypedSweep ==
    ASSUME Typed, NEW c \in Clients,
           \/ SweepVersions(c) \/ SweepSecret(c) \/ DeleteVersions(c) \/ DeleteSecret(c)
           \/ DeleteSecretWithRecovery(c) \/ RestoreSecret(c)
    PROVE  Typed'
<1> DEFINE r == requests[c]
<1>1. r.pc \in {"sweepVersions", "sweepSecret", "forceDelete", "deleteSecret", "delete", "restore"}
  BY DEF SweepVersions, SweepSecret, DeleteVersions, DeleteSecret, DeleteSecretWithRecovery, RestoreSecret, At
<1>2. r \in Request /\ Placed(r)
  BY <1>1, RequestAt
<1>3. secret' \in Secret \cup {None} /\ torn' \in BOOLEAN /\ astray' \in SUBSET Ids
  <2>1. \A d \in {"waiting", "none"} : secret # None => [secret EXCEPT !.deletion = d] \in Secret
    BY DEF Typed, Secret
  <2> QED BY <2>1 DEF SweepVersions, SweepSecret, DeleteVersions, DeleteSecret, DeleteSecretWithRecovery, RestoreSecret, Typed
<1>4. versions' \in [Ids -> Version \cup {None}] /\ begun' = begun
  BY DEF SweepVersions, SweepSecret, DeleteVersions, DeleteSecret, DeleteSecretWithRecovery, RestoreSecret, Typed
<1>5. PICK q : Update(c, q) /\ (q = NoRequest \/ (q \in Request /\ Placed(q)))
  <2>1. ASSUME Goto(c, "sweepSecret") \/ Goto(c, "ensure") \/ Goto(c, "deleteSecret"), r.pc \in Passing \/ Goto(c, "deleteSecret")
        PROVE  \E q : Update(c, q) /\ q \in Request /\ Placed(q)
    <3>1. PICK pc \in {"sweepSecret", "ensure", "deleteSecret"} : Goto(c, pc)
      BY <2>1
    <3>2. r.pc \in Passing \/ pc = "deleteSecret" \/ Goto(c, "deleteSecret")
      BY <2>1, <3>1
    <3>3. CASE Goto(c, "deleteSecret")
      <4>1. [r EXCEPT !.pc = "deleteSecret"] \in Request
        BY <1>2, RequestIs DEF Phases
      <4>2. Placed([r EXCEPT !.pc = "deleteSecret"])
        BY <1>2, RequestIs DEF Placed, Fit, Passing
      <4> QED BY <3>3, <4>1, <4>2 DEF Goto
    <3>4. CASE r.pc \in Passing
      <4>1. [r EXCEPT !.pc = pc] \in Request
        BY <1>2, RequestIs DEF Phases
      <4>2. Placed([r EXCEPT !.pc = pc])
        BY <1>2, <3>4, RequestIs DEF Placed, Fit, Passing
      <4> QED BY <3>1, <4>1, <4>2 DEF Goto
    <3> QED BY <2>1, <3>3, <3>4
  <2>2. Return(c) => Update(c, NoRequest)
    BY DEF Return
  <2> QED BY <2>1, <2>2
        DEF SweepVersions, SweepSecret, DeleteVersions, DeleteSecret, DeleteSecretWithRecovery, RestoreSecret, At, Passing
<1> QED BY <1>3, <1>4, <1>5, Moved DEF Update

\* A request that goes to its next phase, or on from where it waited.
LEMMA GotoTyped ==
    ASSUME NEW r \in Request, Placed(r), NEW pc \in Phases, Fit(r, pc), pc \notin {"backfill", "syncWrite"},
           pc \in Passing => r.then \in Onward /\ Fit(r, r.then)
    PROVE  [r EXCEPT !.pc = pc] \in Request /\ Placed([r EXCEPT !.pc = pc])
<1>1. [r EXCEPT !.pc = pc] \in Request
  BY RequestIs
<1>2. Placed([r EXCEPT !.pc = pc])
  BY RequestIs DEF Placed, Fit
<1> QED BY <1>1, <1>2

LEMMA ViaTyped ==
    ASSUME NEW r \in Request, Placed(r), NEW then \in Onward, Fit(r, then)
    PROVE  Via(r, "ensure", then) \in Request /\ Placed(Via(r, "ensure", then))
<1>1. Via(r, "ensure", then) \in Request
  <2>1. "ensure" \in Phases /\ then \in Phases
    BY DEF Phases, Onward
  <2> QED BY <2>1, RequestIs DEF Via
<1>2. Placed(Via(r, "ensure", then))
  BY RequestIs DEF Via, Placed, Fit, Passing
<1> QED BY <1>1, <1>2

LEMMA LoopTyped ==
    ASSUME NEW r \in Request, Placed(r), NEW then \in Onward, Fit(r, then), NEW todo \in Todos
    PROVE  /\ Loop(r, todo, then) \in Request /\ Placed(Loop(r, todo, then))
           /\ Loop(r, todo, then).todo = todo /\ Loop(r, todo, then).then = then
           /\ Loop(r, todo, then).pc = IF DOMAIN todo = {} THEN then ELSE "label"
           /\ Loop(r, todo, then).op = r.op /\ Loop(r, todo, then).solo = r.solo
           /\ Loop(r, todo, then).to = r.to /\ Loop(r, todo, then).from = r.from
           /\ Loop(r, todo, then).stages = r.stages
<1> DEFINE pc == IF todo = << >> THEN then ELSE "label"
           q == [r EXCEPT !.todo = todo, !.then = then, !.pc = pc]
<1>1. pc = (IF DOMAIN todo = {} THEN then ELSE "label") /\ pc \in Phases
  BY TodoIs DEF Phases, Onward
<1>2. Loop(r, todo, then) = q
  BY DEF Loop
<1>3. pc \in {then, "label"}
  OBVIOUS
<1> HIDE DEF pc
<1>4. q \in Request /\ q.todo = todo /\ q.then = then /\ q.pc = pc /\ q.op = r.op /\ q.solo = r.solo /\ q.to = r.to /\ q.from = r.from
  <2>1. then \in Phases
    BY DEF Phases, Onward
  <2> QED BY <1>1, <2>1, RequestIs
<1>5. /\ q.num = r.num /\ q.label = r.label /\ q.stages = r.stages
  BY RequestIs
<1> HIDE DEF q
<1>6. Placed(q)
  BY <1>3, <1>4, <1>5 DEF Placed, Fit, Passing, Onward
<1> QED BY <1>1, <1>2, <1>4, <1>5, <1>6

\* The lists of labels that are computed are lists of labels.
LEMMA TodosMade ==
    ASSUME Typed
    PROVE  /\ Demoted \in [Listed -> SUBSET Labels]
           /\ \A r \in Request : Demotions(r) \in [(Holders("AWSCURRENT") \cup (Listed \cap {r.from})) \ {r.to} -> SUBSET Labels]
           /\ \A S \in SUBSET Listed : [i \in S |-> versions[i].stages \ {"AWSPREVIOUS"}] \in [S -> SUBSET Labels]
           /\ Listed \subseteq Ids /\ Holders("AWSCURRENT") \subseteq Listed /\ Holders("AWSPREVIOUS") \subseteq Listed
<1>1. \A i \in Listed : versions[i] \in Version /\ versions[i].stages \in SUBSET Labels
  BY DEF Typed, Listed, Version
<1>2. Listed \subseteq Ids /\ \A label : Holders(label) \subseteq Listed
  BY DEF Listed, Holders
<1>3. Demoted \in [Listed -> SUBSET Labels]
  BY <1>1 DEF Demoted, Labels
<1>4. \A r \in Request : Demotions(r) \in [(Holders("AWSCURRENT") \cup (Listed \cap {r.from})) \ {r.to} -> SUBSET Labels]
  BY <1>1, <1>2 DEF Demotions, Labels
<1>5. \A S \in SUBSET Listed : [i \in S |-> versions[i].stages \ {"AWSPREVIOUS"}] \in [S -> SUBSET Labels]
  BY <1>1
<1> QED BY <1>2, <1>3, <1>4, <1>5

\* The first of some versions is one of them.
LEMMA FirstIs ==
    ASSUME Typed, NEW S \in SUBSET Listed, S # {}
    PROVE  FirstOf(S) \in S
<1> DEFINE N == {versions[i].num : i \in S}
<1>1. \A i \in S : versions[i].num \in 1..MaxVersion
  BY DEF Typed, Listed, Version
<1>2. N \in SUBSET Nat /\ N # {} /\ IsFiniteSet(N)
  <2>1. N \subseteq 1..MaxVersion
    BY <1>1
  <2>2. IsFiniteSet(1..MaxVersion)
    BY BoundsAssumption, FS_Interval
  <2>3. IsFiniteSet(N)
    BY <2>1, <2>2, FS_Subset
  <2> QED BY <2>1, <2>3
<1>3. PICK n \in N : \A k \in N : n <= k
  <2> HIDE DEF N
  <2> QED BY <1>2, SmallestExists
<1>4. \E i \in S : \A j \in S : versions[i].num <= versions[j].num
  BY <1>3
<1> QED BY <1>4 DEF FirstOf

\* A request goes on when the secret's row is loaded.
LEMMA LoadedTyped ==
    ASSUME Typed, NEW r \in Request, Placed(r), r.op \notin {"get", "create"}, secret # None,
           r.op \in Puts => secret.version # MaxVersion
    PROVE  Loaded(r) \in Request /\ Placed(Loaded(r))
<1>1. r.op \in Puts => /\ secret.version + 1 \in 0..MaxVersion /\ secret.version + 1 # 0
                       /\ secret.version + 1 \in Ids /\ secret.version + 1 # None
  <2>1. ASSUME r.op \in Puts PROVE secret.version + 1 \in 1..MaxVersion
    BY <2>1, BoundsAssumption DEF Typed, Secret
  <2>2. \A n \in 1..MaxVersion : n \in 0..MaxVersion /\ n # 0 /\ n \in Ids /\ n # None
    BY NoneAssumption, BoundsAssumption DEF Ids
  <2> QED BY <2>1, <2>2
<1> DEFINE next == secret.version + 1
<1>2. r.op \in Puts => Named(r) \in Ids /\ Named(r) # None
  <2>1. r.to \in Ids \cup {None}
    BY RequestIs
  <2> QED BY <1>1, <2>1 DEF Named
<1>3. \A then \in Onward : "ensure" \in Phases /\ then \in Phases
  BY DEF Phases, Onward
<1>4. r.op \in Ops
  BY RequestIs
<1>5. CASE r.op = "put"
  <2> DEFINE q == [r EXCEPT !.pc = "putSecret", !.num = next, !.to = next]
  <2>1. Loaded(r) = q
    BY <1>5 DEF Loaded
  <2>2. next \in 0..MaxVersion /\ next # 0 /\ next \in Ids /\ next # None /\ "putSecret" \in Phases
    BY <1>1, <1>5 DEF Puts, Phases
  <2> HIDE DEF next
  <2>3. q \in Request
    BY <2>2, RequestIs
  <2>4. Placed(q)
    BY <1>5, <2>2, RequestIs DEF Placed, Fit, Passing
  <2> QED BY <2>1, <2>3, <2>4
<1>6. CASE r.op = "putCurrent"
  <2> DEFINE p == [r EXCEPT !.op = "put"]
  <2>1. Loaded(r) = Via(p, "ensure", "load")
    BY <1>6 DEF Loaded
  <2>2. "put" \in Ops
    BY DEF Ops, Puts
  <2>3. p \in Request /\ p.op = "put" /\ p.pc = r.pc /\ p.stages = r.stages
    BY <2>2, RequestIs
  <2> HIDE DEF p
  <2> DEFINE q == [p EXCEPT !.pc = "ensure", !.then = "load"]
  <2>4. r.stages = {"AWSCURRENT"} /\ "load" \in Onward /\ "load" \in Phases /\ "ensure" \in Phases
    BY <1>3, <1>6 DEF Placed, Onward
  <2>5. q \in Request
    BY <2>3, <2>4, RequestIs
  <2>6. q.op = "put" /\ q.pc = "ensure" /\ q.then = "load" /\ q.stages = {"AWSCURRENT"}
    BY <2>3, <2>4, RequestIs
  <2>7. Via(p, "ensure", "load") = q
    BY DEF Via
  <2> HIDE DEF q
  <2>8. Placed(q)
    BY <2>4, <2>6 DEF Placed, Fit, Passing
  <2> QED BY <2>1, <2>5, <2>7, <2>8
<1>7. CASE r.op = "putPending"
  <2> DEFINE to == Named(r)
             p == [r EXCEPT !.to = to]
  <2>1. Loaded(r) = Via(p, "ensure", "pendingLoad")
    BY <1>7 DEF Loaded
  <2>2. to \in Ids /\ to # None
    BY <1>2, <1>7 DEF Puts
  <2> HIDE DEF to
  <2>3. p \in Request /\ p.op = "putPending" /\ p.to = to
    BY <1>7, <2>2, RequestIs
  <2>4. Placed(p)
    BY <1>7, <2>2, RequestIs DEF Placed, Fit, Passing
  <2> HIDE DEF p
  <2>5. "pendingLoad" \in Onward /\ Fit(p, "pendingLoad")
    BY <2>2, <2>3 DEF Onward, Fit
  <2> QED BY <2>1, <2>3, <2>4, <2>5, ViaTyped
<1>10. CASE r.op = "putStages"
  <2> DEFINE to == Named(r)
             p == [r EXCEPT !.num = next, !.to = to]
  <2>1. Loaded(r) = Via(p, "ensure", "again")
    BY <1>10 DEF Loaded
  <2>2. to \in Ids /\ to # None /\ next \in 0..MaxVersion /\ next # 0
    BY <1>1, <1>2, <1>10 DEF Puts
  <2> HIDE DEF to, next
  <2>3. p \in Request /\ p.op = "putStages" /\ p.to = to /\ p.num = next
    BY <1>10, <2>2, RequestIs
  <2>4. Placed(p)
    BY <1>10, <2>2, RequestIs DEF Placed, Fit, Passing
  <2> HIDE DEF p
  <2>5. "again" \in Onward /\ Fit(p, "again")
    BY <2>2, <2>3 DEF Onward, Fit
  <2> QED BY <2>1, <2>3, <2>4, <2>5, ViaTyped
<1>8. CASE r.op \in {"rotate", "move"}
  <2>1. Relabel(r) \in Onward /\ Fit(r, Relabel(r))
    BY <1>8 DEF Relabel, Onward, Placed, Fit
  <2>2. r.op = "rotate" => Fit(r, "again") /\ "again" \in Onward
    BY DEF Fit, Onward
  <2>3. \E then \in Onward : Loaded(r) = Via(r, "ensure", then) /\ Fit(r, then)
    BY <1>8, <2>1, <2>2 DEF Loaded
  <2> QED BY <2>3, ViaTyped
<1>9. CASE r.op \in Unconditional
  <2>1. Loaded(r) = [r EXCEPT !.pc = r.op]
    BY <1>9 DEF Loaded, Unconditional
  <2>2. r.op \in Phases /\ r.op \notin {"backfill", "syncWrite"} \cup Passing /\ Fit(r, r.op)
    BY <1>9 DEF Unconditional, Phases, Passing, Fit
  <2> QED BY <2>1, <2>2, GotoTyped
<1> QED BY <1>4, <1>5, <1>6, <1>7, <1>8, <1>9, <1>10 DEF Ops, Puts

LEMMA TypedRead ==
    ASSUME Typed, NEW c \in Clients,
           \/ Ensure(c) \/ EnsureRead(c) \/ Load(c) \/ Again(c) \/ PutList(c) \/ PutRecord(c) \/ OrphanCheck(c) \/ PendingLoad(c) \/ Promote(c)
           \/ RemoveRead(c) \/ AddRead(c) \/ PreviousList(c) \/ OnlyPreviousList(c) \/ SyncRead(c) \/ Fail(c)
    PROVE  Typed'
<1> DEFINE r == requests[c]
<1>1. UNCHANGED <<secret, versions, begun, torn, astray>>
  BY DEF Ensure, EnsureRead, Load, Again, PutList, PutRecord, OrphanCheck, PendingLoad, Promote, RemoveRead, AddRead,
         PreviousList, OnlyPreviousList, SyncRead, Fail
<1>2. Return(c) => Update(c, NoRequest)
  BY DEF Return
<1>3. SUFFICES \E q : Update(c, q) /\ (q = NoRequest \/ (q \in Request /\ Placed(q)))
  BY <1>1, Went DEF Typed
<1>4. r.pc # "idle" => r \in Request /\ Placed(r)
  BY RequestAt
<1> HIDE DEF r
<1>5. CASE Ensure(c)
  <2>1. r.pc = "ensure" /\ r \in Request /\ Placed(r)
    BY <1>4, <1>5 DEF Ensure, At, r
  <2>2. r.then \in Onward /\ Fit(r, r.then) /\ r.then \in Phases
    BY <2>1, RequestIs DEF Placed, Passing
  <2>3. r.then \notin {"backfill", "syncWrite"} \cup Passing
    BY <2>2 DEF Onward, Passing
  <2>4. CASE Goto(c, r.then)
    BY <2>1, <2>2, <2>3, <2>4, GotoTyped DEF Goto, r
  <2>5. CASE Goto(c, "ensureRead")
    <3>1. "ensureRead" \in Phases /\ Fit(r, "ensureRead")
      BY DEF Phases, Fit
    <3> QED BY <2>1, <2>2, <2>5, <3>1, GotoTyped DEF Goto, r
  <2> QED BY <1>5, <2>4, <2>5 DEF Ensure, r
<1>16. CASE EnsureRead(c)
  <2>1. r.pc = "ensureRead" /\ r \in Request /\ Placed(r)
    BY <1>4, <1>16 DEF EnsureRead, At, r
  <2> DEFINE late == torn \/ Listed # {}
             q == [r EXCEPT !.pc = "backfill", !.row = secret, !.late = late]
  <2>2. CASE Update(c, q) /\ secret # None
    <3>1. "backfill" \in Phases /\ secret \in Secret /\ late \in BOOLEAN
      BY <2>2 DEF Phases, Typed
    <3> HIDE DEF late
    <3>2. q \in Request
      BY <2>1, <3>1, RequestIs
    <3>3. Placed(q)
      BY <2>1, <2>2, RequestIs DEF Placed, Fit, Passing
    <3> QED BY <2>2, <3>2, <3>3
  <2> QED BY <1>2, <1>16, <2>2 DEF EnsureRead, r
<1>6. CASE Load(c)
  <2>1. r.pc = "load" /\ r \in Request /\ Placed(r)
    BY <1>4, <1>6 DEF Load, At, r
  <2>2. CASE Return(c)
    BY <1>2, <2>2
  <2>3. CASE ~ Return(c)
    <3>1. /\ Update(c, Loaded(r)) /\ secret # None /\ r.op # "get"
          /\ r.op \in Puts => secret.version # MaxVersion
      BY <1>6, <2>3 DEF Load, r
    <3>2. r.op # "create"
      BY <2>1 DEF Placed, Fit
    <3> QED BY <2>1, <3>1, <3>2, LoadedTyped
  <2> QED BY <2>2, <2>3
<1>17. CASE Again(c)
  <2>1. r.pc = "again" /\ r \in Request /\ Placed(r) /\ Fit(r, "again")
    BY <1>4, <1>17 DEF Again, At, Placed, r
  <2>2. PICK then : /\ Update(c, Via(r, "ensure", then))
                    /\ \/ then = "orphanCheck" /\ r.op = "rotate"
                       \/ then = "putList" /\ r.op # "rotate" /\ "AWSCURRENT" \in r.stages
                       \/ then = "putRecord" /\ r.op # "rotate"
    BY <1>17 DEF Again, r
  <2>3. then \in Onward /\ Fit(r, then)
    BY <2>1, <2>2 DEF Onward, Fit
  <2> QED BY <2>1, <2>2, <2>3, ViaTyped
<1>7. CASE PutList(c)
  <2>1. r.pc = "putList" /\ r \in Request /\ Placed(r)
    BY <1>4, <1>7 DEF PutList, At, r
  <2>2. Update(c, Loop(r, Demoted, "putRecord"))
    BY <1>7 DEF PutList, r
  <2>3. Demoted \in Todos
    BY TodosMade, TodoMade
  <2>4. "putRecord" \in Onward /\ Fit(r, "putRecord")
    BY <2>1 DEF Onward, Placed, Fit
  <2> QED BY <2>1, <2>2, <2>3, <2>4, LoopTyped
<1>8. CASE PreviousList(c)
  <2>1. r.pc = "previousList" /\ r \in Request /\ Placed(r)
    BY <1>4, <1>8 DEF PreviousList, At, r
  <2>2. Update(c, Loop(r, Demotions(r), IF r.from = None THEN "syncRead" ELSE "onlyPreviousList"))
    BY <1>8 DEF PreviousList, r
  <2>3. Demotions(r) \in Todos
    BY <2>1, TodosMade, TodoMade
  <2>4. \A then \in {"syncRead", "onlyPreviousList"} : then \in Onward /\ Fit(r, then)
    BY <2>1 DEF Onward, Placed, Fit
  <2> QED BY <2>1, <2>2, <2>3, <2>4, LoopTyped
<1>9. CASE OnlyPreviousList(c)
  <2>1. r.pc = "onlyPreviousList" /\ r \in Request /\ Placed(r)
    BY <1>4, <1>9 DEF OnlyPreviousList, At, r
  <2> DEFINE S == Holders("AWSPREVIOUS") \ {r.from, r.to}
             t == [i \in S |-> versions[i].stages \ {"AWSPREVIOUS"}]
  <2>2. Update(c, Loop(r, t, "syncRead"))
    BY <1>9 DEF OnlyPreviousList, r
  <2>3. S \in SUBSET Listed /\ S \in SUBSET Ids
    BY TodosMade
  <2> HIDE DEF S
  <2>4. t \in Todos
    BY <2>3, TodosMade, TodoMade
  <2> HIDE DEF t
  <2>5. "syncRead" \in Onward /\ Fit(r, "syncRead")
    BY <2>1 DEF Onward, Placed, Fit
  <2> QED BY <2>1, <2>2, <2>4, <2>5, LoopTyped
<1>10. CASE PutRecord(c) \/ OrphanCheck(c)
  <2>1. r.pc \in {"putRecord", "orphanCheck"} /\ r \in Request /\ Placed(r)
    BY <1>4, <1>10 DEF PutRecord, OrphanCheck, At, r
  <2>2. Update(c, NoRequest) \/ (\E pc \in {"putInsert", "putLabel"} : r.pc = "putRecord" /\ Goto(c, pc))
                             \/ (r.pc = "orphanCheck" /\ Goto(c, "pendingLoad"))
    BY <1>2, <1>10 DEF PutRecord, OrphanCheck, At, r
  <2>3. ASSUME NEW pc \in {"putInsert", "putLabel", "pendingLoad"}, Fit(r, pc), Goto(c, pc)
        PROVE  \E q : Update(c, q) /\ (q = NoRequest \/ (q \in Request /\ Placed(q)))
    <3>1. pc \in Phases /\ pc \notin {"backfill", "syncWrite"} \cup Passing
      BY DEF Phases, Passing
    <3> QED BY <2>1, <2>3, <3>1, GotoTyped DEF Goto, r
  <2>4. r.pc = "putRecord" => Fit(r, "putInsert") /\ Fit(r, "putLabel")
    BY <2>1 DEF Placed, Fit
  <2>5. r.pc = "orphanCheck" => Fit(r, "pendingLoad")
    BY <2>1 DEF Placed, Fit
  <2> QED BY <2>2, <2>3, <2>4, <2>5
<1>11. CASE PendingLoad(c)
  <2>1. r.pc = "pendingLoad" /\ r \in Request /\ Placed(r)
    BY <1>4, <1>11 DEF PendingLoad, At, r
  <2> DEFINE q == [r EXCEPT !.pc = "pendingInsert", !.num = secret.version + 1]
  <2>2. CASE secret # None /\ secret.version # MaxVersion /\ Update(c, q)
    <3>1. secret.version + 1 \in 0..MaxVersion /\ secret.version + 1 # 0
      BY <2>2, BoundsAssumption DEF Typed, Secret
    <3>2. "pendingInsert" \in Phases
      BY DEF Phases
    <3>3. q \in Request
      BY <2>1, <3>1, <3>2, RequestIs
    <3>4. Placed(q)
      BY <2>1, <3>1, RequestIs DEF Placed, Fit, Passing
    <3> QED BY <2>2, <3>3, <3>4
  <2> QED BY <1>2, <1>11, <2>2 DEF PendingLoad, r
<1>12. CASE Promote(c)
  <2>1. r.pc = "invoke" /\ r \in Request /\ Placed(r)
    BY <1>4, <1>12 DEF Promote, At, r
  <2> DEFINE from == IF Holders("AWSCURRENT") = {} THEN None ELSE FirstOf(Holders("AWSCURRENT"))
  <2> DEFINE q == [r EXCEPT !.pc = "load", !.label = "AWSCURRENT", !.from = from]
  <2>2. from \in Ids \cup {None}
    BY TodosMade, FirstIs
  <2> HIDE DEF from
  <2>3. "load" \in Phases /\ "AWSCURRENT" \in Labels
    BY DEF Phases, Labels
  <2>4. q \in Request
    BY <2>1, <2>2, <2>3, RequestIs
  <2>5. Placed(q)
    BY <2>1, RequestIs DEF Placed, Fit, Passing
  <2>6. Update(c, q)
    BY <1>12 DEF Promote, r, from
  <2> QED BY <2>4, <2>5, <2>6
<1>13. CASE RemoveRead(c) \/ AddRead(c)
  <2>1. /\ r.pc \in {"removeRead", "addRead"} /\ r \in Request /\ Placed(r)
        /\ RemoveRead(c) => r.pc = "removeRead"
        /\ AddRead(c) => r.pc = "addRead"
    BY <1>4, <1>13 DEF RemoveRead, AddRead, At, r
  <2>2. ASSUME NEW stages \in SUBSET Labels, r.pc = "addRead", r.label = "AWSCURRENT" => "AWSCURRENT" \in stages
        PROVE  [r EXCEPT !.pc = "addWrite", !.stages = stages] \in Request /\ Placed([r EXCEPT !.pc = "addWrite", !.stages = stages])
    <3>1. "addWrite" \in Phases
      BY DEF Phases
    <3>2. [r EXCEPT !.pc = "addWrite", !.stages = stages] \in Request
      BY <2>1, <3>1, RequestIs
    <3>3. Placed([r EXCEPT !.pc = "addWrite", !.stages = stages])
      BY <2>1, <2>2, RequestIs DEF Placed, Fit, Passing
    <3> QED BY <3>2, <3>3
  <2>3. \A id \in Ids : versions[id] # None => versions[id].stages \in SUBSET Labels
    BY DEF Typed, Version
  <2>4. CASE RemoveRead(c)
    <3>1. r.from \in Ids
      BY <2>1, <2>4, RequestIs DEF Placed, Fit
    <3>2. CASE versions[r.from] # None
      <4> DEFINE stages == versions[r.from].stages \ {r.label}
      <4>1. stages \in SUBSET Labels
        BY <2>3, <3>1, <3>2
      <4>2. Update(c, [r EXCEPT !.pc = "removeWrite", !.stages = stages])
        BY <2>4, <3>2 DEF RemoveRead, r
      <4>3. r.pc = "removeRead"
        BY <2>1, <2>4
      <4> HIDE DEF stages
      <4>4. "removeWrite" \in Phases
        BY DEF Phases
      <4>5. [r EXCEPT !.pc = "removeWrite", !.stages = stages] \in Request
        BY <2>1, <4>1, <4>4, RequestIs
      <4>6. Placed([r EXCEPT !.pc = "removeWrite", !.stages = stages])
        BY <2>1, <4>3, RequestIs DEF Placed, Fit, Passing
      <4> QED BY <4>2, <4>5, <4>6
    <3> QED BY <1>2, <2>4, <3>2 DEF RemoveRead, r
  <2>5. CASE AddRead(c)
    <3>1. r.to \in Ids /\ r.label \in Labels
      BY <2>1, <2>5, RequestIs DEF Placed, Fit
    <3>2. CASE versions[r.to] # None
      <4>1. Gained(r) \in SUBSET Labels /\ (r.label = "AWSCURRENT" => "AWSCURRENT" \in Gained(r))
        BY <2>3, <3>1, <3>2 DEF Gained
      <4>2. Update(c, [r EXCEPT !.pc = "addWrite", !.stages = Gained(r)])
        BY <2>5, <3>2 DEF AddRead, r
      <4> QED BY <2>1, <2>2, <2>5, <4>1, <4>2
    <3> QED BY <1>2, <2>5, <3>2 DEF AddRead, r
  <2> QED BY <1>13, <2>4, <2>5
<1>14. CASE SyncRead(c)
  <2>1. r.pc = "syncRead" /\ r \in Request /\ Placed(r) /\ r.to \in Ids
    BY <1>4, <1>14, RequestIs DEF SyncRead, At, Placed, Fit, r
  <2>2. CASE versions[r.to] # None
    <3> DEFINE q == [r EXCEPT !.pc = "syncWrite", !.row = Copy(r.to)]
    <3>1. Copy(r.to) \in Secret
      BY <2>1, <2>2 DEF Copy, Secret, Version, Typed
    <3>2. "syncWrite" \in Phases /\ Copy(r.to) # None
      BY <3>1, NoneAssumption DEF Phases
    <3>3. q \in Request
      BY <2>1, <3>1, <3>2, RequestIs
    <3>4. Placed(q)
      BY <2>1, <3>2, RequestIs DEF Placed, Fit, Passing
    <3> QED BY <1>14, <2>2, <3>3, <3>4 DEF SyncRead, r
  <2> QED BY <1>2, <1>14, <2>2 DEF SyncRead, r
<1>15. CASE Fail(c)
  BY <1>2, <1>15 DEF Fail
<1> QED BY <1>5, <1>6, <1>7, <1>8, <1>9, <1>10, <1>11, <1>12, <1>13, <1>14, <1>15, <1>16, <1>17

\* What a request at a writing statement has.
LEMMA WriterHas ==
    ASSUME Typed, NEW c \in Clients, requests[c].pc # "idle"
    PROVE  /\ requests[c].op \in Ops /\ requests[c].value \in Nat /\ requests[c].stages \in SUBSET Labels
           /\ requests[c].num # 0 => requests[c].num \in 1..MaxVersion /\ requests[c].num \in Ids
           /\ requests[c].to # None => requests[c].to \in Ids
           /\ requests[c].from # None => requests[c].from \in Ids
           /\ requests[c].row # None => /\ requests[c].row \in Secret /\ requests[c].row.version \in 1..MaxVersion
                                        /\ requests[c].row.version \in Ids /\ requests[c].row.sealed \in Sealed
           /\ 1 \in Ids /\ 1 \in 1..MaxVersion
<1>1. requests[c] \in Request
  BY RequestAt
<1>2. 1 \in 1..MaxVersion
  BY BoundsAssumption
<1>3. \A n \in 1..MaxVersion : n \in Ids
  BY DEF Ids
<1>4. \A n \in 0..MaxVersion : n # 0 => n \in 1..MaxVersion
  BY BoundsAssumption
<1>5. requests[c].row # None => requests[c].row \in Secret
  BY <1>1, RequestIs
<1>6. \A row \in Secret : row.version \in 1..MaxVersion /\ row.sealed \in Sealed
  BY DEF Secret
<1> QED BY <1>1, <1>2, <1>3, <1>4, <1>5, <1>6, RequestIs

\* A request completes.
LEMMA Completed ==
    ASSUME Typed, NEW c \in Clients, NEW id \in Ids, requests[c].op \in Ops, requests[c].stages \in SUBSET Labels,
           Complete(c, id),
           secret' \in Secret \cup {None}, versions' \in [Ids -> Version \cup {None}],
           begun' = begun, torn' = torn, astray' = astray
    PROVE  Typed'
<1>1. settled' \in [op : Ops, id : Ids, stages : SUBSET Labels] \cup {None}
  BY DEF Complete
<1>2. torn' \in BOOLEAN /\ astray' \in SUBSET Ids
  BY DEF Typed
<1>3. requests' = [requests EXCEPT ![c] = NoRequest]
  BY DEF Complete
<1> QED BY <1>1, <1>2, <1>3, Moved

\* A request writes labels to a row and goes on.
LEMMA WroteStages ==
    ASSUME Typed, NEW c \in Clients, NEW id \in Ids, NEW stages \in SUBSET Labels, NEW q,
           q = NoRequest \/ (q \in Request /\ Placed(q)),
           WriteStages(c, id, stages, q), UNCHANGED <<secret, begun, torn, astray>>
    PROVE  Typed'
<1>1. versions' \in [Ids -> Version \cup {None}]
  <2>1. CASE versions[id] = None
    BY <2>1 DEF WriteStages, Typed
  <2>2. CASE versions[id] # None
    <3>1. versions' = [versions EXCEPT ![id].stages = stages]
      BY <2>2 DEF WriteStages
    <3> QED BY <2>2, <3>1, RowsTyped
  <2> QED BY <2>1, <2>2
<1>2. \E p : (p = NoRequest \/ (p \in Request /\ Placed(p))) /\ Update(c, p)
  BY DEF WriteStages, Return
<1> QED BY <1>1, <1>2, Moved DEF Update, Typed

\* A row is inserted, or the request is refused.
LEMMA Inserted ==
    ASSUME Typed, NEW id \in Ids, NEW num \in 1..MaxVersion, NEW sealed \in Sealed, NEW stages \in SUBSET Labels,
           Insert(id, NewVersion(num, sealed, stages))
    PROVE  versions' \in [Ids -> Version \cup {None}]
BY RowsTyped DEF Insert

LEMMA RefusedTyped ==
    ASSUME Typed, NEW c \in Clients, NEW id, Conflict(c, id)
    PROVE  Typed'
BY Went DEF Conflict, Return, Typed

LEMMA TypedBackfill ==
    ASSUME Typed, NEW c \in Clients, Backfill(c)
    PROVE  Typed'
<1> DEFINE r == requests[c]
           q == [r EXCEPT !.pc = r.then, !.row = None, !.late = FALSE]
<1>1. r.pc = "backfill" /\ r \in Request /\ Placed(r)
  BY RequestAt DEF Backfill, At
<1>2. CASE /\ Insert(r.row.version, NewVersion(r.row.version, r.row.sealed, {"AWSCURRENT"}))
             /\ astray' = (IF r.late THEN astray \cup {r.row.version} ELSE astray)
             /\ Update(c, q) /\ UNCHANGED <<secret, begun, torn>>
  <2>1. r.row.version \in 1..MaxVersion /\ r.row.version \in Ids /\ r.row.sealed \in Sealed
    BY <1>1, WriterHas DEF Placed
  <2>2. versions' \in [Ids -> Version \cup {None}]
    BY <1>2, <2>1, Inserted DEF Labels
  <2>3. r.then \in Onward /\ Fit(r, r.then)
    BY <1>1 DEF Placed, Passing
  <2>4. q \in Request
    BY <1>1, RequestIs
  <2>5. Placed(q)
    BY <1>1, <2>3, RequestIs DEF Placed, Fit, Passing, Onward
  <2>6. astray' \in SUBSET Ids
    BY <1>2, <2>1 DEF Typed
  <2> HIDE DEF q
  <2> QED BY <1>2, <2>2, <2>4, <2>5, <2>6, Moved DEF Update, Typed
<1> QED BY <1>2, RefusedTyped DEF Backfill

LEMMA TypedCreate ==
    ASSUME Typed, NEW c \in Clients, CreateSecret(c) \/ CreateVersion(c)
    PROVE  Typed'
<1> DEFINE r == requests[c]
<1>1. r.pc \in {"createSecret", "createVersion"} /\ r \in Request /\ Placed(r)
  BY RequestAt DEF CreateSecret, CreateVersion, At
<1>2. 1 \in 1..MaxVersion /\ 1 \in Ids /\ Seal(r.value, 1) \in Sealed /\ r.op \in Ops /\ r.stages \in SUBSET Labels
  BY <1>1, WriterHas DEF Seal, Sealed
<1>3. CASE CreateSecret(c)
  <2>1. secret' \in Secret
    BY <1>2, <1>3 DEF CreateSecret, Secret
  <2>2. Update(c, [r EXCEPT !.pc = "createVersion"]) /\ UNCHANGED <<versions, begun, torn, astray>>
    BY <1>3 DEF CreateSecret, Goto
  <2>3. "createVersion" \in Phases /\ Fit(r, "createVersion") /\ "createVersion" \notin {"backfill", "syncWrite"} \cup Passing
    BY <1>1 DEF Phases, Fit, Placed, Passing
  <2>4. [r EXCEPT !.pc = "createVersion"] \in Request /\ Placed([r EXCEPT !.pc = "createVersion"])
    BY <1>1, <2>3, GotoTyped
  <2> QED BY <2>1, <2>2, <2>4, Moved DEF Update, Typed
<1>4. CASE CreateVersion(c)
  <2>1. CASE Insert(1, NewVersion(1, Seal(r.value, 1), {"AWSCURRENT"})) /\ Complete(c, 1) /\ UNCHANGED <<secret, begun, torn, astray>>
    <3>1. versions' \in [Ids -> Version \cup {None}]
      BY <1>2, <2>1, Inserted DEF Labels
    <3> QED BY <1>2, <2>1, <3>1, Completed DEF Typed
  <2> QED BY <1>4, <2>1, RefusedTyped DEF CreateVersion
<1> QED BY <1>3, <1>4

LEMMA TypedPut ==
    ASSUME Typed, NEW c \in Clients, PutSecret(c) \/ PutLabel(c) \/ PutInsert(c) \/ PutParent(c)
    PROVE  Typed'
<1> DEFINE r == requests[c]
<1>1. r.pc \in {"putSecret", "putLabel", "putInsert", "putParent"} /\ r \in Request /\ Placed(r)
  BY RequestAt DEF PutSecret, PutLabel, PutInsert, PutParent, At
<1>2. /\ r.num \in 1..MaxVersion /\ r.to \in Ids /\ r.op \in Ops /\ r.stages \in SUBSET Labels
      /\ Seal(r.value, r.num) \in Sealed /\ Seal(r.value, r.to) \in Sealed
  BY <1>1, WriterHas DEF Seal, Sealed, Placed, Fit
<1>3. CASE PutSecret(c)
  <2>1. secret' \in Secret \cup {None}
    BY <1>2, <1>3 DEF PutSecret, Secret, Typed
  <2>2. Update(c, Via(r, "ensure", "putList")) /\ UNCHANGED <<versions, begun, torn, astray>>
    BY <1>3 DEF PutSecret
  <2>3. "putList" \in Onward /\ Fit(r, "putList")
    BY <1>1, <1>3 DEF Onward, Fit, Placed, PutSecret, At
  <2>4. Via(r, "ensure", "putList") \in Request /\ Placed(Via(r, "ensure", "putList"))
    BY <1>1, <2>3, ViaTyped
  <2> QED BY <2>1, <2>2, <2>4, Moved DEF Update, Typed
<1>4. ASSUME Recorded(c), r.pc \in {"putLabel", "putInsert"}, versions' \in [Ids -> Version \cup {None}],
             UNCHANGED <<secret, begun, torn, astray>>
      PROVE  Typed'
  <2>1. CASE Complete(c, r.to)
    BY <1>2, <1>4, <2>1, Completed DEF Typed
  <2>2. CASE r.op # "put" /\ Goto(c, "putParent")
    <3>1. "putParent" \in Phases /\ Fit(r, "putParent") /\ "putParent" \notin {"backfill", "syncWrite"} \cup Passing
      BY <1>1, <1>4, <2>2 DEF Phases, Fit, Placed, Passing
    <3>2. [r EXCEPT !.pc = "putParent"] \in Request /\ Placed([r EXCEPT !.pc = "putParent"])
      BY <1>1, <3>1, GotoTyped
    <3> QED BY <1>4, <2>2, <3>2, Moved DEF Goto, Update, Typed
  <2> QED BY <1>4, <2>1, <2>2 DEF Recorded
<1>5. CASE PutLabel(c)
  <2>1. CASE versions[r.to] = None
    <3>1. Update(c, NoRequest) /\ UNCHANGED <<secret, versions, begun, torn, astray>>
      BY <1>5, <2>1 DEF PutLabel, Return
    <3> QED BY <3>1, Went DEF Typed
  <2>2. CASE versions[r.to] # None
    <3>1. versions' = [versions EXCEPT ![r.to].stages = r.stages] /\ Recorded(c) /\ UNCHANGED <<secret, begun, torn, astray>>
      BY <1>5, <2>2 DEF PutLabel
    <3>2. versions' \in [Ids -> Version \cup {None}]
      BY <1>2, <2>2, <3>1, RowsTyped
    <3> QED BY <1>4, <1>5, <3>1, <3>2 DEF PutLabel, At
  <2> QED BY <2>1, <2>2
<1>6. CASE PutInsert(c)
  <2>1. CASE Insert(r.to, NewVersion(r.num, Seal(r.value, r.to), r.stages)) /\ Recorded(c) /\ UNCHANGED <<secret, begun, torn, astray>>
    <3>1. versions' \in [Ids -> Version \cup {None}]
      BY <1>2, <2>1, Inserted
    <3> QED BY <1>4, <1>6, <2>1, <3>1 DEF PutInsert, At
  <2> QED BY <1>6, <2>1, RefusedTyped DEF PutInsert
<1>7. CASE PutParent(c)
  <2>1. secret' \in Secret \cup {None}
    BY <1>2, <1>7 DEF PutParent, Bumped, Secret, Typed
  <2>2. UNCHANGED <<versions, begun, torn, astray>> /\ (Complete(c, r.to) \/ Update(c, NoRequest))
    BY <1>7 DEF PutParent, Return
  <2>3. CASE Complete(c, r.to)
    BY <1>2, <2>1, <2>2, <2>3, Completed DEF Typed
  <2>4. CASE Update(c, NoRequest)
    BY <2>1, <2>2, <2>4, Moved DEF Update, Typed
  <2> QED BY <2>2, <2>3, <2>4
<1> QED BY <1>3, <1>5, <1>6, <1>7

LEMMA TypedPending ==
    ASSUME Typed, NEW c \in Clients, PendingInsert(c) \/ PendingBump(c)
    PROVE  Typed'
<1> DEFINE r == requests[c]
<1>1. r.pc \in {"pendingInsert", "pendingBump"} /\ r \in Request /\ Placed(r)
  BY RequestAt DEF PendingInsert, PendingBump, At
<1>2. r.num \in 1..MaxVersion /\ r.to \in Ids /\ PendingSeal(r) \in Sealed
  BY <1>1, WriterHas DEF PendingSeal, Seal, Sealed, Placed, Fit
<1>3. CASE PendingInsert(c)
  <2>1. CASE Insert(r.to, NewVersion(r.num, PendingSeal(r), {"AWSPENDING"})) /\ Goto(c, "pendingBump") /\ UNCHANGED <<secret, begun, torn, astray>>
    <3>1. versions' \in [Ids -> Version \cup {None}]
      BY <1>2, <2>1, Inserted DEF Labels
    <3>2. "pendingBump" \in Phases /\ Fit(r, "pendingBump") /\ "pendingBump" \notin {"backfill", "syncWrite"} \cup Passing
      BY <1>1 DEF Phases, Fit, Placed, Passing
    <3>3. [r EXCEPT !.pc = "pendingBump"] \in Request /\ Placed([r EXCEPT !.pc = "pendingBump"])
      BY <1>1, <3>2, GotoTyped
    <3> QED BY <2>1, <3>1, <3>3, Moved DEF Goto, Update, Typed
  <2> QED BY <1>3, <2>1, RefusedTyped DEF PendingInsert
<1>4. CASE PendingBump(c)
  <2>1. secret' \in Secret \cup {None}
    BY <1>2, <1>4 DEF PendingBump, Bumped, Secret, Typed
  <2>2. UNCHANGED <<versions, begun, torn, astray>> /\ (Update(c, NoRequest) \/ Update(c, [r EXCEPT !.pc = "invoke"]))
    BY <1>4 DEF PendingBump, Goto, Return
  <2>3. "invoke" \in Phases /\ Fit(r, "invoke") /\ "invoke" \notin {"backfill", "syncWrite"} \cup Passing
    BY <1>1 DEF Phases, Fit, Placed, Passing
  <2>4. [r EXCEPT !.pc = "invoke"] \in Request /\ Placed([r EXCEPT !.pc = "invoke"])
    BY <1>1, <2>3, GotoTyped
  <2> QED BY <2>1, <2>2, <2>4, Moved DEF Update, Typed
<1> QED BY <1>3, <1>4

LEMMA TypedLabel ==
    ASSUME Typed, NEW c \in Clients, Label(c)
    PROVE  Typed'
<1> DEFINE r == requests[c]
<1>1. r.pc = "label" /\ r \in Request /\ Placed(r) /\ r.todo \in Todos
  BY RequestAt, RequestIs DEF Label, At
<1>2. PICK id \in DOMAIN r.todo : WriteStages(c, id, r.todo[id], Loop(r, [i \in DOMAIN r.todo \ {id} |-> r.todo[i]], r.then))
  BY DEF Label
<1>3. id \in Ids /\ r.todo[id] \in SUBSET Labels
  BY <1>1, TodoRest
<1>4. PICK t \in Todos : t = [i \in DOMAIN r.todo \ {id} |-> r.todo[i]]
  BY <1>1, TodoRest
<1>5. PICK then \in Onward : then = r.then /\ Fit(r, then)
  BY <1>1 DEF Placed, Passing
<1>6. WriteStages(c, id, r.todo[id], Loop(r, t, then)) /\ UNCHANGED <<secret, begun, torn, astray>>
  BY <1>2, <1>4, <1>5 DEF Label
<1> HIDE DEF r
<1>7. Loop(r, t, then) \in Request /\ Placed(Loop(r, t, then))
  BY <1>1, <1>5, LoopTyped
<1> QED BY <1>3, <1>6, <1>7, WroteStages

LEMMA TypedMove ==
    ASSUME Typed, NEW c \in Clients, RemoveWrite(c) \/ AddWrite(c) \/ SyncWrite(c)
    PROVE  Typed'
<1> DEFINE r == requests[c]
<1>1. r.pc \in {"removeWrite", "addWrite", "syncWrite"} /\ r \in Request /\ Placed(r)
  BY RequestAt DEF RemoveWrite, AddWrite, SyncWrite, At
<1>2. r.stages \in SUBSET Labels /\ r.op \in Ops /\ (r.to # None => r.to \in Ids) /\ (r.from # None => r.from \in Ids)
  BY <1>1, WriterHas
<1>3. CASE RemoveWrite(c)
  <2> DEFINE q == IF r.to = None THEN NoRequest ELSE [r EXCEPT !.pc = "addRead"]
  <2>1. WriteStages(c, r.from, r.stages, q) /\ UNCHANGED <<secret, begun, torn, astray>>
    BY <1>3 DEF RemoveWrite
  <2>2. r.from # None /\ r.op \in {"rotate", "move"}
    BY <1>1, <1>3 DEF Placed, Fit, RemoveWrite, At
  <2>3. q = NoRequest \/ (q \in Request /\ Placed(q))
    <3>1. CASE r.to # None
      <4>1. "addRead" \in Phases /\ Fit(r, "addRead") /\ "addRead" \notin {"backfill", "syncWrite"} \cup Passing
        BY <2>2, <3>1 DEF Phases, Fit, Passing
      <4> QED BY <1>1, <4>1, GotoTyped
    <3> QED BY <3>1
  <2> HIDE DEF q, r
  <2> QED BY <1>2, <2>1, <2>2, <2>3, WroteStages
<1>4. CASE AddWrite(c)
  <2> DEFINE q == IF r.label = "AWSCURRENT" THEN [r EXCEPT !.pc = "previousList", !.stages = {}] ELSE NoRequest
  <2>1. WriteStages(c, r.to, r.stages, q) /\ UNCHANGED <<secret, begun, torn, astray>>
    BY <1>4 DEF AddWrite
  <2>2. r.to # None /\ r.op \in {"rotate", "move"}
    BY <1>1, <1>4 DEF Placed, Fit, AddWrite, At
  <2>3. q = NoRequest \/ (q \in Request /\ Placed(q))
    <3>1. "previousList" \in Phases
      BY DEF Phases
    <3>2. [r EXCEPT !.pc = "previousList", !.stages = {}] \in Request
      BY <1>1, <3>1, RequestIs
    <3>3. Placed([r EXCEPT !.pc = "previousList", !.stages = {}])
      BY <1>1, <2>2, RequestIs DEF Placed, Fit, Passing
    <3> QED BY <3>2, <3>3
  <2> HIDE DEF q, r
  <2> QED BY <1>2, <2>1, <2>2, <2>3, WroteStages
<1>5. CASE SyncWrite(c)
  <2>1. r.row # None /\ r.to # None
    BY <1>1, <1>5 DEF Placed, Fit, SyncWrite, At
  <2>2. r.row.version \in 1..MaxVersion /\ r.row.sealed \in Sealed
    BY <1>1, <2>1, WriterHas
  <2>3. secret' \in Secret \cup {None}
    BY <1>5, <2>2 DEF SyncWrite, Secret, Typed
  <2>4. Complete(c, r.to) /\ UNCHANGED <<versions, begun, torn, astray>>
    BY <1>5 DEF SyncWrite
  <2> QED BY <1>2, <2>1, <2>3, <2>4, Completed DEF Typed
<1> QED BY <1>3, <1>4, <1>5

LEMMA TypedElapse == Typed /\ Elapse => Typed'
<1> SUFFICES ASSUME Typed, Elapse PROVE Typed'
  OBVIOUS
<1>1. secret' \in Secret
  BY DEF Elapse, Typed, Secret
<1>2. requests' = requests /\ UNCHANGED <<versions, begun, torn, astray>> /\ settled' = None
  BY DEF Elapse
<1>3. \A c \in Clients : requests[c] = NoRequest \/ Placed(requests[c])'
  BY <1>2 DEF Typed, Placed, Fit
<1> QED BY <1>1, <1>2, <1>3 DEF Typed

LEMMA TypedStep == Typed /\ [SecretNext]_secretVars => Typed'
<1> SUFFICES ASSUME Typed, [SecretNext]_secretVars PROVE Typed'
  OBVIOUS
<1>1. CASE UNCHANGED secretVars
  <2>1. \A c \in Clients : requests[c] = NoRequest \/ Placed(requests[c])'
    BY <1>1 DEF secretVars, Typed, Placed, Fit
  <2> QED BY <1>1, <2>1 DEF secretVars, Typed
<1>2. ASSUME NEW c \in Clients, Step(c) PROVE Typed'
  BY <1>2, TypedSweep, TypedRead, TypedBackfill, TypedCreate, TypedPut, TypedPending, TypedLabel, TypedMove DEF Step
<1>3. ASSUME NEW c \in Clients, Fail(c) PROVE Typed'
  BY <1>3, TypedRead
<1> QED BY <1>1, <1>2, <1>3, TypedBegin, TypedElapse DEF SecretNext

\* Every row, version and request stays of its type: a version's number is within the
\* bound and its value sealed under an id, whichever of the handlers wrote it
\* (secrets_versions.go:432-463), and the labels still to write are those of version rows.
THEOREM SecretTypes == SecretSpec => []SecretTypeOK
<1>1. SecretInit => Typed
  BY TypedInit
<1>2. Typed /\ [SecretNext]_secretVars => Typed'
  BY TypedStep
<1>3. Typed => SecretTypeOK
  BY DEF Typed, SecretTypeOK
<1> QED BY <1>1, <1>2, <1>3, PTL DEF SecretSpec

-----------------------------------------------------------------------------
(* Versions are sealed under their own ids.                                *)

\* The secret is gone, or a deletion took its versions.
Gone == torn \/ secret = None

\* Phases before a request knows that there are versions.
Early == {"createSecret", "createVersion", "sweepVersions", "sweepSecret", "ensure", "ensureRead", "backfill"}

\* The secret as CreateSecret made it.
Original(row) == row.version = 1 /\ row.sealed.id = 1

\* A secret without versions is as it was made: whoever changes it has seen a version
\* of it, and only a deletion takes that away.
SealInv ==
    /\ begun = 0 => secret = None /\ Listed = {} /\ \A c \in Clients : requests[c] = NoRequest
    /\ \A c \in Clients : At(c, "createSecret") =>
         secret = None /\ Listed = {} /\ \A d \in Clients \ {c} : requests[d] = NoRequest
    /\ Readable
    /\ Gone \/ Listed # {} \/ Original(secret)
    /\ \A c \in Clients : requests[c] = NoRequest \/ requests[c].pc \in Early \/ Gone \/ Listed # {}
    /\ \A c \in Clients : At(c, "backfill") => requests[c].late \/ Original(requests[c].row)

\* What a step of one request must keep.
LEMMA SealMoved ==
    ASSUME Typed, SealInv, NEW c \in Clients, requests[c] # NoRequest,
           NEW q, requests' = [requests EXCEPT ![c] = q], begun' = begun,
           q = NoRequest \/ q.pc # "createSecret",
           Gone => Gone',
           \A i \in Listed' \ astray' : versions'[i].sealed.id = i,
           Gone' \/ Listed' # {} \/ Original(secret'),
           Gone' \/ Listed = {} \/ Listed' # {},
           q = NoRequest \/ q.pc \in Early \/ Gone' \/ Listed' # {},
           q.pc = "backfill" => q.late \/ Original(q.row)
    PROVE  SealInv'
<1>1. \A d \in Clients : requests'[d] = IF d = c THEN q ELSE requests[d]
  BY DEF Typed
<1>2. begun' # 0
  BY DEF SealInv
<1>3. \A d \in Clients : requests'[d].pc # "createSecret"
  <2>1. \A d \in Clients \ {c} : requests[d].pc # "createSecret"
    BY DEF SealInv, At
  <2> QED BY <1>1, <2>1 DEF NoRequest
<1>4. \A d \in Clients : requests'[d] = NoRequest \/ requests'[d].pc \in Early \/ Gone' \/ Listed' # {}
  BY <1>1 DEF SealInv
<1>5. \A d \in Clients : requests'[d].pc = "backfill" => requests'[d].late \/ Original(requests'[d].row)
  BY <1>1 DEF SealInv, At
<1>6. \A d \in Clients : requests'[d].pc = "backfill" => requests'[d].late \/ Original(requests[d].row)'
  BY <1>5 DEF Original
<1>7. Gone' \/ Listed' # {} \/ Original(secret)'
  BY DEF Original
<1> QED BY <1>2, <1>3, <1>4, <1>6, <1>7 DEF SealInv, Readable, At

\* A request that has seen versions does not go back to making the secret or its first version.
LEMMA LateGoesOn ==
    ASSUME Typed, NEW c \in Clients, requests[c].pc \notin Early, Step(c)
    PROVE  \E q : /\ requests' = [requests EXCEPT ![c] = q]
                  /\ q = NoRequest \/ q.pc \notin {"createSecret", "createVersion", "sweepVersions", "backfill"}
<1> DEFINE r == requests[c]
           Late(pc) == pc \notin {"createSecret", "createVersion", "sweepVersions", "backfill"}
           Goal == \E q : requests' = [requests EXCEPT ![c] = q] /\ (q = NoRequest \/ Late(q.pc))
<1>1. ASSUME NEW pc, Late(pc), Goto(c, pc), r \in Request PROVE Goal
  <2>1. [r EXCEPT !.pc = pc].pc = pc
    BY <1>1, RequestIs
  <2> QED BY <1>1, <2>1 DEF Goto, Update
<1>2. Return(c) => Goal
  BY DEF Return, Update
<1>3. ASSUME NEW id, Complete(c, id) PROVE Goal
  BY <1>3 DEF Complete
<1>4. ASSUME NEW q, Update(c, q), q = NoRequest \/ Late(q.pc) PROVE Goal
  BY <1>4 DEF Update
<1>5. ASSUME NEW q \in Request, NEW todo, NEW then, Late(then) PROVE Late(Loop(q, todo, then).pc)
  <2>1. Loop(q, todo, then).pc = IF todo = << >> THEN then ELSE "label"
    BY RequestIs DEF Loop
  <2> QED BY <1>5, <2>1
<1>6. r.pc # "idle" => r \in Request /\ Placed(r)
  BY RequestAt
<1>7. \A pc \in Onward : Late(pc)
  BY DEF Onward
<1> SUFFICES Goal
  OBVIOUS
<1> HIDE DEF Goal
<1>8. CASE DeleteSecretWithRecovery(c) \/ RestoreSecret(c) \/ DeleteSecret(c)
  BY <1>2, <1>8 DEF DeleteSecretWithRecovery, RestoreSecret, DeleteSecret
<1>9. CASE DeleteVersions(c)
  BY <1>1, <1>6, <1>9 DEF DeleteVersions, At
<1>10. CASE Load(c)
  <2>1. r \in Request
    BY <1>6, <1>10 DEF Load, At
  <2>2. Late(Loaded(r).pc)
    <3>1. CASE r.op = "put"
      <4>1. Loaded(r) = [r EXCEPT !.pc = "putSecret", !.num = secret.version + 1, !.to = secret.version + 1]
        BY <3>1 DEF Loaded
      <4> QED BY <2>1, <4>1, RequestIs
    <3>2. CASE r.op \in {"putCurrent", "putPending", "putStages", "rotate", "move"}
      <4>1. PICK q, then : Loaded(r) = Via(q, "ensure", then) /\ "pc" \in DOMAIN q
        <5>1. CASE r.op = "putCurrent"
          <6>1. Loaded(r) = Via([r EXCEPT !.op = "put"], "ensure", "load")
            BY <5>1 DEF Loaded
          <6>2. "pc" \in DOMAIN [r EXCEPT !.op = "put"]
            BY <2>1, RequestIs
          <6> QED BY <6>1, <6>2
        <5>2. CASE r.op = "putPending"
          <6>1. Loaded(r) = Via([r EXCEPT !.to = Named(r)], "ensure", "pendingLoad")
            BY <5>2 DEF Loaded
          <6>2. "pc" \in DOMAIN [r EXCEPT !.to = Named(r)]
            BY <2>1, RequestIs
          <6> QED BY <6>1, <6>2
        <5>3. CASE r.op = "putStages"
          <6>1. Loaded(r) = Via([r EXCEPT !.num = secret.version + 1, !.to = Named(r)], "ensure", "again")
            BY <5>3 DEF Loaded
          <6>2. "pc" \in DOMAIN [r EXCEPT !.num = secret.version + 1, !.to = Named(r)]
            BY <2>1, RequestIs
          <6> QED BY <6>1, <6>2
        <5>4. CASE r.op \in {"rotate", "move"}
          <6>1. \E then : Loaded(r) = Via(r, "ensure", then)
            BY <5>4 DEF Loaded
          <6>2. "pc" \in DOMAIN r
            BY <2>1, RequestIs
          <6> QED BY <6>1, <6>2
        <5> QED BY <3>2, <5>1, <5>2, <5>3, <5>4
      <4>2. Via(q, "ensure", then).pc = "ensure"
        BY <4>1 DEF Via
      <4> QED BY <4>1, <4>2
    <3>3. CASE r.op \notin {"put", "putCurrent", "putPending", "putStages", "rotate", "move"}
      <4>1. Loaded(r) = [r EXCEPT !.pc = r.op]
        BY <3>3 DEF Loaded
      <4>2. Loaded(r).pc = r.op /\ r.op \in Ops
        BY <2>1, <4>1, RequestIs
      <4> QED BY <3>3, <4>2 DEF Ops, Puts, Unconditional
    <3> QED BY <3>1, <3>2, <3>3
  <2> QED BY <1>2, <1>4, <1>10, <2>2 DEF Load
<1>11. CASE Label(c)
  <2>1. r \in Request /\ Late(r.then)
    BY <1>6, <1>7, <1>11 DEF Label, At, Placed, Passing
  <2>2. PICK id, todo : WriteStages(c, id, r.todo[id], Loop(r, todo, r.then))
    BY <1>11 DEF Label
  <2>3. Return(c) \/ Update(c, Loop(r, todo, r.then))
    BY <2>2 DEF WriteStages
  <2> QED BY <1>2, <1>4, <1>5, <2>1, <2>3
<1>12. CASE PutSecret(c)
  <2>1. r \in Request /\ Update(c, Via(r, "ensure", "putList"))
    BY <1>6, <1>12 DEF PutSecret, At
  <2>2. Via(r, "ensure", "putList").pc = "ensure"
    BY <2>1, RequestIs DEF Via
  <2> QED BY <1>4, <2>1, <2>2
<1>13. CASE PutList(c) \/ PreviousList(c) \/ OnlyPreviousList(c)
  <2>1. r \in Request
    BY <1>6, <1>13 DEF PutList, PreviousList, OnlyPreviousList, At
  <2>2. \E todo : \E then \in {"putRecord", "syncRead", "onlyPreviousList"} : Update(c, Loop(r, todo, then))
    BY <1>13 DEF PutList, PreviousList, OnlyPreviousList
  <2> QED BY <1>4, <1>5, <2>1, <2>2
<1>14. CASE PutRecord(c) \/ OrphanCheck(c)
  <2>1. r \in Request
    BY <1>6, <1>14 DEF PutRecord, OrphanCheck, At
  <2>2. Return(c) \/ \E pc \in {"putInsert", "putLabel", "pendingLoad"} : Goto(c, pc)
    BY <1>14 DEF PutRecord, OrphanCheck
  <2> QED BY <1>1, <1>2, <2>1, <2>2
<1>15. CASE PutLabel(c) \/ PutInsert(c) \/ PutParent(c)
  <2>1. r \in Request
    BY <1>6, <1>15 DEF PutLabel, PutInsert, PutParent, At
  <2>2. Return(c) \/ Complete(c, r.to) \/ Goto(c, "putParent")
    BY <1>15 DEF PutLabel, PutInsert, PutParent, Recorded, Conflict
  <2> QED BY <1>1, <1>2, <1>3, <2>1, <2>2
<1>16. CASE PendingLoad(c)
  <2>1. r \in Request
    BY <1>6, <1>16 DEF PendingLoad, At
  <2>2. [r EXCEPT !.pc = "pendingInsert", !.num = secret.version + 1].pc = "pendingInsert"
    BY <2>1, RequestIs
  <2> QED BY <1>2, <1>4, <1>16, <2>2 DEF PendingLoad
<1>17. CASE PendingInsert(c) \/ PendingBump(c)
  <2>1. r \in Request
    BY <1>6, <1>17 DEF PendingInsert, PendingBump, At
  <2>2. Return(c) \/ \E pc \in {"pendingBump", "invoke"} : Goto(c, pc)
    BY <1>17 DEF PendingInsert, PendingBump, Conflict
  <2> QED BY <1>1, <1>2, <2>1, <2>2
<1>18. CASE Promote(c)
  <2> DEFINE from == IF Holders("AWSCURRENT") = {} THEN None ELSE FirstOf(Holders("AWSCURRENT"))
             q == [r EXCEPT !.pc = "load", !.label = "AWSCURRENT", !.from = from]
  <2>1. r \in Request /\ Update(c, q)
    BY <1>6, <1>18 DEF Promote, At
  <2> HIDE DEF from
  <2>2. q.pc = "load"
    BY <2>1, RequestIs
  <2> HIDE DEF q
  <2> QED BY <1>4, <2>1, <2>2
<1>19. CASE RemoveRead(c) \/ AddRead(c) \/ SyncRead(c)
  <2>1. r \in Request
    BY <1>6, <1>19 DEF RemoveRead, AddRead, SyncRead, At
  <2>2. Return(c) \/ (\E pc \in {"removeWrite", "addWrite"} : \E stages : Update(c, [r EXCEPT !.pc = pc, !.stages = stages]))
                  \/ \E row : Update(c, [r EXCEPT !.pc = "syncWrite", !.row = row])
    BY <1>19 DEF RemoveRead, AddRead, SyncRead
  <2>3. \A pc, stages : [r EXCEPT !.pc = pc, !.stages = stages].pc = pc
    BY <2>1, RequestIs
  <2>4. \A row : [r EXCEPT !.pc = "syncWrite", !.row = row].pc = "syncWrite"
    BY <2>1, RequestIs
  <2> QED BY <1>2, <1>4, <2>2, <2>3, <2>4
<1>20. CASE RemoveWrite(c)
  <2> DEFINE q == IF r.to = None THEN NoRequest ELSE [r EXCEPT !.pc = "addRead"]
  <2>1. r \in Request /\ (Return(c) \/ Update(c, q))
    BY <1>6, <1>20 DEF RemoveWrite, WriteStages, At
  <2>2. q = NoRequest \/ q.pc = "addRead"
    BY <2>1, RequestIs
  <2> HIDE DEF q
  <2> QED BY <1>2, <1>4, <2>1, <2>2
<1>21. CASE AddWrite(c)
  <2> DEFINE q == IF r.label = "AWSCURRENT" THEN [r EXCEPT !.pc = "previousList", !.stages = {}] ELSE NoRequest
  <2>1. r \in Request /\ (Return(c) \/ Update(c, q))
    BY <1>6, <1>21 DEF AddWrite, WriteStages, At
  <2>2. q = NoRequest \/ q.pc = "previousList"
    BY <2>1, RequestIs
  <2> HIDE DEF q
  <2> QED BY <1>2, <1>4, <2>1, <2>2
<1>24. CASE Again(c)
  <2>1. r \in Request
    BY <1>6, <1>24 DEF Again, At
  <2>2. \E then : Update(c, Via(r, "ensure", then))
    BY <1>24 DEF Again
  <2>3. \A then : Via(r, "ensure", then).pc = "ensure"
    BY <2>1, RequestIs DEF Via
  <2> QED BY <1>4, <2>2, <2>3
<1>22. CASE SyncWrite(c)
  BY <1>3, <1>22 DEF SyncWrite
<1>23. CASE SweepVersions(c) \/ SweepSecret(c) \/ Ensure(c) \/ EnsureRead(c) \/ Backfill(c) \/ CreateSecret(c) \/ CreateVersion(c)
  BY <1>23 DEF SweepVersions, SweepSecret, Ensure, EnsureRead, Backfill, CreateSecret, CreateVersion, At, Early
<1> QED
  BY <1>8, <1>9, <1>10, <1>11, <1>12, <1>13, <1>14, <1>15, <1>16, <1>17, <1>18, <1>19, <1>20, <1>21, <1>22, <1>23, <1>24 DEF Step

\* Writing labels keeps which versions there are and what they hold.
LEMMA StagesWritten ==
    ASSUME Typed, NEW id \in Ids, versions[id] # None, NEW stages \in SUBSET Labels,
           versions' = [versions EXCEPT ![id].stages = stages]
    PROVE  /\ Listed' = Listed
           /\ \A i \in Ids : versions'[i] = IF i = id THEN [versions[id] EXCEPT !.stages = stages] ELSE versions[i]
           /\ \A i \in Listed : /\ versions'[i].sealed = versions[i].sealed /\ versions'[i].num = versions[i].num
                                /\ versions'[i].stages = IF i = id THEN stages ELSE versions[i].stages
<1>1. \A i \in Ids : versions'[i] = IF i = id THEN [versions[id] EXCEPT !.stages = stages] ELSE versions[i]
  BY DEF Typed
<1>2. versions[id] \in Version
  BY DEF Typed
<1>3. /\ [versions[id] EXCEPT !.stages = stages] \in Version
      /\ [versions[id] EXCEPT !.stages = stages].sealed = versions[id].sealed
      /\ [versions[id] EXCEPT !.stages = stages].num = versions[id].num
      /\ [versions[id] EXCEPT !.stages = stages].stages = stages
  BY <1>2 DEF Version
<1>4. None \notin Version
  BY NoneAssumption
<1>5. Listed' = Listed
  BY <1>1, <1>3, <1>4 DEF Listed
<1>6. \A i \in Listed : i \in Ids
  BY DEF Listed
<1>7. versions'[id].sealed = versions[id].sealed /\ versions'[id].num = versions[id].num /\ versions'[id].stages = stages
  BY <1>1, <1>3
<1>8. \A i \in Listed : i # id => versions'[i] = versions[i]
  BY <1>1, <1>6
<1>9. \A i \in Listed : /\ versions'[i].sealed = versions[i].sealed /\ versions'[i].num = versions[i].num
                        /\ versions'[i].stages = IF i = id THEN stages ELSE versions[i].stages
  <2> TAKE i \in Listed
  <2>1. CASE i = id
    BY <1>7, <2>1
  <2>2. CASE i # id
    BY <1>8, <2>2
  <2> QED BY <2>1, <2>2
<1> QED BY <1>1, <1>5, <1>9

\* A new version is listed and holds what was sealed.
LEMMA VersionInserted ==
    ASSUME Typed, NEW id \in Ids, NEW num \in 1..MaxVersion, NEW sealed \in Sealed, NEW stages \in SUBSET Labels,
           Insert(id, NewVersion(num, sealed, stages))
    PROVE  /\ Listed' = Listed \cup {id} /\ id \notin Listed
           /\ \A i \in Listed : versions'[i] = versions[i]
           /\ versions'[id].sealed = sealed /\ versions'[id].stages = stages
<1>1. versions[id] = None /\ \A i \in Ids : versions'[i] = IF i = id THEN NewVersion(num, sealed, stages) ELSE versions[i]
  BY DEF Insert, Typed
<1>2. NewVersion(num, sealed, stages) \in Version
  BY DEF NewVersion, Version
<1>3. NewVersion(num, sealed, stages) # None
  BY <1>2, NoneAssumption
<1>4. NewVersion(num, sealed, stages).sealed = sealed /\ NewVersion(num, sealed, stages).stages = stages
  BY DEF NewVersion
<1> QED BY <1>1, <1>3, <1>4 DEF Listed

\* What the statements of a request that has seen versions do to the rows.
LEMMA LateRows ==
    ASSUME Typed, NEW c \in Clients, requests[c].pc \notin Early, Step(c)
    PROVE  /\ begun' = begun
           /\ Gone => Gone'
           /\ Gone' \/ Listed = {} \/ Listed' # {}
           /\ (\A i \in Listed \ astray : versions[i].sealed.id = i)
                => \A i \in Listed' \ astray' : versions'[i].sealed.id = i
<1> DEFINE r == requests[c]
           Goal == /\ begun' = begun
                   /\ Gone => Gone'
                   /\ Gone' \/ Listed = {} \/ Listed' # {}
                   /\ (\A i \in Listed \ astray : versions[i].sealed.id = i)
                        => \A i \in Listed' \ astray' : versions'[i].sealed.id = i
<1> SUFFICES Goal
  OBVIOUS
<1>1. ASSUME UNCHANGED <<begun, torn, astray, versions>>, secret = None => secret' = None
      PROVE  Goal
  BY <1>1 DEF Gone, Listed
<1>2. ASSUME UNCHANGED begun, torn' \/ secret' = None, Listed' = {} \/ UNCHANGED <<versions, astray>> PROVE Goal
  BY <1>2 DEF Gone, Listed
<1>3. ASSUME NEW id \in Ids, NEW stages \in SUBSET Labels, versions[id] # None,
             versions' = [versions EXCEPT ![id].stages = stages], UNCHANGED <<secret, begun, torn, astray>>
      PROVE  Goal
  <2>1. Listed' = Listed /\ \A i \in Listed : versions'[i].sealed = versions[i].sealed
    BY <1>3, StagesWritten
  <2>2. Gone <=> Gone'
    BY <1>3 DEF Gone
  <2> QED BY <1>3, <2>1, <2>2
<1>4. ASSUME NEW id \in Ids, NEW num \in 1..MaxVersion, NEW sealed \in Sealed, NEW stages \in SUBSET Labels,
             Insert(id, NewVersion(num, sealed, stages)), sealed.id = id, UNCHANGED <<secret, begun, torn, astray>>
      PROVE  Goal
  BY <1>4, VersionInserted DEF Gone
<1>5. r.pc # "idle" => r \in Request /\ Placed(r)
  BY RequestAt
<1> HIDE DEF Goal
<1>6. CASE \/ Load(c) \/ Again(c) \/ PutList(c) \/ PutRecord(c) \/ OrphanCheck(c) \/ PendingLoad(c) \/ Promote(c)
           \/ RemoveRead(c) \/ AddRead(c) \/ PreviousList(c) \/ OnlyPreviousList(c) \/ SyncRead(c)
  BY <1>1, <1>6
     DEF Load, Again, PutList, PutRecord, OrphanCheck, PendingLoad, Promote, RemoveRead, AddRead, PreviousList, OnlyPreviousList,
         SyncRead
<1>7. CASE DeleteSecretWithRecovery(c) \/ RestoreSecret(c) \/ PutSecret(c) \/ SyncWrite(c) \/ PendingBump(c) \/ PutParent(c)
  BY <1>1, <1>7 DEF DeleteSecretWithRecovery, RestoreSecret, PutSecret, SyncWrite, PendingBump, PutParent, Bumped
<1>8. CASE DeleteVersions(c) \/ DeleteSecret(c)
  <2>1. DeleteVersions(c) => Listed' = {}
    BY DEF DeleteVersions, Listed
  <2> QED BY <1>2, <1>8, <2>1 DEF DeleteVersions, DeleteSecret
<1>9. CASE Label(c)
  <2>1. r \in Request
    BY <1>5, <1>9 DEF Label, At
  <2>2. PICK id \in DOMAIN r.todo : \E q : WriteStages(c, id, r.todo[id], q)
    BY <1>9 DEF Label
  <2>3. id \in Ids /\ r.todo[id] \in SUBSET Labels
    <3>1. r.todo \in Todos
      BY <2>1, RequestIs
    <3> QED BY <3>1 DEF Todos
  <2>4. UNCHANGED <<secret, begun, torn, astray>>
    BY <1>9 DEF Label
  <2> HIDE DEF r
  <2> QED BY <1>1, <1>3, <2>2, <2>3, <2>4 DEF WriteStages
<1>10. CASE RemoveWrite(c)
  <2>1. r.from \in Ids /\ r.stages \in SUBSET Labels
    BY <1>5, <1>10, WriterHas DEF RemoveWrite, At, Placed, Fit
  <2>2. (\E q : WriteStages(c, r.from, r.stages, q)) /\ UNCHANGED <<secret, begun, torn, astray>>
    BY <1>10 DEF RemoveWrite
  <2> HIDE DEF r
  <2> QED BY <1>1, <1>3, <2>1, <2>2 DEF WriteStages
<1>11. CASE AddWrite(c)
  <2>1. r.to \in Ids /\ r.stages \in SUBSET Labels
    BY <1>5, <1>11, WriterHas DEF AddWrite, At, Placed, Fit
  <2>2. (\E q : WriteStages(c, r.to, r.stages, q)) /\ UNCHANGED <<secret, begun, torn, astray>>
    BY <1>11 DEF AddWrite
  <2> HIDE DEF r
  <2> QED BY <1>1, <1>3, <2>1, <2>2 DEF WriteStages
<1>12. CASE PutLabel(c)
  <2>1. r.to \in Ids /\ r.stages \in SUBSET Labels
    BY <1>5, <1>12, WriterHas DEF PutLabel, At, Placed, Fit
  <2>2. UNCHANGED <<secret, begun, torn, astray>> /\
        \/ UNCHANGED versions
        \/ versions[r.to] # None /\ versions' = [versions EXCEPT ![r.to].stages = r.stages]
    BY <1>12 DEF PutLabel
  <2> HIDE DEF r
  <2> QED BY <1>1, <1>3, <2>1, <2>2
<1>13. CASE PutInsert(c)
  <2>1. r.to \in Ids /\ r.num \in 1..MaxVersion /\ r.stages \in SUBSET Labels /\ r.value \in Nat
    BY <1>5, <1>13, WriterHas DEF PutInsert, At, Placed, Fit
  <2>2. Seal(r.value, r.to) \in Sealed /\ Seal(r.value, r.to).id = r.to
    BY <2>1 DEF Seal, Sealed
  <2>3. \/ Insert(r.to, NewVersion(r.num, Seal(r.value, r.to), r.stages)) /\ UNCHANGED <<secret, begun, torn, astray>>
        \/ UNCHANGED <<secret, versions, begun, torn, astray>>
    BY <1>13 DEF PutInsert, Conflict
  <2> HIDE DEF r
  <2> QED BY <1>1, <1>4, <2>1, <2>2, <2>3
<1>14. CASE PendingInsert(c)
  <2>1. r.to \in Ids /\ r.num \in 1..MaxVersion /\ {"AWSPENDING"} \in SUBSET Labels /\ r.value \in Nat
    BY <1>5, <1>14, WriterHas DEF PendingInsert, At, Placed, Fit, Labels
  <2>2. PendingSeal(r) \in Sealed /\ PendingSeal(r).id = r.to
    BY <2>1 DEF PendingSeal, Seal, Sealed
  <2>3. \/ Insert(r.to, NewVersion(r.num, PendingSeal(r), {"AWSPENDING"})) /\ UNCHANGED <<secret, begun, torn, astray>>
        \/ UNCHANGED <<secret, versions, begun, torn, astray>>
    BY <1>14 DEF PendingInsert, Conflict
  <2> HIDE DEF r
  <2> QED BY <1>1, <1>4, <2>1, <2>2, <2>3
<1>15. CASE SweepVersions(c) \/ SweepSecret(c) \/ Ensure(c) \/ EnsureRead(c) \/ Backfill(c) \/ CreateSecret(c) \/ CreateVersion(c)
  BY <1>15 DEF SweepVersions, SweepSecret, Ensure, EnsureRead, Backfill, CreateSecret, CreateVersion, At, Early
<1> QED
  BY <1>6, <1>7, <1>8, <1>9, <1>10, <1>11, <1>12, <1>13, <1>14, <1>15 DEF Step

LEMMA SealLate ==
    ASSUME Typed, SealInv, NEW c \in Clients, requests[c].pc \notin Early, Step(c)
    PROVE  SealInv'
<1>1. PICK q : /\ requests' = [requests EXCEPT ![c] = q]
               /\ q = NoRequest \/ q.pc \notin {"createSecret", "createVersion", "sweepVersions", "backfill"}
  BY LateGoesOn
<1>2. requests[c] # NoRequest
  <2>1. requests[c].pc # "idle"
    BY DEF Step, At, SweepVersions, SweepSecret, Ensure, EnsureRead, Backfill, CreateSecret, CreateVersion, Load, Again,
           DeleteSecretWithRecovery, RestoreSecret, DeleteVersions, DeleteSecret, Label, PutSecret, PutList, PutRecord,
           PutLabel, PutInsert, PutParent, OrphanCheck, PendingLoad, PendingInsert, PendingBump, Promote, RemoveRead, RemoveWrite,
           AddRead, AddWrite, PreviousList, OnlyPreviousList, SyncRead, SyncWrite
  <2> QED BY <2>1 DEF NoRequest
<1>3. Gone \/ Listed # {}
  BY <1>2 DEF SealInv
<1>4. /\ begun' = begun
      /\ Gone => Gone'
      /\ Gone' \/ Listed' # {}
      /\ \A i \in Listed' \ astray' : versions'[i].sealed.id = i
  BY <1>3, LateRows DEF SealInv, Readable
<1>5. q = NoRequest \/ q.pc # "createSecret"
  BY <1>1
<1>6. q.pc = "backfill" => FALSE
  BY <1>1 DEF NoRequest
<1> QED BY <1>1, <1>2, <1>4, <1>5, <1>6, SealMoved

LEMMA SealEarly ==
    ASSUME Typed, SealInv, NEW c \in Clients,
           \/ SweepVersions(c) \/ SweepSecret(c) \/ Ensure(c) \/ EnsureRead(c) \/ Backfill(c) \/ CreateVersion(c)
    PROVE  SealInv'
<1> DEFINE r == requests[c]
<1>1. r \in Request /\ Placed(r) /\ r # NoRequest /\ r.pc \in Early \ {"createSecret"}
  BY RequestAt DEF SweepVersions, SweepSecret, Ensure, EnsureRead, Backfill, CreateVersion, At, Early, NoRequest
<1>2. \A pc : [r EXCEPT !.pc = pc].pc = pc
  BY <1>1, RequestIs
<1>3. CASE SweepVersions(c) \/ SweepSecret(c)
  <2>1. PICK pc \in {"sweepSecret", "ensure"} : requests' = [requests EXCEPT ![c] = [r EXCEPT !.pc = pc]]
    BY <1>3 DEF SweepVersions, SweepSecret, Goto, Update
  <2> DEFINE q == [r EXCEPT !.pc = pc]
  <2>2. q.pc \in {"sweepSecret", "ensure"}
    BY <1>2
  <2>3. begun' = begun
    BY <1>3 DEF SweepVersions, SweepSecret
  <2>4. CASE SweepVersions(c)
    <3>1. Gone' /\ Listed' = {}
      BY <2>4 DEF SweepVersions, Gone, Listed
    <3> HIDE DEF q
    <3> QED BY <1>1, <2>1, <2>2, <2>3, <3>1, SealMoved DEF Early, q
  <2>5. CASE SweepSecret(c)
    <3>1. versions' = versions /\ astray' = astray /\ (secret' = None \/ (secret' = secret /\ torn' = torn))
      BY <2>5 DEF SweepSecret, Typed
    <3>2. Gone' \/ (~Gone /\ UNCHANGED <<secret, versions>>) \/ (Gone' /\ Gone)
      BY <3>1 DEF Gone
    <3>3. \A i \in Listed' \ astray' : versions'[i].sealed.id = i
      BY <3>1 DEF SealInv, Readable, Listed
    <3>4. Gone' \/ Listed' # {} \/ Original(secret')
      BY <3>1, <3>2 DEF SealInv, Listed
    <3>5. Gone' \/ Listed = {} \/ Listed' # {}
      BY <3>1 DEF Listed
    <3>6. q.pc \in Early /\ q.pc # "createSecret" /\ q.pc # "backfill"
      BY <2>2 DEF Early
    <3>7. Gone => Gone'
      BY <3>2
    <3> HIDE DEF q
    <3> QED BY <1>1, <2>1, <2>3, <3>3, <3>4, <3>5, <3>6, <3>7, SealMoved DEF q
  <2> QED BY <1>3, <2>4, <2>5
<1>4. CASE Ensure(c)
  <2>1. UNCHANGED <<secret, versions, begun, torn, astray>>
    BY <1>4 DEF Ensure
  <2>2. /\ begun' = begun /\ (Gone <=> Gone') /\ Listed' = Listed
        /\ \A i \in Listed' \ astray' : versions'[i].sealed.id = i
        /\ Gone' \/ Listed' # {} \/ Original(secret')
    BY <2>1 DEF Gone, Listed, SealInv, Readable
  <2>3. r.then \in Onward
    BY <1>1, <1>4 DEF Ensure, At, Placed, Passing
  <2>4. PICK q : /\ requests' = [requests EXCEPT ![c] = q]
                 /\ \/ Listed # {} /\ q.pc = r.then
                    \/ q.pc = "ensureRead"
    BY <1>2, <1>4 DEF Ensure, Goto, Update
  <2>5. q.pc \notin {"createSecret", "backfill"} /\ (q.pc \in Early \/ Listed # {})
    BY <2>3, <2>4 DEF Onward, Early
  <2> HIDE DEF r
  <2> QED BY <1>1, <2>2, <2>4, <2>5, SealMoved DEF r
<1>7. CASE EnsureRead(c)
  <2>1. UNCHANGED <<secret, versions, begun, torn, astray>>
    BY <1>7 DEF EnsureRead
  <2>2. /\ begun' = begun /\ (Gone <=> Gone') /\ Listed' = Listed
        /\ \A i \in Listed' \ astray' : versions'[i].sealed.id = i
        /\ Gone' \/ Listed' # {} \/ Original(secret')
    BY <2>1 DEF Gone, Listed, SealInv, Readable
  <2> DEFINE late == torn \/ Listed # {}
             q == [r EXCEPT !.pc = "backfill", !.row = secret, !.late = late]
  <2>3. CASE secret = None
    <3>1. requests' = [requests EXCEPT ![c] = NoRequest]
      BY <1>7, <2>3 DEF EnsureRead, Return, Update
    <3>2. NoRequest.pc # "backfill"
      BY DEF NoRequest
    <3> QED BY <1>1, <2>2, <3>1, <3>2, SealMoved
  <2>4. CASE secret # None
    <3>1. requests' = [requests EXCEPT ![c] = q]
      BY <1>7, <2>4 DEF EnsureRead, Update
    <3>2. late \/ Original(secret)
      BY <2>4 DEF SealInv, Gone
    <3> HIDE DEF late
    <3>3. q.pc = "backfill" /\ q.row = secret /\ q.late = late
      BY <1>1, RequestIs
    <3> HIDE DEF q
    <3>4. q.late \/ Original(q.row)
      BY <3>2, <3>3
    <3>5. q.pc \in Early /\ q.pc # "createSecret"
      BY <3>3 DEF Early
    <3> QED BY <1>1, <2>2, <3>1, <3>4, <3>5, SealMoved
  <2> QED BY <2>3, <2>4
<1>5. CASE Backfill(c)
  <2> DEFINE q == [r EXCEPT !.pc = r.then, !.row = None, !.late = FALSE]
  <2>1. r.then \in Onward /\ r.row # None
    BY <1>1, <1>5 DEF Backfill, At, Placed, Passing
  <2>2. q.pc = r.then
    BY <1>1, RequestIs
  <2>3. CASE Conflict(c, r.row.version)
    <3>1. requests' = [requests EXCEPT ![c] = NoRequest] /\ UNCHANGED <<secret, versions, begun, torn, astray>>
      BY <2>3 DEF Conflict, Return, Update
    <3>2. /\ begun' = begun /\ (Gone <=> Gone') /\ Listed' = Listed
          /\ \A i \in Listed' \ astray' : versions'[i].sealed.id = i
          /\ Gone' \/ Listed' # {} \/ Original(secret')
      BY <3>1 DEF Gone, Listed, SealInv, Readable
    <3> QED BY <1>1, <3>1, <3>2, SealMoved DEF NoRequest
  <2>4. CASE /\ Insert(r.row.version, NewVersion(r.row.version, r.row.sealed, {"AWSCURRENT"}))
             /\ astray' = (IF r.late THEN astray \cup {r.row.version} ELSE astray)
             /\ Update(c, q) /\ UNCHANGED <<secret, begun, torn>>
    <3>1. /\ r.row.version \in Ids /\ r.row.version \in 1..MaxVersion /\ r.row.sealed \in Sealed
          /\ {"AWSCURRENT"} \in SUBSET Labels
      BY <1>1, <2>1, WriterHas DEF Labels, Early
    <3>2. r.late \/ r.row.sealed.id = r.row.version
      BY <1>5 DEF SealInv, Backfill, Original
    <3>3. Gone <=> Gone'
      BY <2>4 DEF Gone
    <3>4. Listed' # {} /\ \A i \in Listed' \ astray' : versions'[i].sealed.id = i
      <4> DEFINE id == r.row.version
                 sealed == r.row.sealed
      <4>1. Insert(id, NewVersion(id, sealed, {"AWSCURRENT"}))
        BY <2>4
      <4>2. /\ id \in Ids /\ id \in 1..MaxVersion /\ sealed \in Sealed
            /\ (sealed.id = id /\ astray' = astray) \/ astray' = astray \cup {id}
        BY <2>4, <3>1, <3>2
      <4> HIDE DEF id, sealed
      <4>3. /\ Listed' = Listed \cup {id} /\ \A i \in Listed : versions'[i] = versions[i]
            /\ versions'[id].sealed = sealed
        BY <3>1, <4>1, <4>2, VersionInserted
      <4> QED BY <4>2, <4>3 DEF SealInv, Readable
    <3>5. q.pc # "createSecret" /\ q.pc # "backfill"
      BY <2>1, <2>2 DEF Onward
    <3>6. requests' = [requests EXCEPT ![c] = q] /\ begun' = begun
      BY <2>4 DEF Update
    <3> HIDE DEF q
    <3> QED BY <1>1, <3>3, <3>4, <3>5, <3>6, SealMoved
  <2> QED BY <1>5, <2>3, <2>4 DEF Backfill
<1>6. CASE CreateVersion(c)
  <2>1. requests' = [requests EXCEPT ![c] = NoRequest] /\ UNCHANGED <<secret, begun, torn, astray>>
    BY <1>6 DEF CreateVersion, Complete, Conflict, Return, Update
  <2>2. (Gone <=> Gone') /\ begun' = begun
    BY <2>1 DEF Gone
  <2>3. CASE versions' = versions
    <3>1. /\ \A i \in Listed' \ astray' : versions'[i].sealed.id = i
          /\ Gone' \/ Listed' # {} \/ Original(secret')
          /\ Listed' = Listed
      BY <2>1, <2>2, <2>3 DEF Listed, SealInv, Readable
    <3> QED BY <1>1, <2>1, <2>2, <3>1, SealMoved DEF NoRequest
  <2>4. CASE Insert(1, NewVersion(1, Seal(r.value, 1), {"AWSCURRENT"}))
    <3>1. 1 \in Ids /\ 1 \in 1..MaxVersion /\ r.value \in Nat /\ {"AWSCURRENT"} \in SUBSET Labels
      BY <1>1, WriterHas DEF Labels, Early
    <3> DEFINE sealed == Seal(r.value, 1)
    <3>2. sealed \in Sealed /\ sealed.id = 1
      BY <3>1 DEF Seal, Sealed
    <3>3. Insert(1, NewVersion(1, sealed, {"AWSCURRENT"}))
      BY <2>4
    <3> HIDE DEF sealed
    <3>4. /\ Listed' = Listed \cup {1} /\ \A i \in Listed : versions'[i] = versions[i]
          /\ versions'[1].sealed = sealed
      BY <3>1, <3>2, <3>3, VersionInserted
    <3>5. Listed' # {} /\ \A i \in Listed' \ astray' : versions'[i].sealed.id = i
      BY <2>1, <3>2, <3>4 DEF SealInv, Readable
    <3> QED BY <1>1, <2>1, <2>2, <3>5, SealMoved DEF NoRequest
  <2> QED BY <1>6, <2>3, <2>4 DEF CreateVersion, Conflict
<1> QED BY <1>3, <1>4, <1>5, <1>6, <1>7

LEMMA SealCreate ==
    ASSUME Typed, SealInv, NEW c \in Clients, CreateSecret(c)
    PROVE  SealInv'
<1> DEFINE r == requests[c]
           q == [r EXCEPT !.pc = "createVersion"]
<1>1. r.pc = "createSecret" /\ r \in Request
  BY RequestAt DEF CreateSecret, At
<1>2. Listed = {} /\ \A d \in Clients \ {c} : requests[d] = NoRequest
  BY <1>1 DEF SealInv, At
<1>3. q.pc = "createVersion"
  BY <1>1, RequestIs
<1>4. requests' = [requests EXCEPT ![c] = q] /\ UNCHANGED <<versions, begun, torn, astray>>
  BY DEF CreateSecret, Goto, Update
<1>5. Original(secret')
  BY DEF CreateSecret, Original, Seal
<1>6. Original(secret)'
  BY <1>5 DEF Original
<1>7. Listed' = {} /\ begun' # 0
  BY <1>1, <1>2, <1>4 DEF Listed, SealInv, NoRequest
<1> HIDE DEF q
<1>8. \A d \in Clients : requests'[d] = NoRequest \/ requests'[d].pc = "createVersion"
  BY <1>2, <1>3, <1>4 DEF Typed
<1>9. \A d \in Clients : /\ requests'[d].pc \notin {"createSecret", "backfill"}
                         /\ requests'[d] = NoRequest \/ requests'[d].pc \in Early
  BY <1>8 DEF NoRequest, Early
<1> QED BY <1>6, <1>7, <1>9 DEF SealInv, Readable, At

LEMMA SealBegin ==
    ASSUME Typed, SealInv, NEW c \in Clients, NEW op \in Ops, Arrive(c, op)
    PROVE  SealInv'
<1>1. PICK q : /\ q.pc \in {"createSecret", "sweepVersions", "ensure"} /\ (q.pc = "createSecret" <=> op = "create")
               /\ requests' = [d \in Clients |-> IF d = c THEN q
                                                 ELSE IF requests[d] = NoRequest THEN NoRequest
                                                 ELSE [requests[d] EXCEPT !.solo = FALSE]]
  <2>1. PICK a \in Arguments(op) :
         requests' = [d \in Clients |->
             IF d = c THEN NewRequest(c, op, a)
             ELSE IF requests[d] = NoRequest THEN NoRequest ELSE [requests[d] EXCEPT !.solo = FALSE]]
    BY DEF Arrive
  <2> QED BY <2>1, NewRequestIs
<1>2. begun' # 0 /\ UNCHANGED <<secret, versions, torn, astray>>
  BY DEF Arrive, Typed
<1>3. \A d \in Clients : requests[d] # NoRequest =>
        /\ [requests[d] EXCEPT !.solo = FALSE].pc = requests[d].pc
        /\ [requests[d] EXCEPT !.solo = FALSE].row = requests[d].row
        /\ [requests[d] EXCEPT !.solo = FALSE].late = requests[d].late
  BY RequestIs DEF Typed
<1>4. \A d \in Clients \ {c} : \/ requests[d] = NoRequest /\ requests'[d] = NoRequest
                               \/ /\ requests[d] # NoRequest /\ requests'[d].pc = requests[d].pc
                                  /\ requests'[d].row = requests[d].row /\ requests'[d].late = requests[d].late
  BY <1>1, <1>3
<1>5. (Gone <=> Gone') /\ Listed' = Listed /\ (Original(secret) <=> Original(secret)')
  BY <1>2 DEF Gone, Listed, Original
<1>6. requests'[c].pc \in Early \ {"backfill"} /\ (op # "create" => requests'[c].pc # "createSecret")
  BY <1>1 DEF Early
<1>7. \A d \in Clients : At(d, "createSecret")' =>
        secret' = None /\ Listed' = {} /\ \A e \in Clients \ {d} : requests'[e] = NoRequest
  <2>1. CASE op = "create"
    <3>1. secret = None /\ Listed = {} /\ \A d \in Clients : requests[d] = NoRequest
      BY <2>1 DEF Arrive, SealInv
    <3>2. \A d \in Clients \ {c} : requests'[d] = NoRequest
      BY <1>4, <3>1
    <3> QED BY <1>2, <1>5, <3>1, <3>2 DEF At, NoRequest
  <2>2. CASE op # "create"
    <3>1. \A d \in Clients : ~ At(d, "createSecret")
      BY <2>2 DEF Arrive, SealInv
    <3> QED BY <1>4, <1>6, <2>2, <3>1 DEF At, NoRequest
  <2> QED BY <2>1, <2>2
<1>8. \A d \in Clients : requests'[d] = NoRequest \/ requests'[d].pc \in Early \/ Gone' \/ Listed' # {}
  BY <1>4, <1>5, <1>6 DEF SealInv
<1>9. \A d \in Clients : At(d, "backfill")' => requests'[d].late \/ Original(requests'[d].row)
  BY <1>4, <1>5, <1>6 DEF SealInv, At, NoRequest
<1>10. \A d \in Clients : At(d, "backfill")' => requests'[d].late \/ Original(requests[d].row)'
  BY <1>9 DEF Original
<1>11. /\ Readable'
       /\ Gone' \/ Listed' # {} \/ Original(secret)'
  BY <1>2, <1>5 DEF SealInv, Readable
<1> QED BY <1>2, <1>7, <1>8, <1>10, <1>11 DEF SealInv

LEMMA SealStep == Typed /\ SealInv /\ [SecretNext]_secretVars => SealInv'
<1> SUFFICES ASSUME Typed, SealInv, [SecretNext]_secretVars PROVE SealInv'
  OBVIOUS
<1>1. CASE UNCHANGED secretVars
  <2>1. requests' = requests /\ UNCHANGED <<secret, versions, begun, torn, astray>>
    BY <1>1 DEF secretVars
  <2> QED BY <2>1 DEF SealInv, Gone, Listed, Original, At, Readable
<1>2. ASSUME NEW c \in Clients, Step(c) PROVE SealInv'
  <2>1. CASE requests[c].pc \notin Early
    BY <1>2, <2>1, SealLate
  <2>2. CASE requests[c].pc \in Early
    <3>1. SweepVersions(c) \/ SweepSecret(c) \/ Ensure(c) \/ EnsureRead(c) \/ Backfill(c) \/ CreateVersion(c) \/ CreateSecret(c)
      BY <1>2, <2>2
         DEF Early, Step, At, Load, Again,
           DeleteSecretWithRecovery, RestoreSecret, DeleteVersions, DeleteSecret, Label, PutSecret, PutList, PutRecord,
           PutLabel, PutInsert, PutParent, OrphanCheck, PendingLoad, PendingInsert, PendingBump, Promote, RemoveRead, RemoveWrite,
           AddRead, AddWrite, PreviousList, OnlyPreviousList, SyncRead, SyncWrite
    <3> QED BY <3>1, SealEarly, SealCreate
  <2> QED BY <2>1, <2>2
<1>3. ASSUME NEW c \in Clients, Fail(c) PROVE SealInv'
  <2>1. requests' = [requests EXCEPT ![c] = NoRequest] /\ UNCHANGED <<secret, versions, begun, torn, astray>> /\ requests[c] # NoRequest
    BY <1>3 DEF Fail, Return, Update
  <2>2. /\ begun' = begun /\ (Gone <=> Gone') /\ Listed' = Listed
        /\ \A i \in Listed' \ astray' : versions'[i].sealed.id = i
        /\ Gone' \/ Listed' # {} \/ Original(secret')
    BY <2>1 DEF Gone, Listed, SealInv, Readable
  <2> QED BY <2>1, <2>2, SealMoved DEF NoRequest
<1>4. CASE Elapse
  <2>1. requests' = requests /\ UNCHANGED <<versions, begun, torn, astray>> /\ secret # None
    BY <1>4 DEF Elapse
  <2>2. secret' \in Secret /\ secret'.version = secret.version /\ secret'.sealed = secret.sealed
    BY <1>4 DEF Elapse, Typed, Secret
  <2>3. secret' # None
    BY <2>2, NoneAssumption
  <2>4. (Gone <=> Gone') /\ Listed' = Listed /\ (Original(secret) <=> Original(secret)')
    BY <2>1, <2>2, <2>3 DEF Gone, Listed, Original
  <2>5. \A d \in Clients : Original(requests[d].row) <=> Original(requests[d].row)'
    BY <2>1 DEF Original
  <2>6. \A d \in Clients : ~ At(d, "createSecret")
    BY <2>1 DEF SealInv
  <2> QED BY <2>1, <2>4, <2>5, <2>6 DEF SealInv, Readable, At
<1> QED BY <1>1, <1>2, <1>3, <1>4, SealBegin DEF SecretNext

\* A version can be opened, whatever was interleaved, left unfinished or deleted, but for
\* one a backfill made of a row it read late: the backfill otherwise makes a version only
\* of the secret as CreateSecret made it, because a request that changes the secret has
\* seen a version of it before (secrets_versions.go:382-403, 409-463).
THEOREM VersionsReadable == SecretSpec => []Readable
<1>1. SecretInit => Typed /\ SealInv
  <2>1. SecretInit => SealInv
    BY DEF SecretInit, SealInv, Readable, Gone, Listed, At, NoRequest
  <2> QED BY <2>1, TypedInit
<1>2. Typed /\ SealInv /\ [SecretNext]_secretVars => (Typed /\ SealInv)'
  BY TypedStep, SealStep
<1>3. SealInv => Readable
  BY DEF SealInv
<1> QED BY <1>1, <1>2, <1>3, PTL DEF SecretSpec

-----------------------------------------------------------------------------
(* What a request that ran alone leaves behind.                            *)

\* The version rows there are among v.
Rows(v) == {i \in Ids : v[i] # None}

\* The labels a row will have when the request has been through its list.
Future(r, v, i) == IF i \in DOMAIN r.todo THEN r.todo[i] ELSE v[i].stages

\* No version will be current, and one at most previous.
Cleared(r, v) == \E p \in Ids : \A i \in Rows(v) :
    "AWSCURRENT" \notin Future(r, v, i) /\ ("AWSPREVIOUS" \in Future(r, v, i) => i = p)

\* The version that was put has the labels that were asked for; no other is current,
\* and one other at most previous.
Promoted(r, v) ==
    /\ r.to \in Rows(v) /\ v[r.to].stages = r.stages
    /\ \E p \in Ids : \A i \in Rows(v) \ {r.to} :
         "AWSCURRENT" \notin v[i].stages /\ ("AWSPREVIOUS" \in v[i].stages => i = p)

\* The version that gets the label will be the one current version.
OnlyCurrent(r, v) == r.to \in Rows(v) /\ \A i \in Rows(v) : "AWSCURRENT" \in Future(r, v, i) <=> i = r.to

\* Phases of ensureSecretVersionsBackfilled.
Backfilling == {"ensure", "ensureRead", "backfill"}

\* The request has loaded the secret that it changes.
Beyond(r) ==
    /\ r.op \in {"rotate", "move"}
    /\ r.pc \notin {"sweepVersions", "sweepSecret", "load"}
    /\ r.pc \in Backfilling => r.then # "load"

\* Where a request goes on from the backfill; one that puts no current version reads no list.
Unlisted(r) ==
    {"load", "again", "putList", "orphanCheck", "pendingLoad", "removeRead", "addRead"} \cup
    (IF "AWSCURRENT" \in r.stages THEN {} ELSE {"putRecord"})

\* Where a request that runs alone stands, with the version rows v and the secret's row s.
SoloAt(r, v, s) ==
    /\ r.pc = "createVersion" => Rows(v) = {}
    /\ r.pc \in {"putRecord", "putLabel", "putInsert"} /\ "AWSCURRENT" \in r.stages => Cleared(r, v)
    /\ r.pc = "putParent" /\ "AWSCURRENT" \in r.stages => Promoted(r, v)
    /\ r.pc = "label" => \/ r.then = "putRecord" /\ Cleared(r, v)
                         \/ r.then \in {"onlyPreviousList", "syncRead"} /\ OnlyCurrent(r, v)
    /\ r.pc = "previousList" => r.to \in Rows(v) /\ "AWSCURRENT" \in v[r.to].stages
    /\ r.pc \in {"onlyPreviousList", "syncRead", "syncWrite"} => OnlyCurrent(r, v)
    /\ r.pc = "syncWrite" => r.row.sealed = v[r.to].sealed
    /\ r.pc # "label" => DOMAIN r.todo = {}
    /\ r.pc \in {"sweepVersions", "sweepSecret"} => r.then = "load"
    /\ r.pc \in Backfilling => r.then \in Unlisted(r)
    /\ Beyond(r) => s # None

SoloInv ==
    /\ \A c \in Clients : requests[c] # NoRequest /\ requests[c].solo =>
         (\A d \in Clients \ {c} : requests[d] = NoRequest) /\ SoloAt(requests[c], versions, secret)
    /\ CurrentAfterSolo

\* A request that stands at one of these phases has nothing to say about the labels.
Plain(r) ==
    {"sweepVersions", "sweepSecret", "ensure", "ensureRead", "backfill", "load", "again", "createSecret", "delete",
     "forceDelete", "restore", "deleteSecret", "putSecret", "putList", "orphanCheck", "pendingLoad", "pendingInsert",
     "pendingBump", "invoke", "removeRead", "removeWrite", "addRead", "addWrite"} \cup
    (IF "AWSCURRENT" \in r.stages THEN {} ELSE {"putRecord", "putLabel", "putInsert", "putParent"})

GoesOn(r, q) ==
    /\ q.solo = r.solo /\ q.todo = r.todo
    /\ q.op \in {"rotate", "move"} => r.op \in {"rotate", "move"}
    /\ q.pc \in Plain(q) \ {"sweepVersions", "sweepSecret"}
    /\ q.pc \in Backfilling => q.then \in Unlisted(q)

LEMMA PlainSolo ==
    ASSUME NEW q, NEW v, NEW s, q.pc \in Plain(q), DOMAIN q.todo = {},
           q.pc \in {"sweepVersions", "sweepSecret"} => q.then = "load",
           q.pc \in Backfilling => q.then \in Unlisted(q),
           Beyond(q) => s # None
    PROVE  SoloAt(q, v, s)
BY DEF SoloAt, Plain, Backfilling

\* The request of a client moves on.
LEMMA SoloMoved ==
    ASSUME Typed, SoloInv, NEW c \in Clients, requests[c] # NoRequest, NEW q, Update(c, q),
           q = NoRequest \/ (q.solo = requests[c].solo /\ (requests[c].solo => SoloAt(q, versions', secret')))
    PROVE  SoloInv'
<1>1. \A d \in Clients : requests'[d] = IF d = c THEN q ELSE requests[d]
  BY DEF Update, Typed
<1>2. settled' = None
  BY DEF Update
<1>3. CurrentAfterSolo'
  BY <1>2 DEF CurrentAfterSolo
<1>4. ASSUME NEW d \in Clients, requests'[d] # NoRequest, requests'[d].solo
      PROVE  (\A e \in Clients \ {d} : requests'[e] = NoRequest) /\ SoloAt(requests'[d], versions', secret')
  <2>1. d = c
    BY <1>1, <1>4 DEF SoloInv
  <2>2. q # NoRequest /\ requests[c].solo /\ SoloAt(q, versions', secret')
    BY <1>1, <1>4, <2>1
  <2>3. \A e \in Clients \ {c} : requests[e] = NoRequest
    BY <2>2 DEF SoloInv
  <2> QED BY <1>1, <2>1, <2>2, <2>3
<1>5. \A d \in Clients : requests'[d] # NoRequest /\ requests'[d].solo =>
         (\A e \in Clients \ {d} : requests'[e] = NoRequest) /\ SoloAt(requests[d], versions, secret)'
  BY <1>4 DEF SoloAt, Cleared, Promoted, OnlyCurrent, Future, Rows, Beyond, Unlisted
<1> QED BY <1>3, <1>5 DEF SoloInv

\* The request of a client completes.
LEMMA SoloCompleted ==
    ASSUME Typed, SoloInv, NEW c \in Clients, requests[c] # NoRequest, NEW id, Complete(c, id),
           requests[c].solo =>
             /\ Holders("AWSCURRENT")' = {id}
             /\ requests[c].op \in {"put", "putStages"} =>
                  Cardinality(Holders("AWSPREVIOUS")' \ (IF "AWSPREVIOUS" \in requests[c].stages THEN {id} ELSE {})) <= 1
             /\ requests[c].op \in {"rotate", "move"} => secret'.sealed = versions'[id].sealed
    PROVE  SoloInv'
<1>1. \A d \in Clients : requests'[d] = IF d = c THEN NoRequest ELSE requests[d]
  BY DEF Complete, Typed
<1>2. \A d \in Clients : ~ (requests'[d] # NoRequest /\ requests'[d].solo)
  BY <1>1 DEF SoloInv
<1>3. CurrentAfterSolo'
  <2>1. CASE requests[c].solo
    <3>1. settled' = [op |-> requests[c].op, id |-> id, stages |-> requests[c].stages]
      BY <2>1 DEF Complete
    <3>2. settled'.op = requests[c].op /\ settled'.id = id /\ settled'.stages = requests[c].stages
      BY <3>1
    <3> QED BY <2>1, <3>2 DEF CurrentAfterSolo
  <2>2. CASE ~ requests[c].solo
    BY <2>2 DEF Complete, CurrentAfterSolo
  <2> QED BY <2>1, <2>2
<1> QED BY <1>2, <1>3 DEF SoloInv

\* A request that is at a phase, and what it is if it runs alone.
LEMMA SoloAtPhase ==
    ASSUME Typed, SoloInv, NEW c \in Clients, requests[c].pc # "idle"
    PROVE  /\ requests[c] \in Request /\ Placed(requests[c]) /\ requests[c] # NoRequest
           /\ requests[c].solo \in BOOLEAN
           /\ requests[c].solo => SoloAt(requests[c], versions, secret)
<1>1. requests[c] # NoRequest
  BY DEF NoRequest
<1> QED BY <1>1, RequestAt, RequestIs DEF SoloInv

LEMMA SoloFailed ==
    ASSUME Typed, SoloInv, NEW c \in Clients, requests[c] # NoRequest, Return(c)
    PROVE  SoloInv'
BY SoloMoved DEF Return

\* A request goes on to a plain phase; if it changes a secret, that is still there.
LEMMA SoloPlain ==
    ASSUME Typed, SoloInv, NEW c \in Clients, requests[c].pc \notin {"idle", "label"},
           NEW q, Update(c, q), GoesOn(requests[c], q),
           \/ secret' # None
           \/ secret' = secret /\ requests[c].pc \notin {"sweepVersions", "sweepSecret", "ensure", "ensureRead", "backfill", "load"}
           \/ requests[c].op \notin {"rotate", "move"}
    PROVE  SoloInv'
<1> DEFINE r == requests[c]
<1>1. r # NoRequest /\ (r.solo => SoloAt(r, versions, secret))
  BY SoloAtPhase
<1>2. ASSUME r.solo PROVE SoloAt(q, versions', secret')
  <2>1. DOMAIN q.todo = {} /\ (Beyond(r) => secret # None)
    BY <1>1, <1>2 DEF SoloAt, GoesOn
  <2>2. Beyond(q) => secret' # None
    BY <2>1 DEF Beyond, GoesOn, Backfilling
  <2> QED BY <2>1, <2>2, PlainSolo DEF GoesOn
<1>3. q.solo = r.solo
  BY DEF GoesOn
<1> HIDE DEF r
<1> QED BY <1>1, <1>2, <1>3, SoloMoved DEF r

LEMMA SoloSweep ==
    ASSUME Typed, SoloInv, NEW c \in Clients,
           \/ SweepVersions(c) \/ SweepSecret(c) \/ DeleteVersions(c) \/ DeleteSecret(c)
           \/ DeleteSecretWithRecovery(c) \/ RestoreSecret(c)
    PROVE  SoloInv'
<1> DEFINE r == requests[c]
<1>1. r.pc \in {"sweepVersions", "sweepSecret", "forceDelete", "deleteSecret", "delete", "restore"}
  BY DEF SweepVersions, SweepSecret, DeleteVersions, DeleteSecret, DeleteSecretWithRecovery, RestoreSecret, At
<1>2. r \in Request /\ r # NoRequest /\ (r.solo => SoloAt(r, versions, secret))
  BY <1>1, SoloAtPhase
<1>3. CASE DeleteSecret(c) \/ DeleteSecretWithRecovery(c) \/ RestoreSecret(c)
  BY <1>2, <1>3, SoloFailed DEF DeleteSecret, DeleteSecretWithRecovery, RestoreSecret
<1>4. ASSUME NEW pc \in {"sweepSecret", "ensure", "deleteSecret"}, Goto(c, pc),
             pc = "deleteSecret" => secret' = secret /\ r.pc = "forceDelete",
             pc # "deleteSecret" => r.pc \in {"sweepVersions", "sweepSecret"}
      PROVE  SoloInv'
  <2> DEFINE q == [r EXCEPT !.pc = pc]
  <2>1. q.pc = pc /\ q.then = r.then /\ q.todo = r.todo /\ q.op = r.op /\ q.solo = r.solo
    BY <1>2, RequestIs
  <2>2. Update(c, q)
    BY <1>4 DEF Goto
  <2> HIDE DEF q
  <2>3. ASSUME r.solo PROVE SoloAt(q, versions', secret')
    <3>1. DOMAIN q.todo = {} /\ (r.pc \in {"sweepVersions", "sweepSecret"} => r.then = "load")
      BY <1>1, <1>2, <2>1, <2>3 DEF SoloAt
    <3>2. /\ q.pc \in Plain(q) /\ (q.pc \in {"sweepVersions", "sweepSecret"} => q.then = "load")
          /\ (q.pc \in Backfilling => q.then \in Unlisted(q))
      BY <1>4, <2>1, <3>1 DEF Plain, Unlisted, Backfilling
    <3>3. Beyond(q) => secret' # None
      <4>1. CASE pc = "deleteSecret"
        <5>1. Beyond(q) => Beyond(r)
          BY <1>4, <2>1, <4>1 DEF Beyond, Backfilling
        <5> QED BY <1>2, <1>4, <2>3, <4>1, <5>1 DEF SoloAt
      <4>2. CASE pc # "deleteSecret"
        BY <1>4, <2>1, <3>1, <4>2 DEF Beyond, Backfilling
      <4> QED BY <4>1, <4>2
    <3> QED BY <3>1, <3>2, <3>3, PlainSolo
  <2> QED BY <1>2, <2>1, <2>2, <2>3, SoloMoved
<1>5. CASE SweepVersions(c)
  BY <1>4, <1>5 DEF SweepVersions, At
<1>6. CASE SweepSecret(c)
  BY <1>4, <1>6 DEF SweepSecret, At
<1>7. CASE DeleteVersions(c)
  BY <1>4, <1>7 DEF DeleteVersions, At
<1> QED BY <1>3, <1>5, <1>6, <1>7

\* A request that comes from the backfill goes on to a plain phase.
LEMMA SoloOnward ==
    ASSUME Typed, SoloInv, NEW c \in Clients, requests[c].pc \in Backfilling, secret' = secret,
           NEW q, Update(c, q), q.solo = requests[c].solo, q.op = requests[c].op, q.todo = requests[c].todo,
           q.then = requests[c].then, q.stages = requests[c].stages, q.pc \in {requests[c].then, "ensureRead", "backfill"}
    PROVE  SoloInv'
<1> DEFINE r == requests[c]
<1>1. r # NoRequest /\ (r.solo => SoloAt(r, versions, secret))
  BY SoloAtPhase DEF Backfilling
<1>2. ASSUME r.solo PROVE SoloAt(q, versions', secret')
  <2>1. r.then \in Unlisted(r) /\ DOMAIN q.todo = {} /\ (Beyond(r) => secret # None)
    BY <1>1, <1>2 DEF SoloAt, Backfilling
  <2>2. q.pc \in Plain(q) /\ q.pc \notin {"sweepVersions", "sweepSecret"} /\ (q.pc \in Backfilling => q.then \in Unlisted(q))
    BY <2>1 DEF Plain, Unlisted, Backfilling
  <2>3. Beyond(q) => Beyond(r)
    BY <2>1 DEF Beyond, Unlisted, Backfilling
  <2> QED BY <2>1, <2>2, <2>3, PlainSolo
<1> HIDE DEF r
<1> QED BY <1>1, <1>2, SoloMoved DEF r

LEMMA SoloEnsure ==
    ASSUME Typed, SoloInv, NEW c \in Clients, Ensure(c) \/ EnsureRead(c) \/ Backfill(c)
    PROVE  SoloInv'
<1> DEFINE r == requests[c]
<1>1. r.pc \in Backfilling
  BY DEF Ensure, EnsureRead, Backfill, At, Backfilling
<1>2. r \in Request /\ r # NoRequest
  BY <1>1, SoloAtPhase DEF Backfilling
<1>3. CASE Return(c)
  BY <1>2, <1>3, SoloFailed
<1>4. CASE ~ Return(c)
  <2> DEFINE late == torn \/ Listed # {}
  <2>1. PICK q : /\ Update(c, q)
                 /\ \/ \E pc \in {r.then, "ensureRead"} : q = [r EXCEPT !.pc = pc]
                    \/ q = [r EXCEPT !.pc = "backfill", !.row = secret, !.late = late]
                    \/ q = [r EXCEPT !.pc = r.then, !.row = None, !.late = FALSE]
    BY <1>4 DEF Ensure, EnsureRead, Backfill, Conflict, Goto
  <2> HIDE DEF late
  <2>2. /\ q.solo = r.solo /\ q.op = r.op /\ q.todo = r.todo /\ q.then = r.then /\ q.stages = r.stages
        /\ q.pc \in {r.then, "ensureRead", "backfill"}
    <3>1. CASE \E pc \in {r.then, "ensureRead"} : q = [r EXCEPT !.pc = pc]
      BY <1>2, <3>1, RequestIs
    <3>2. CASE q = [r EXCEPT !.pc = "backfill", !.row = secret, !.late = late]
      BY <1>2, <3>2, RequestIs
    <3>3. CASE q = [r EXCEPT !.pc = r.then, !.row = None, !.late = FALSE]
      BY <1>2, <3>3, RequestIs
    <3> QED BY <2>1, <3>1, <3>2, <3>3
  <2>3. secret' = secret
    BY <1>4 DEF Ensure, EnsureRead, Backfill, Conflict
  <2> HIDE DEF r
  <2> QED BY <1>1, <2>1, <2>2, <2>3, SoloOnward DEF r
<1> QED BY <1>3, <1>4

LEMMA SoloLoad ==
    ASSUME Typed, SoloInv, NEW c \in Clients, Load(c)
    PROVE  SoloInv'
<1> DEFINE r == requests[c]
<1>1. r.pc = "load" /\ r \in Request /\ r # NoRequest
  BY SoloAtPhase DEF Load, At
<1>2. CASE Return(c)
  BY <1>1, <1>2, SoloFailed
<1>3. CASE ~ Return(c)
  <2> DEFINE q == Loaded(r)
  <2>1. Update(c, q) /\ secret # None /\ secret' = secret /\ r.op # "get"
    BY <1>3 DEF Load
  <2>2. GoesOn(r, q)
    <3>1. ASSUME NEW p \in Request, NEW then \in {"load", "again", "pendingLoad", "removeRead", "addRead"},
                 q = Via(p, "ensure", then), p.solo = r.solo, p.todo = r.todo,
                 p.op \in {"rotate", "move"} => r.op \in {"rotate", "move"}
          PROVE  GoesOn(r, q)
      <4>1. /\ q.pc = "ensure" /\ q.then = then /\ q.op = p.op /\ q.todo = p.todo
            /\ q.solo = p.solo
        BY <3>1, RequestIs DEF Via
      <4> HIDE DEF q
      <4> QED BY <3>1, <4>1 DEF GoesOn, Plain, Unlisted
    <3>2. CASE r.op = "put"
      <4>1. Loaded(r) = [r EXCEPT !.pc = "putSecret", !.num = secret.version + 1, !.to = secret.version + 1]
        BY <3>2 DEF Loaded
      <4>2. q.pc = "putSecret" /\ q.op = r.op /\ q.todo = r.todo /\ q.solo = r.solo
        BY <1>1, <4>1, RequestIs
      <4> QED BY <4>2 DEF GoesOn, Plain, Backfilling
    <3>3. CASE r.op = "putCurrent"
      <4> DEFINE p == [r EXCEPT !.op = "put"]
      <4>1. p \in Request /\ p.solo = r.solo /\ p.todo = r.todo /\ p.op = "put"
        BY <1>1, RequestIs DEF Ops, Puts
      <4>2. q = Via(p, "ensure", "load")
        BY <3>3 DEF Loaded
      <4> HIDE DEF p, q
      <4> QED BY <3>1, <4>1, <4>2
    <3>4. CASE r.op \in {"putPending", "putStages"}
      <4>1. secret.version + 1 \in 0..MaxVersion /\ Named(r) \in Ids \cup {None}
        <5>1. secret.version \in 1..MaxVersion /\ secret.version # MaxVersion
          BY <1>3, <2>1, <3>4 DEF Load, Typed, Secret, Puts
        <5>2. secret.version + 1 \in 1..MaxVersion /\ secret.version + 1 \in 0..MaxVersion
          BY <5>1, BoundsAssumption
        <5> QED BY <1>1, <5>2, RequestIs DEF Named, Ids
      <4>2. CASE r.op = "putPending"
        <5> DEFINE to == Named(r)
                   p == [r EXCEPT !.to = to]
        <5>1. q = Via(p, "ensure", "pendingLoad")
          BY <4>2 DEF Loaded
        <5> HIDE DEF to
        <5>2. p \in Request /\ p.solo = r.solo /\ p.todo = r.todo /\ p.op = r.op
          BY <1>1, <4>1, RequestIs DEF to
        <5> HIDE DEF p, q
        <5> QED BY <3>1, <5>1, <5>2
      <4>3. CASE r.op = "putStages"
        <5> DEFINE to == Named(r)
                   num == secret.version + 1
                   p == [r EXCEPT !.num = num, !.to = to]
        <5>1. q = Via(p, "ensure", "again")
          BY <4>3 DEF Loaded
        <5>2. num \in 0..MaxVersion /\ to \in Ids \cup {None}
          BY <4>1
        <5> HIDE DEF to, num
        <5>3. p \in Request /\ p.solo = r.solo /\ p.todo = r.todo /\ p.op = r.op
          BY <1>1, <5>2, RequestIs
        <5> HIDE DEF p, q
        <5> QED BY <3>1, <5>1, <5>3
      <4> QED BY <3>4, <4>2, <4>3
    <3>5. CASE r.op \in {"rotate", "move"}
      <4>1. \E then \in {"again", "removeRead", "addRead"} : q = Via(r, "ensure", then)
        BY <3>5 DEF Loaded, Relabel
      <4> HIDE DEF q
      <4> QED BY <1>1, <3>1, <4>1
    <3>6. CASE r.op \notin Puts \cup {"rotate", "move"}
      <4>1. Loaded(r) = [r EXCEPT !.pc = r.op]
        BY <3>6 DEF Loaded, Puts
      <4>2. r.op \in Unconditional
        <5>1. r.op \in Ops /\ r.op # "create"
          BY <1>1, SoloAtPhase, RequestIs DEF Placed, Fit
        <5> QED BY <2>1, <3>6, <5>1 DEF Ops
      <4>3. q.pc = r.op /\ q.op = r.op /\ q.todo = r.todo /\ q.solo = r.solo
        BY <1>1, <4>1, RequestIs
      <4> QED BY <4>2, <4>3 DEF Unconditional, GoesOn, Plain, Backfilling
    <3> QED BY <3>2, <3>3, <3>4, <3>5, <3>6 DEF Puts
  <2> HIDE DEF q, r
  <2> QED BY <1>1, <2>1, <2>2, SoloPlain DEF r
<1> QED BY <1>2, <1>3

LEMMA SoloReads ==
    ASSUME Typed, SoloInv, NEW c \in Clients,
           \/ PutSecret(c) \/ OrphanCheck(c) \/ PendingLoad(c) \/ PendingInsert(c) \/ PendingBump(c) \/ Promote(c)
           \/ RemoveRead(c) \/ RemoveWrite(c) \/ AddRead(c) \/ Again(c)
    PROVE  SoloInv'
<1> DEFINE r == requests[c]
<1>1. r.pc \in {"putSecret", "orphanCheck", "pendingLoad", "pendingInsert", "pendingBump", "invoke",
                "removeRead", "removeWrite", "addRead", "again"}
  BY DEF PutSecret, OrphanCheck, PendingLoad, PendingInsert, PendingBump, Promote, RemoveRead, RemoveWrite, AddRead, Again, At
<1>2. r \in Request /\ r # NoRequest /\ Placed(r)
  BY <1>1, SoloAtPhase
<1>3. CASE Return(c)
  BY <1>2, <1>3, SoloFailed
<1>4. \/ secret' # None
      \/ secret' = secret /\ r.pc \notin {"sweepVersions", "sweepSecret", "ensure", "ensureRead", "backfill", "load"}
      \/ r.op \notin {"rotate", "move"}
  <2>1. CASE PutSecret(c)
    BY <1>2, <2>1 DEF PutSecret, At, Placed, Fit
  <2>2. CASE PendingBump(c)
    <3>1. CASE Bumped(r)
      <4>1. secret' \in Secret
        <5>1. r.num \in 1..MaxVersion
          BY <1>2, <2>2, WriterHas DEF PendingBump, At, Placed, Fit
        <5> QED BY <2>2, <3>1, <5>1 DEF PendingBump, Bumped, Typed, Secret
      <4> QED BY <4>1, NoneAssumption
    <3>2. CASE ~ Bumped(r)
      BY <1>1, <2>2, <3>2 DEF PendingBump
    <3> QED BY <3>1, <3>2
  <2> QED BY <1>1, <2>1, <2>2 DEF OrphanCheck, PendingLoad, PendingInsert, Conflict, Promote, RemoveRead, RemoveWrite, AddRead, Again
<1>5. CASE ~ Return(c)
  <2>1. PICK q : /\ Update(c, q)
                 /\ q = NoRequest \/ GoesOn(r, q)
    <3>1. \A pc \in {"pendingLoad", "pendingBump", "invoke", "addRead"} : GoesOn(r, [r EXCEPT !.pc = pc])
      BY <1>2, RequestIs DEF GoesOn, Plain, Backfilling
    <3>2. CASE PutSecret(c)
      <4>1. GoesOn(r, Via(r, "ensure", "putList"))
        BY <1>2, RequestIs DEF GoesOn, Via, Plain, Unlisted
      <4>2. Update(c, Via(r, "ensure", "putList"))
        BY <3>2 DEF PutSecret
      <4> QED BY <4>1, <4>2
    <3>3. CASE OrphanCheck(c) \/ PendingInsert(c) \/ PendingBump(c)
      <4>1. \E pc \in {"pendingLoad", "pendingBump", "invoke"} : Update(c, [r EXCEPT !.pc = pc])
        BY <1>5, <3>3 DEF OrphanCheck, PendingInsert, PendingBump, Conflict, Goto
      <4> QED BY <3>1, <4>1
    <3>4. CASE PendingLoad(c)
      <4> DEFINE q == [r EXCEPT !.pc = "pendingInsert", !.num = secret.version + 1]
      <4>1. GoesOn(r, q)
        BY <1>2, RequestIs DEF GoesOn, Plain, Backfilling
      <4>2. Update(c, q)
        BY <1>5, <3>4 DEF PendingLoad
      <4> HIDE DEF q
      <4> QED BY <4>1, <4>2
    <3>5. CASE Promote(c)
      <4> DEFINE from == IF Holders("AWSCURRENT") = {} THEN None ELSE FirstOf(Holders("AWSCURRENT"))
                 q == [r EXCEPT !.pc = "load", !.label = "AWSCURRENT", !.from = from]
      <4>1. Update(c, q)
        BY <3>5 DEF Promote
      <4> HIDE DEF from
      <4>2. GoesOn(r, q)
        BY <1>2, RequestIs DEF GoesOn, Plain, Backfilling
      <4> HIDE DEF q
      <4> QED BY <4>1, <4>2
    <3>6. CASE RemoveRead(c) \/ AddRead(c)
      <4>1. \E pc \in {"removeWrite", "addWrite"} : \E stages : Update(c, [r EXCEPT !.pc = pc, !.stages = stages])
        BY <1>5, <3>6 DEF RemoveRead, AddRead
      <4>2. \A pc \in {"removeWrite", "addWrite"} : \A stages : GoesOn(r, [r EXCEPT !.pc = pc, !.stages = stages])
        BY <1>2, RequestIs DEF GoesOn, Plain, Backfilling
      <4> QED BY <4>1, <4>2
    <3>7. CASE RemoveWrite(c)
      <4>1. Update(c, IF r.to = None THEN NoRequest ELSE [r EXCEPT !.pc = "addRead"])
        BY <1>5, <3>7 DEF RemoveWrite, WriteStages
      <4> QED BY <3>1, <4>1
    <3>8. CASE Again(c)
      <4>1. PICK then : /\ Update(c, Via(r, "ensure", then))
                        /\ then \in {"orphanCheck", "putList"} \/ (then = "putRecord" /\ "AWSCURRENT" \notin r.stages)
        BY <3>8 DEF Again
      <4> DEFINE q == Via(r, "ensure", then)
      <4>2. /\ q.pc = "ensure" /\ q.then = then /\ q.op = r.op /\ q.todo = r.todo
            /\ q.solo = r.solo /\ q.stages = r.stages
        BY <1>2, RequestIs DEF Via
      <4>3. Update(c, q)
        BY <4>1
      <4> HIDE DEF q
      <4>4. GoesOn(r, q)
        BY <4>1, <4>2 DEF GoesOn, Plain, Unlisted
      <4> QED BY <4>3, <4>4
    <3> QED BY <3>2, <3>3, <3>4, <3>5, <3>6, <3>7, <3>8
  <2>2. CASE q = NoRequest
    BY <1>2, <2>1, <2>2, SoloMoved
  <2>3. CASE q # NoRequest
    <3>1. r.pc \notin {"idle", "label"}
      BY <1>1
    <3> HIDE DEF r
    <3> QED BY <1>4, <2>1, <2>3, <3>1, SoloPlain DEF r
  <2> QED BY <2>2, <2>3
<1> QED BY <1>3, <1>5

-----------------------------------------------------------------------------
(* The label that is written last is written alone.                        *)

LEMMA ListedIsRows == Listed = Rows(versions) /\ Listed' = Rows(versions')
BY DEF Listed, Rows

\* A version after the other loses or gets its label; what will be stays the same.
LEMMA SoloLabel ==
    ASSUME Typed, SoloInv, NEW c \in Clients, Label(c)
    PROVE  SoloInv'
<1> DEFINE r == requests[c]
<1>1. r.pc = "label" /\ r \in Request /\ Placed(r) /\ r # NoRequest /\ (r.solo => SoloAt(r, versions, secret))
  BY SoloAtPhase DEF Label, At
<1>2. PICK id \in DOMAIN r.todo : WriteStages(c, id, r.todo[id], Loop(r, [i \in DOMAIN r.todo \ {id} |-> r.todo[i]], r.then))
  BY DEF Label
<1>3. r.todo \in Todos
  BY <1>1, RequestIs
<1>4. id \in Ids /\ r.todo[id] \in SUBSET Labels
  BY <1>3, TodoRest
<1>5. PICK t \in Todos : /\ t = [i \in DOMAIN r.todo \ {id} |-> r.todo[i]]
                         /\ DOMAIN t = DOMAIN r.todo \ {id} /\ \A i \in DOMAIN t : t[i] = r.todo[i]
  BY <1>3, TodoRest
<1>6. PICK then \in Onward : then = r.then /\ Fit(r, then)
  BY <1>1 DEF Placed, Passing
<1> DEFINE q == Loop(r, t, then)
<1>7. UNCHANGED secret /\ WriteStages(c, id, r.todo[id], q)
  BY <1>2, <1>5, <1>6 DEF Label
<1>8. /\ q.todo = t /\ q.then = r.then /\ q.pc = (IF DOMAIN t = {} THEN r.then ELSE "label")
      /\ q.op = r.op /\ q.solo = r.solo /\ q.to = r.to
  <2>1. /\ q.todo = t /\ q.then = then /\ q.pc = (IF DOMAIN t = {} THEN then ELSE "label")
        /\ q.op = r.op /\ q.solo = r.solo /\ q.to = r.to
    <3> HIDE DEF r
    <3> QED BY <1>1, <1>6, LoopTyped
  <2> QED BY <1>6, <2>1
<1> HIDE DEF q
<1>9. CASE versions[id] = None
  BY <1>1, <1>7, <1>9, SoloFailed DEF WriteStages
<1>10. CASE versions[id] # None
  <2>1. Update(c, q) /\ versions' = [versions EXCEPT ![id].stages = r.todo[id]]
    BY <1>7, <1>10 DEF WriteStages
  <2>2. /\ Rows(versions') = Rows(versions)
        /\ \A i \in Rows(versions) : versions'[i].stages = IF i = id THEN r.todo[id] ELSE versions[i].stages
    <3> DEFINE stages == r.todo[id]
    <3>1. /\ id \in Ids /\ versions[id] # None /\ stages \in SUBSET Labels
          /\ versions' = [versions EXCEPT ![id].stages = stages]
      BY <1>4, <1>10, <2>1
    <3> HIDE DEF stages, r
    <3>2. /\ Listed' = Listed
          /\ \A i \in Listed : versions'[i].stages = IF i = id THEN stages ELSE versions[i].stages
      BY <3>1, StagesWritten
    <3>3. /\ Rows(versions') = Rows(versions)
          /\ \A i \in Rows(versions) : versions'[i].stages = IF i = id THEN stages ELSE versions[i].stages
      BY <3>2, ListedIsRows
    <3> QED BY <3>3 DEF stages
  <2>3. \A i \in Rows(versions) : Future(q, versions', i) = Future(r, versions, i)
    <3> TAKE i \in Rows(versions)
    <3>1. CASE i = id
      BY <1>5, <1>8, <2>2, <3>1 DEF Future
    <3>2. CASE i # id
      BY <1>5, <1>8, <2>2, <3>2 DEF Future
    <3> QED BY <3>1, <3>2
  <2>4. /\ Cleared(r, versions) => Cleared(q, versions')
        /\ OnlyCurrent(r, versions) => OnlyCurrent(q, versions')
    BY <1>8, <2>2, <2>3 DEF Cleared, OnlyCurrent
  <2>5. ASSUME r.solo PROVE SoloAt(q, versions', secret')
    <3>1. /\ \/ r.then = "putRecord" /\ Cleared(q, versions')
             \/ r.then \in {"onlyPreviousList", "syncRead"} /\ OnlyCurrent(q, versions')
          /\ Beyond(r) => secret' # None
      BY <1>1, <1>7, <2>4, <2>5 DEF SoloAt
    <3>2. Beyond(q) => Beyond(r)
      BY <1>1, <1>8, <3>1 DEF Beyond, Backfilling
    <3>3. q.pc # "label" => DOMAIN q.todo = {} /\ q.pc = r.then
      BY <1>8
    <3>4. q.pc \in {r.then, "label"}
      BY <1>8
    <3>5. CASE q.pc = "label"
      BY <1>8, <3>1, <3>2, <3>5 DEF SoloAt, Backfilling
    <3>6. CASE q.pc # "label"
      BY <3>1, <3>2, <3>3, <3>6 DEF SoloAt, Backfilling
    <3> QED BY <3>5, <3>6
  <2> HIDE DEF r
  <2> QED BY <1>1, <1>8, <2>1, <2>5, SoloMoved DEF r
<1> QED BY <1>9, <1>10

\* A list is read that leaves no current version, or the one that got the label.
LEMMA SoloListed ==
    ASSUME Typed, SoloInv, NEW c \in Clients, requests[c].pc \notin {"idle", "load", "sweepVersions", "sweepSecret"} \cup Backfilling,
           NEW then \in {"putRecord", "onlyPreviousList", "syncRead"},
           Fit(requests[c], then), NEW todo \in Todos, Update(c, Loop(requests[c], todo, then)),
           UNCHANGED <<secret, versions>>,
           requests[c].solo =>
             \E q : /\ q.to = requests[c].to /\ q.todo = todo
                    /\ then = "putRecord" => Cleared(q, versions)
                    /\ then # "putRecord" => OnlyCurrent(q, versions)
    PROVE  SoloInv'
<1> DEFINE r == requests[c]
           n == Loop(r, todo, then)
<1>1. r \in Request /\ Placed(r) /\ r # NoRequest /\ (r.solo => SoloAt(r, versions, secret))
  BY SoloAtPhase
<1>2. /\ n.todo = todo /\ n.then = then /\ n.pc = (IF DOMAIN todo = {} THEN then ELSE "label")
      /\ n.op = r.op /\ n.solo = r.solo /\ n.to = r.to
  <2>1. then \in Onward
    BY DEF Onward
  <2> QED BY <1>1, <2>1, LoopTyped
<1>3. Update(c, n)
  OBVIOUS
<1> HIDE DEF n
<1>4. ASSUME r.solo PROVE SoloAt(n, versions', secret')
  <2>1. /\ then = "putRecord" => Cleared(n, versions)
        /\ then # "putRecord" => OnlyCurrent(n, versions)
    BY <1>2, <1>4 DEF Cleared, OnlyCurrent, Future
  <2>2. Beyond(n) => Beyond(r)
    BY <1>2 DEF Beyond, Backfilling
  <2>3. Beyond(n) => secret # None
    BY <1>1, <1>4, <2>2 DEF SoloAt
  <2>4. n.pc # "label" => DOMAIN n.todo = {} /\ n.pc = then
    BY <1>2
  <2>5. CASE n.pc = "label"
    BY <1>2, <2>1, <2>3, <2>5 DEF SoloAt, Backfilling
  <2>6. CASE n.pc # "label"
    BY <2>1, <2>3, <2>4, <2>6 DEF SoloAt, Backfilling
  <2> QED BY <2>5, <2>6
<1> HIDE DEF r
<1> QED BY <1>1, <1>2, <1>3, <1>4, SoloMoved DEF r

LEMMA SoloPutList ==
    ASSUME Typed, SoloInv, NEW c \in Clients, PutList(c)
    PROVE  SoloInv'
<1> DEFINE r == requests[c]
           C == Holders("AWSCURRENT")
           first == IF C # {} THEN FirstOf(C) ELSE 1
           q == [to |-> r.to, todo |-> Demoted]
<1>1. r.pc = "putList" /\ r \in Request /\ Placed(r)
  BY SoloAtPhase DEF PutList, At
<1>2. Demoted \in Todos /\ DOMAIN Demoted = Listed /\ C \in SUBSET Listed /\ Listed \in SUBSET Ids
  BY TodosMade, TodoMade
<1>3. first \in Ids
  <2>1. 1 \in Ids
    BY BoundsAssumption DEF Ids
  <2> QED BY <1>2, <2>1, FirstIs
<1>4. Cleared(q, versions)
  <2>1. \A i \in Listed : Demoted[i] = (versions[i].stages \ {"AWSCURRENT", "AWSPREVIOUS"})
                             \cup (IF C # {} /\ i = FirstOf(C) THEN {"AWSPREVIOUS"} ELSE {})
    BY DEF Demoted
  <2>2. \A i \in Listed : "AWSCURRENT" \notin Demoted[i] /\ ("AWSPREVIOUS" \in Demoted[i] => i = first)
    <3> HIDE DEF C
    <3> QED BY <2>1
  <2>3. \A i \in Listed : Future(q, versions, i) = Demoted[i]
    BY <1>2 DEF Future
  <2> HIDE DEF first, q
  <2> QED BY <1>3, <2>2, <2>3, ListedIsRows DEF Cleared
<1>5. q.to = r.to /\ q.todo = Demoted
  OBVIOUS
<1>6. Fit(r, "putRecord") /\ Update(c, Loop(r, Demoted, "putRecord")) /\ UNCHANGED <<secret, versions>>
  BY <1>1 DEF PutList, Placed, Fit
<1>7. r.pc \notin {"idle", "load", "sweepVersions", "sweepSecret"} \cup Backfilling
  BY <1>1 DEF Backfilling
<1> HIDE DEF q, r
<1> QED BY <1>2, <1>4, <1>5, <1>6, <1>7, SoloListed DEF r

LEMMA SoloPutRecord ==
    ASSUME Typed, SoloInv, NEW c \in Clients, PutRecord(c)
    PROVE  SoloInv'
<1> DEFINE r == requests[c]
<1>1. r.pc = "putRecord" /\ r \in Request /\ Placed(r) /\ r # NoRequest /\ (r.solo => SoloAt(r, versions, secret))
  BY SoloAtPhase DEF PutRecord, At
<1>2. r.op \in {"put", "putStages"} /\ UNCHANGED <<secret, versions>>
  BY <1>1 DEF Placed, Fit, PutRecord
<1>3. PICK pc \in {"putInsert", "putLabel"} : Goto(c, pc)
  BY DEF PutRecord
<1> DEFINE q == [r EXCEPT !.pc = pc]
<1>4. q.pc = pc /\ q.todo = r.todo /\ q.op = r.op /\ q.solo = r.solo /\ q.stages = r.stages
  BY <1>1, RequestIs
<1>5. Update(c, q)
  BY <1>3 DEF Goto
<1> HIDE DEF q
<1>6. ASSUME r.solo PROVE SoloAt(q, versions', secret')
  <2>1. ("AWSCURRENT" \in r.stages => Cleared(r, versions)) /\ DOMAIN r.todo = {}
    BY <1>1, <1>6 DEF SoloAt
  <2>2. ("AWSCURRENT" \in q.stages => Cleared(q, versions')) /\ DOMAIN q.todo = {} /\ ~ Beyond(q)
    BY <1>2, <1>4, <2>1 DEF Cleared, Future, Beyond
  <2> QED BY <1>4, <2>2 DEF SoloAt, Backfilling
<1> HIDE DEF r
<1> QED BY <1>1, <1>4, <1>5, <1>6, SoloMoved DEF r

LEMMA AtMostOne ==
    ASSUME NEW S, NEW p, S \subseteq {p}
    PROVE  Cardinality(S) <= 1
<1>1. IsFiniteSet({p}) /\ Cardinality({p}) = 1
  BY FS_Singleton
<1> QED BY <1>1, FS_Subset

LEMMA SoloPut ==
    ASSUME Typed, SoloInv, NEW c \in Clients, PutLabel(c) \/ PutInsert(c)
    PROVE  SoloInv'
<1> DEFINE r == requests[c]
<1>1. /\ r.pc \in {"putLabel", "putInsert"} /\ r \in Request /\ Placed(r) /\ r # NoRequest
      /\ r.solo => SoloAt(r, versions, secret)
  BY SoloAtPhase DEF PutLabel, PutInsert, At
<1>2. /\ r.op \in {"put", "putStages"} /\ r.num \in 1..MaxVersion /\ r.to \in Ids /\ r.value \in Nat
      /\ r.stages \in SUBSET Labels /\ (r.op = "put" => r.stages = {"AWSCURRENT"})
  BY <1>1, WriterHas DEF Placed, Fit
<1>3. CASE Return(c)
  BY <1>1, <1>3, SoloFailed
<1>4. CASE ~ Return(c)
  <2>1. Recorded(c)
    BY <1>4 DEF PutLabel, PutInsert, Conflict
  <2>2. /\ Listed' = Listed \cup {r.to} /\ versions'[r.to].stages = r.stages
        /\ \A i \in Listed \ {r.to} : versions'[i].stages = versions[i].stages
    <3> DEFINE id == r.to
               stages == r.stages
    <3>1. id \in Ids /\ stages \in SUBSET Labels
      BY <1>2
    <3>2. CASE PutLabel(c)
      <4>1. versions[id] # None /\ versions' = [versions EXCEPT ![id].stages = stages]
        BY <1>4, <3>2 DEF PutLabel
      <4> HIDE DEF id, stages
      <4>2. id \in Listed
        BY <3>1, <4>1 DEF Listed
      <4>3. /\ Listed' = Listed
            /\ \A i \in Listed : versions'[i].stages = IF i = id THEN stages ELSE versions[i].stages
        BY <3>1, <4>1, StagesWritten
      <4>4. /\ Listed' = Listed \cup {id} /\ versions'[id].stages = stages
            /\ \A i \in Listed \ {id} : versions'[i].stages = versions[i].stages
        BY <4>2, <4>3
      <4> QED BY <4>4 DEF id, stages
    <3>3. CASE PutInsert(c)
      <4> DEFINE sealed == Seal(r.value, id)
                 num == r.num
      <4>1. Insert(id, NewVersion(num, sealed, stages))
        BY <1>4, <3>3 DEF PutInsert, Conflict
      <4>2. sealed \in Sealed /\ num \in 1..MaxVersion
        BY <1>2 DEF Seal, Sealed
      <4> HIDE DEF sealed, num, id, stages
      <4>3. /\ Listed' = Listed \cup {id} /\ versions'[id].stages = stages
            /\ \A i \in Listed \ {id} : versions'[i].stages = versions[i].stages
        BY <3>1, <4>1, <4>2, VersionInserted
      <4> QED BY <4>3 DEF id, stages
    <3> QED BY <3>2, <3>3
  <2>3. ASSUME r.solo, "AWSCURRENT" \in r.stages
        PROVE  \E p \in Ids : \A i \in Listed' \ {r.to} : /\ "AWSCURRENT" \notin versions'[i].stages
                                                          /\ "AWSPREVIOUS" \in versions'[i].stages => i = p
    <3>1. Cleared(r, versions) /\ DOMAIN r.todo = {}
      BY <1>1, <2>3 DEF SoloAt
    <3>2. PICK p \in Ids : \A i \in Listed : /\ "AWSCURRENT" \notin versions[i].stages
                                             /\ "AWSPREVIOUS" \in versions[i].stages => i = p
      BY <3>1, ListedIsRows DEF Cleared, Future
    <3> QED BY <2>2, <3>2
  <2>4. CASE r.op = "put"
    <3>1. Complete(c, r.to)
      BY <2>1, <2>4 DEF Recorded
    <3>2. ASSUME r.solo PROVE Holders("AWSCURRENT")' = {r.to} /\ Cardinality(Holders("AWSPREVIOUS")' \ {}) <= 1
      <4>1. r.stages = {"AWSCURRENT"}
        BY <1>2, <2>4
      <4>2. PICK p \in Ids : \A i \in Listed' \ {r.to} : /\ "AWSCURRENT" \notin versions'[i].stages
                                                         /\ "AWSPREVIOUS" \in versions'[i].stages => i = p
        BY <2>3, <3>2, <4>1
      <4>3. Holders("AWSCURRENT")' = {r.to}
        BY <2>2, <4>1, <4>2 DEF Holders
      <4>4. Holders("AWSPREVIOUS")' \ {} \subseteq {p}
        BY <2>2, <4>1, <4>2 DEF Holders
      <4> QED BY <4>3, <4>4, AtMostOne
    <3>3. "AWSPREVIOUS" \notin r.stages
      BY <1>2, <2>4
    <3> HIDE DEF r
    <3> QED BY <1>1, <1>2, <2>4, <3>1, <3>2, <3>3, SoloCompleted DEF r
  <2>5. CASE r.op = "putStages"
    <3> DEFINE q == [r EXCEPT !.pc = "putParent"]
    <3>1. Update(c, q)
      BY <2>1, <2>5 DEF Recorded, Goto
    <3>2. q.pc = "putParent" /\ q.todo = r.todo /\ q.op = r.op /\ q.solo = r.solo /\ q.stages = r.stages /\ q.to = r.to
      BY <1>1, RequestIs
    <3> HIDE DEF q
    <3>3. ASSUME r.solo PROVE SoloAt(q, versions', secret')
      <4>1. DOMAIN q.todo = {} /\ ~ Beyond(q)
        BY <1>1, <2>5, <3>2, <3>3 DEF SoloAt, Beyond
      <4>2. "AWSCURRENT" \in q.stages => Promoted(q, versions')
        <5> HIDE DEF r
        <5> QED BY <2>2, <2>3, <3>2, <3>3, ListedIsRows DEF Promoted
      <4> QED BY <3>2, <4>1, <4>2 DEF SoloAt, Backfilling
    <3> HIDE DEF r
    <3> QED BY <1>1, <3>1, <3>2, <3>3, SoloMoved DEF r
  <2> QED BY <1>2, <2>4, <2>5
<1> QED BY <1>3, <1>4

LEMMA SoloPutParent ==
    ASSUME Typed, SoloInv, NEW c \in Clients, PutParent(c)
    PROVE  SoloInv'
<1> DEFINE r == requests[c]
<1>1. /\ r.pc = "putParent" /\ r \in Request /\ Placed(r) /\ r # NoRequest
      /\ r.solo => SoloAt(r, versions, secret)
  BY SoloAtPhase DEF PutParent, At
<1>2. r.op = "putStages"
  BY <1>1 DEF Placed, Fit
<1>3. CASE "AWSCURRENT" \notin r.stages
  BY <1>1, <1>3, SoloFailed DEF PutParent
<1>4. CASE "AWSCURRENT" \in r.stages
  <2>1. Complete(c, r.to) /\ versions' = versions
    BY <1>4 DEF PutParent
  <2> DEFINE asked == IF "AWSPREVIOUS" \in r.stages THEN {r.to} ELSE {}
  <2>2. ASSUME r.solo PROVE Holders("AWSCURRENT")' = {r.to} /\ Cardinality(Holders("AWSPREVIOUS")' \ asked) <= 1
    <3>1. Promoted(r, versions)
      BY <1>1, <1>4, <2>2 DEF SoloAt
    <3>2. r.to \in Listed /\ versions[r.to].stages = r.stages /\ Listed' = Listed
      BY <2>1, <3>1, ListedIsRows DEF Promoted
    <3>3. PICK p \in Ids : \A i \in Listed \ {r.to} : /\ "AWSCURRENT" \notin versions[i].stages
                                                      /\ "AWSPREVIOUS" \in versions[i].stages => i = p
      BY <3>1, ListedIsRows DEF Promoted
    <3>4. Holders("AWSCURRENT")' = {r.to}
      BY <1>4, <2>1, <3>2, <3>3 DEF Holders
    <3>5. Holders("AWSPREVIOUS")' \ asked \subseteq {p}
      BY <2>1, <3>2, <3>3 DEF Holders
    <3> HIDE DEF asked
    <3> QED BY <3>4, <3>5, AtMostOne
  <2> HIDE DEF r
  <2> QED BY <1>1, <1>2, <2>1, <2>2, SoloCompleted DEF r
<1> QED BY <1>3, <1>4

LEMMA SoloCreate ==
    ASSUME Typed, SealInv, SoloInv, NEW c \in Clients, CreateSecret(c) \/ CreateVersion(c)
    PROVE  SoloInv'
<1> DEFINE r == requests[c]
<1>1. /\ r.pc \in {"createSecret", "createVersion"} /\ r \in Request /\ Placed(r) /\ r # NoRequest
      /\ r.solo => SoloAt(r, versions, secret)
  BY SoloAtPhase DEF CreateSecret, CreateVersion, At
<1>2. r.op = "create"
  BY <1>1 DEF Placed, Fit
<1>3. CASE CreateSecret(c)
  <2> DEFINE q == [r EXCEPT !.pc = "createVersion"]
  <2>1. q.pc = "createVersion" /\ q.todo = r.todo /\ q.op = r.op /\ q.solo = r.solo
    BY <1>1, RequestIs
  <2>2. Update(c, q) /\ versions' = versions
    BY <1>3 DEF CreateSecret, Goto
  <2> HIDE DEF q
  <2>3. Rows(versions') = {} /\ r.pc = "createSecret"
    BY <1>3, <2>2 DEF SealInv, CreateSecret, Listed, Rows, At
  <2>4. ASSUME r.solo PROVE SoloAt(q, versions', secret')
    <3>1. DOMAIN q.todo = {} /\ ~ Beyond(q)
      BY <1>1, <1>2, <2>1, <2>3, <2>4 DEF SoloAt, Beyond
    <3> QED BY <2>1, <2>3, <3>1 DEF SoloAt, Backfilling
  <2> HIDE DEF r
  <2> QED BY <1>1, <2>1, <2>2, <2>4, SoloMoved DEF r
<1>4. CASE CreateVersion(c) /\ Return(c)
  BY <1>1, <1>4, SoloFailed
<1>5. CASE CreateVersion(c) /\ ~ Return(c)
  <2> DEFINE sealed == Seal(r.value, 1)
  <2>1. Complete(c, 1) /\ Insert(1, NewVersion(1, sealed, {"AWSCURRENT"}))
    BY <1>5 DEF CreateVersion, Conflict
  <2>2. sealed \in Sealed /\ {"AWSCURRENT"} \in SUBSET Labels /\ 1 \in Ids /\ 1 \in 1..MaxVersion
    BY <1>1, WriterHas DEF Seal, Sealed, Labels
  <2> HIDE DEF sealed
  <2>3. Listed' = Listed \cup {1} /\ versions'[1].stages = {"AWSCURRENT"}
    BY <2>1, <2>2, VersionInserted
  <2>4. ASSUME r.solo PROVE Holders("AWSCURRENT")' = {1}
    <3>1. Listed = {}
      BY <1>1, <1>5, <2>4, ListedIsRows DEF SoloAt, CreateVersion, At
    <3> QED BY <2>3, <3>1 DEF Holders
  <2> HIDE DEF r
  <2> QED BY <1>1, <1>2, <2>1, <2>4, SoloCompleted DEF r
<1> QED BY <1>3, <1>4, <1>5

LEMMA SoloAddWrite ==
    ASSUME Typed, SoloInv, NEW c \in Clients, AddWrite(c)
    PROVE  SoloInv'
<1> DEFINE r == requests[c]
<1>1. r.pc = "addWrite" /\ r \in Request /\ Placed(r) /\ r # NoRequest /\ (r.solo => SoloAt(r, versions, secret))
  BY SoloAtPhase DEF AddWrite, At
<1>2. r.to \in Ids /\ r.stages \in SUBSET Labels /\ (r.label = "AWSCURRENT" => "AWSCURRENT" \in r.stages)
  BY <1>1, WriterHas DEF Placed, Fit
<1>3. CASE Return(c)
  BY <1>1, <1>3, SoloFailed
<1>4. CASE ~ Return(c)
  <2>1. versions[r.to] # None /\ versions' = [versions EXCEPT ![r.to].stages = r.stages]
    BY <1>4 DEF AddWrite, WriteStages
  <2>2. Update(c, IF r.label = "AWSCURRENT" THEN [r EXCEPT !.pc = "previousList", !.stages = {}] ELSE NoRequest)
    BY <1>4 DEF AddWrite, WriteStages
  <2>3. r.to \in Listed' /\ versions'[r.to].stages = r.stages
    <3>1. r.to \in Listed
      BY <1>2, <2>1 DEF Listed
    <3>2. PICK id \in Ids : id = r.to
      BY <1>2
    <3>3. PICK stages \in SUBSET Labels : stages = r.stages
      BY <1>2
    <3>4. versions' = [versions EXCEPT ![id].stages = stages]
      BY <2>1, <3>2, <3>3
    <3>5. versions[id] # None /\ id \in Listed
      BY <2>1, <3>1, <3>2
    <3>6. /\ Listed' = Listed
          /\ \A i \in Listed : versions'[i].stages = IF i = id THEN stages ELSE versions[i].stages
      BY <3>4, <3>5, StagesWritten
    <3> QED BY <3>2, <3>3, <3>5, <3>6
  <2>4. CASE r.label # "AWSCURRENT"
    BY <1>1, <2>2, <2>4, SoloMoved
  <2>5. CASE r.label = "AWSCURRENT"
    <3> DEFINE q == [r EXCEPT !.pc = "previousList", !.stages = {}]
    <3>1. q.pc = "previousList" /\ q.todo = r.todo /\ q.to = r.to /\ q.op = r.op /\ q.solo = r.solo
      BY <1>1, RequestIs
    <3>2. Update(c, q)
      BY <2>2, <2>5
    <3> HIDE DEF q
    <3>3. ASSUME r.solo PROVE SoloAt(q, versions', secret')
      <4>1. DOMAIN q.todo = {} /\ (Beyond(r) => secret' # None)
        BY <1>1, <3>1, <3>3 DEF SoloAt, AddWrite
      <4>2. Beyond(q) => Beyond(r)
        BY <1>1, <3>1 DEF Beyond, Backfilling
      <4>3. q.to \in Rows(versions') /\ "AWSCURRENT" \in versions'[q.to].stages
        BY <1>2, <2>3, <2>5, <3>1, ListedIsRows
      <4> QED BY <3>1, <4>1, <4>2, <4>3 DEF SoloAt, Backfilling
    <3> HIDE DEF r
    <3> QED BY <1>1, <3>1, <3>2, <3>3, SoloMoved DEF r
  <2> QED BY <2>4, <2>5
<1> QED BY <1>3, <1>4

LEMMA SoloPreviousList ==
    ASSUME Typed, SoloInv, NEW c \in Clients, PreviousList(c) \/ OnlyPreviousList(c)
    PROVE  SoloInv'
<1> DEFINE r == requests[c]
<1>1. /\ r.pc \in {"previousList", "onlyPreviousList"} /\ r \in Request /\ Placed(r) /\ r # NoRequest
      /\ r.solo => SoloAt(r, versions, secret)
  BY SoloAtPhase DEF PreviousList, OnlyPreviousList, At
<1>2. UNCHANGED <<secret, versions>> /\ Fit(r, "syncRead") /\ Fit(r, "onlyPreviousList")
  BY <1>1 DEF PreviousList, OnlyPreviousList, Placed, Fit
<1>3. r.pc \notin {"idle", "load", "sweepVersions", "sweepSecret"} \cup Backfilling
  BY <1>1 DEF Backfilling
<1>4. CASE PreviousList(c)
  <2>1. PICK then \in {"syncRead", "onlyPreviousList"} : Update(c, Loop(r, Demotions(r), then))
    BY <1>4 DEF PreviousList
  <2> DEFINE S == (Holders("AWSCURRENT") \cup (Listed \cap {r.from})) \ {r.to}
             q == [to |-> r.to, todo |-> Demotions(r)]
  <2>2. Demotions(r) \in [S -> SUBSET Labels] /\ S \in SUBSET Ids
    BY <1>1, TodosMade
  <2>3. Demotions(r) \in Todos /\ DOMAIN Demotions(r) = S
    <3> HIDE DEF S
    <3> QED BY <2>2, TodoMade
  <2>4. \A i \in S : "AWSCURRENT" \notin Demotions(r)[i]
    BY DEF Demotions
  <2>5. ASSUME r.solo PROVE OnlyCurrent(q, versions)
    <3>1. r.to \in Listed /\ "AWSCURRENT" \in versions[r.to].stages
      BY <1>1, <1>4, <2>5, ListedIsRows DEF SoloAt, PreviousList, At
    <3>2. \A i \in Listed : "AWSCURRENT" \in Future(q, versions, i) <=> i = r.to
      <4> TAKE i \in Listed
      <4>1. CASE i \in S
        BY <2>3, <2>4, <4>1 DEF Future
      <4>2. CASE i \notin S /\ i # r.to
        BY <2>3, <4>2 DEF Future, Holders
      <4>3. CASE i = r.to
        BY <2>3, <3>1, <4>3 DEF Future
      <4> QED BY <4>1, <4>2, <4>3
    <3>3. q.to = r.to
      OBVIOUS
    <3> HIDE DEF q
    <3> QED BY <3>1, <3>2, <3>3, ListedIsRows DEF OnlyCurrent
  <2>6. q.to = r.to /\ q.todo = Demotions(r)
    OBVIOUS
  <2> HIDE DEF q, r, S
  <2> QED BY <1>2, <1>3, <2>1, <2>3, <2>5, <2>6, SoloListed DEF r
<1>5. CASE OnlyPreviousList(c)
  <2> DEFINE S == Holders("AWSPREVIOUS") \ {r.from, r.to}
             t == [i \in S |-> versions[i].stages \ {"AWSPREVIOUS"}]
             q == [to |-> r.to, todo |-> t]
  <2>1. Update(c, Loop(r, t, "syncRead"))
    BY <1>5 DEF OnlyPreviousList
  <2>2. S \in SUBSET Listed /\ S \in SUBSET Ids
    BY TodosMade
  <2>3. t \in [S -> SUBSET Labels] /\ \A i \in S : t[i] = versions[i].stages \ {"AWSPREVIOUS"}
    <3> HIDE DEF S
    <3> QED BY <2>2, TodosMade
  <2>4. r.to \notin S
    OBVIOUS
  <2> HIDE DEF S, t
  <2>5. t \in Todos /\ DOMAIN t = S
    BY <2>2, <2>3, TodoMade
  <2>6. q.to = r.to /\ q.todo = t
    OBVIOUS
  <2> HIDE DEF q
  <2>7. ASSUME r.solo PROVE OnlyCurrent(q, versions)
    <3>1. OnlyCurrent(r, versions) /\ DOMAIN r.todo = {}
      BY <1>1, <1>5, <2>7 DEF SoloAt, OnlyPreviousList, At
    <3>2. r.to \in Rows(versions) /\ \A i \in Rows(versions) : "AWSCURRENT" \in versions[i].stages <=> i = r.to
      BY <3>1 DEF OnlyCurrent, Future
    <3>3. \A i \in Rows(versions) : "AWSCURRENT" \in Future(q, versions, i) <=> "AWSCURRENT" \in versions[i].stages
      BY <2>3, <2>5, <2>6 DEF Future
    <3> QED BY <2>6, <3>2, <3>3 DEF OnlyCurrent
  <2> HIDE DEF r
  <2> QED BY <1>2, <1>3, <2>1, <2>5, <2>6, <2>7, SoloListed DEF r
<1> QED BY <1>4, <1>5

LEMMA SoloSync ==
    ASSUME Typed, SoloInv, NEW c \in Clients, SyncRead(c) \/ SyncWrite(c)
    PROVE  SoloInv'
<1> DEFINE r == requests[c]
<1>1. /\ r.pc \in {"syncRead", "syncWrite"} /\ r \in Request /\ Placed(r) /\ r # NoRequest
      /\ r.solo => SoloAt(r, versions, secret)
  BY SoloAtPhase DEF SyncRead, SyncWrite, At
<1>2. r.op \in {"rotate", "move"}
  BY <1>1 DEF Placed, Fit
<1>3. CASE SyncRead(c) /\ Return(c)
  BY <1>1, <1>3, SoloFailed
<1>4. CASE SyncRead(c) /\ ~ Return(c)
  <2> DEFINE row == Copy(r.to)
             q == [r EXCEPT !.pc = "syncWrite", !.row = row]
  <2>1. Update(c, q) /\ UNCHANGED <<secret, versions>>
    BY <1>4 DEF SyncRead
  <2>2. row.sealed = versions[r.to].sealed
    BY DEF Copy
  <2> HIDE DEF row
  <2>3. q.pc = "syncWrite" /\ q.row = row /\ q.todo = r.todo /\ q.to = r.to /\ q.op = r.op /\ q.solo = r.solo
    BY <1>1, RequestIs
  <2> HIDE DEF q
  <2>4. ASSUME r.solo PROVE SoloAt(q, versions', secret')
    <3>1. OnlyCurrent(r, versions) /\ DOMAIN r.todo = {} /\ (Beyond(r) => secret # None)
      BY <1>1, <1>4, <2>4 DEF SoloAt, SyncRead, At
    <3>2. OnlyCurrent(q, versions') /\ DOMAIN q.todo = {}
      BY <2>1, <2>3, <3>1 DEF OnlyCurrent, Future
    <3>3. Beyond(q) => secret' # None
      BY <1>1, <1>4, <2>1, <2>3, <3>1 DEF Beyond, Backfilling, SyncRead, At
    <3>4. q.row.sealed = versions'[q.to].sealed
      BY <2>1, <2>2, <2>3
    <3> QED BY <2>3, <3>2, <3>3, <3>4 DEF SoloAt, Backfilling
  <2> HIDE DEF r
  <2> QED BY <1>1, <2>1, <2>3, <2>4, SoloMoved DEF r
<1>5. CASE SyncWrite(c)
  <2>1. Complete(c, r.to) /\ versions' = versions
    BY <1>5 DEF SyncWrite
  <2>2. ASSUME r.solo PROVE Holders("AWSCURRENT")' = {r.to} /\ secret'.sealed = versions'[r.to].sealed
    <3>1. OnlyCurrent(r, versions) /\ DOMAIN r.todo = {} /\ secret # None /\ r.row.sealed = versions[r.to].sealed
      BY <1>1, <1>2, <1>5, <2>2 DEF SoloAt, SyncWrite, At, Beyond, Backfilling
    <3>2. r.to \in Listed /\ \A i \in Listed : "AWSCURRENT" \in versions[i].stages <=> i = r.to
      BY <3>1, ListedIsRows DEF OnlyCurrent, Future
    <3>3. Listed' = Listed
      BY <2>1 DEF Listed
    <3>4. Holders("AWSCURRENT")' = {r.to}
      BY <2>1, <3>2, <3>3 DEF Holders
    <3>5. secret'.sealed = r.row.sealed
      BY <1>5, <3>1 DEF SyncWrite, Typed, Secret
    <3> QED BY <2>1, <3>1, <3>4, <3>5
  <2> HIDE DEF r
  <2> QED BY <1>1, <1>2, <2>1, <2>2, SoloCompleted DEF r
<1> QED BY <1>3, <1>4, <1>5

LEMMA SoloBegin ==
    ASSUME Typed, SoloInv, NEW c \in Clients, NEW op \in Ops, Arrive(c, op)
    PROVE  SoloInv'
<1> DEFINE alone == \A e \in Clients \ {c} : requests[e] = NoRequest
<1>1. PICK q : /\ q.pc \in {"createSecret", "sweepVersions", "ensure"} /\ q.then = "load" /\ DOMAIN q.todo = {}
               /\ q.solo = alone /\ q.op = op /\ (q.pc = "createSecret" => op = "create")
               /\ requests' = [d \in Clients |-> IF d = c THEN q
                                                 ELSE IF requests[d] = NoRequest THEN NoRequest
                                                 ELSE [requests[d] EXCEPT !.solo = FALSE]]
  <2>1. PICK a \in Arguments(op) :
         requests' = [d \in Clients |->
             IF d = c THEN NewRequest(c, op, a)
             ELSE IF requests[d] = NoRequest THEN NoRequest ELSE [requests[d] EXCEPT !.solo = FALSE]]
    BY DEF Arrive
  <2> DEFINE q == NewRequest(c, op, a)
  <2>2. /\ q.pc \in {"createSecret", "sweepVersions", "ensure"} /\ q.then = "load" /\ DOMAIN q.todo = {}
        /\ (q.solo <=> alone) /\ q.solo \in BOOLEAN /\ q.op = op /\ (q.pc = "createSecret" => op = "create")
    BY NewRequestIs, RequestIs
  <2>3. alone \in BOOLEAN
    OBVIOUS
  <2> HIDE DEF q, alone
  <2> QED BY <2>1, <2>2, <2>3 DEF q
<1>2. \A d \in Clients : requests[d] # NoRequest => [requests[d] EXCEPT !.solo = FALSE].solo = FALSE
  BY RequestIs DEF Typed
<1>3. ASSUME NEW d \in Clients, requests'[d] # NoRequest, requests'[d].solo
      PROVE  (\A e \in Clients \ {d} : requests'[e] = NoRequest) /\ SoloAt(requests'[d], versions', secret')
  <2>1. d = c
    <3>1. CASE d # c /\ requests[d] = NoRequest
      BY <1>1, <1>3, <3>1
    <3>2. CASE d # c /\ requests[d] # NoRequest
      <4>1. requests'[d] = [requests[d] EXCEPT !.solo = FALSE]
        BY <1>1, <3>2
      <4> QED BY <1>2, <1>3, <3>2, <4>1
    <3> QED BY <3>1, <3>2
  <2>2. requests'[c] = q
    BY <1>1
  <2>3. \A e \in Clients \ {c} : requests[e] = NoRequest
    BY <1>1, <1>3, <2>1, <2>2
  <2>4. \A e \in Clients \ {c} : requests'[e] = NoRequest
    BY <1>1, <2>3
  <2>5. SoloAt(q, versions', secret')
    <3>1. q.pc \in Plain(q) /\ "load" \in Unlisted(q) /\ ~ Beyond(q)
      BY <1>1 DEF Plain, Unlisted, Beyond, Backfilling
    <3> QED BY <1>1, <3>1, PlainSolo DEF Backfilling
  <2> QED BY <2>1, <2>2, <2>4, <2>5
<1>4. \A d \in Clients : requests'[d] # NoRequest /\ requests'[d].solo =>
         (\A e \in Clients \ {d} : requests'[e] = NoRequest) /\ SoloAt(requests[d], versions, secret)'
  BY <1>3 DEF SoloAt, Cleared, Promoted, OnlyCurrent, Future, Rows, Beyond, Unlisted
<1>5. CurrentAfterSolo'
  BY DEF Arrive, CurrentAfterSolo
<1> QED BY <1>4, <1>5 DEF SoloInv

LEMMA SoloStep == Typed /\ SealInv /\ SoloInv /\ [SecretNext]_secretVars => SoloInv'
<1> SUFFICES ASSUME Typed, SealInv, SoloInv, [SecretNext]_secretVars PROVE SoloInv'
  OBVIOUS
<1>1. CASE UNCHANGED secretVars
  BY <1>1 DEF secretVars, SoloInv, SoloAt, Cleared, Promoted, OnlyCurrent, Future, Rows, Beyond, Unlisted, CurrentAfterSolo, Holders, Listed
<1>2. ASSUME NEW c \in Clients, Step(c) PROVE SoloInv'
  BY <1>2, SoloSweep, SoloEnsure, SoloCreate, SoloLoad, SoloReads, SoloLabel, SoloPutList, SoloPutRecord, SoloPut, SoloPutParent,
     SoloAddWrite, SoloPreviousList, SoloSync DEF Step
<1>3. ASSUME NEW c \in Clients, Fail(c) PROVE SoloInv'
  BY <1>3, SoloFailed DEF Fail
<1>4. CASE Elapse
  <2>1. requests' = requests /\ versions' = versions /\ settled' = None
    BY <1>4 DEF Elapse
  <2>2. secret' # None
    <3>1. secret' \in Secret
      BY <1>4 DEF Elapse, Typed, Secret
    <3> QED BY <3>1, NoneAssumption
  <2>3. \A d \in Clients : SoloAt(requests[d], versions, secret) => SoloAt(requests'[d], versions', secret')
    BY <2>1, <2>2 DEF SoloAt, Backfilling
  <2>4. \A d \in Clients : SoloAt(requests[d], versions, secret) => SoloAt(requests[d], versions, secret)'
    BY <2>3 DEF SoloAt, Cleared, Promoted, OnlyCurrent, Future, Rows, Beyond, Unlisted
  <2>5. CurrentAfterSolo'
    BY <2>1 DEF CurrentAfterSolo
  <2> QED BY <2>1, <2>4, <2>5 DEF SoloInv
<1> QED BY <1>1, <1>2, <1>3, <1>4, SoloBegin DEF SecretNext

\* Whatever wreck earlier requests left, a request that runs alone to its end leaves
\* its version the one current version, a put at most one previous version besides one it
\* asked for, and a move the secret with the version's value: the lists of labels it reads
\* cover every row that would be in the way, as long as nobody else writes
\* (secrets_versions.go:591-630, 714-755; secretsmanager.go:538-612).
THEOREM SoloSettles == SecretSpec => []CurrentAfterSolo
<1>1. SecretInit => Typed /\ SealInv /\ SoloInv
  <2>1. SecretInit => SealInv
    BY DEF SecretInit, SealInv, Readable, Gone, Listed, At, NoRequest
  <2>2. SecretInit => SoloInv
    BY DEF SecretInit, SoloInv, CurrentAfterSolo
  <2> QED BY <2>1, <2>2, TypedInit
<1>2. Typed /\ SealInv /\ SoloInv /\ [SecretNext]_secretVars => (Typed /\ SealInv /\ SoloInv)'
  BY TypedStep, SealStep, SoloStep
<1>3. SoloInv => CurrentAfterSolo
  BY DEF SoloInv
<1> QED BY <1>1, <1>2, <1>3, PTL DEF SecretSpec
=============================================================================
