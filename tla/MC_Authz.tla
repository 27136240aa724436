------------------------------- MODULE MC_Authz -------------------------------
(* Small sets of documents for TLC. *)
EXTENDS AuthzRequests

Statement(effect, names, condition) ==
    [effect |-> effect, names |-> names, covers |-> TRUE, condition |-> condition]

Grant(names) == Statement("Allow", names, "match")
Refusal(names) == Statement("Deny", names, "match")

\* A statement on other actions whose condition names an unknown key.
Typo == [effect |-> "Deny", names |-> "nobody", covers |-> FALSE, condition |-> "unknown"]
ResourceTypo == [Typo EXCEPT !.names = "everyone"]

MCPlain == {{Grant("nobody")}, {Refusal("nobody")}, {}}

MCResource ==
    {{Grant("caller")}, {Grant("everyone"), Refusal("account")},
     {Grant("account"), Grant("service"), Refusal("provider")},
     {Grant("aws"), Grant("service"), ResourceTypo}}

\* A session of root with a policy is one of GetFederationToken.
MCCredentials ==
    [caller : {"root", "user", "federated"}, session : {{}}] \cup
    {[caller |-> "root", session |-> {{Typo}}],
     [caller |-> "role", session |-> {{Grant("nobody")}}]}

Situation(management, foreign, grant) ==
    [management |-> management, foreign |-> foreign, grant |-> grant, publicRead |-> grant]

MCSituations == {Situation(FALSE, FALSE, FALSE), Situation(TRUE, TRUE, TRUE)}

\* Bound: the identity begins with a grant or with nothing; a refusal or an
\* empty document is a change.
MCInit == Init /\ now.inline \in {{}, {{Grant("nobody")}}}

MCSpec == MCInit /\ [][Next]_vars

=============================================================================
