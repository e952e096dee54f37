------------------------------ MODULE MCRecords ------------------------------
(* Small instances of the components of Records for TLC. *)
EXTENDS Records, TLC

\* RATE_LIMIT_TENANT_RPM and RATE_LIMIT_USER_RPM; a user's request, a login, a
\* service account's.
MCLimit == [k \in {"firm", "user"} |-> IF k = "firm" THEN 2 ELSE 1]
MCKeysOf == {<<"firm", "user">>, <<"firm">>, <<>>}

\* Invitations, tokens, handlers and callers are interchangeable.
Symmetry == Permutations(Invitation) \cup Permutations(Token) \cup Permutations(Req)
                \cup Permutations(Call)
==============================================================================
