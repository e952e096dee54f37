--------------------------- MODULE MCAuthSessions ---------------------------
(* Small instances of AuthSessions for TLC. *)
EXTENDS AuthSessions, TLC

\* Sessions, tokens, codes and handlers are interchangeable.
Symmetry == Permutations(Session) \cup Permutations(Token)
                \cup Permutations(Code) \cup Permutations(Req)
=============================================================================
