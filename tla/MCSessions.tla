----------------------------- MODULE MCSessions -----------------------------
(* Small instances of WebSessions for TLC: all browsers are one user's. *)
EXTENDS WebSessions, TLC

OwnerOf(c) == CHOOSE u \in User : TRUE

Symmetry == Permutations(Tok) \cup Permutations(Call) \cup Permutations(Client)
=============================================================================
