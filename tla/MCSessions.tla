----------------------------- MODULE MCSessions -----------------------------
(***************************************************************************)
(* Sessions for TLC.                                                       *)
(***************************************************************************)
EXTENDS Sessions, TLC

CONSTANTS r1, r2, s1, s2, tokenA, tokenB, old, web, hostA, hostB, u1, u2

\* Two computers of one user, and a token from before computers were managed.
MCUserOf == [c \in Credentials |-> u1]
MCHostOf == [c \in Credentials |-> CASE c = tokenA -> hostA
                                     [] c = tokenB -> hostB
                                     [] OTHER -> NoHost]

\* An unmanaged game: two users, one of whom also comes through the panel.
MCOpenUserOf == [c \in Credentials |-> IF c = tokenB THEN u2 ELSE u1]
MCOpenHostOf == [c \in Credentials |-> NoHost]

Symmetry == Permutations(Requests) \union Permutations(Sessions)
=============================================================================
