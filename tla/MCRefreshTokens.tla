--------------------------- MODULE MCRefreshTokens ---------------------------
(* Two devices of one user; the identities of the rows do not matter.      *)
EXTENDS RefreshTokens, TLC

Symmetry == Permutations(Devices) \cup Permutations(Tokens) \cup
            Permutations(Families) \cup Permutations(Requests)
=============================================================================
