----------------------------- MODULE MCVaultCore -----------------------------
(* Small instances of the vault core.                                       *)
EXTENDS VaultCore, TLC

CONSTANTS p1, p2, k1, k2, n1, n2, c1, c2

CallSymmetry == Permutations(Calls) \cup Permutations(Secrets) \cup Permutations(Keys)
                    \cup Permutations(Names)
=============================================================================
