--------------------------- MODULE MCVaultSession ---------------------------
(* Small instances of the vault session.                                    *)
EXTENDS VaultSession, TLC

CONSTANTS p1, p2, p3

PassphraseSymmetry == Permutations(Passphrases \ Short)
=============================================================================
