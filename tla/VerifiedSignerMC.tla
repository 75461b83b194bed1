--------------------------- MODULE VerifiedSignerMC ---------------------------
(* Small instances of VerifiedSigner for TLC.                                  *)
EXTENDS VerifiedSigner, TLC

CONSTANTS key1, key2, digest1, digest2, wiped

MCKeys == {key1, key2}
MCDigests == {digest1, digest2}

MCSymmetry == Permutations(MCKeys) \cup Permutations(MCDigests)
===============================================================================
