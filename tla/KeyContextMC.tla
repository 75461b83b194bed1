----------------------------- MODULE KeyContextMC -----------------------------
(* Small instances of KeyContext for TLC: two slots, a key that both kinds     *)
(* accept and one that is no P-256 private key.                                *)
EXTENDS KeyContext, TLC

CONSTANTS key1, key2, wiped

MCSlots == {0, 1}
MCKeys == {key1, key2}
MCValidPrivate == {key1}
===============================================================================
