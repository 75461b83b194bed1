------------------------------- MODULE KeySlots -------------------------------
(***************************************************************************)
(* The key table of a native context: sixteen slots, each with the bytes   *)
(* of a key, a 64-bit epoch, a kind and a loaded flag, and the rules by    *)
(* which bc_key_put, bc_key_remove and the keyed operations accept or      *)
(* refuse a request (src/src/abi/batchcrypto_abi.cpp).  The operators take *)
(* the table as an argument, so that KeyContext and VerifiedSigner apply   *)
(* the same rules to the table each of them holds.                         *)
(***************************************************************************)
EXTENDS Integers

CONSTANTS
  Slots,         \* the slot numbers, 0 .. BC_KEY_SLOTS - 1
  Keys,          \* the 32-byte strings callers load
  ValidPrivate,  \* those in 1 .. n-1, the P-256 private keys
  MaxEpoch,      \* stands for UINT64_MAX, the largest value of an epoch
  Wiped          \* what a slot holds after wipe(): no key

ASSUME KeySlotsAssumption ==
  /\ ValidPrivate \subseteq Keys
  /\ MaxEpoch \in Nat \ {0}
  /\ Wiped \notin Keys

Kinds  == {"aes256", "p256"}
Epochs == 0 .. MaxEpoch
Slot   == [key : Keys \cup {Wiped}, epoch : Epochs, kind : Kinds \cup {"none"},
           loaded : BOOLEAN]

FreshSlots == [s \in Slots |-> [key |-> Wiped, epoch |-> 0, kind |-> "none",
                                loaded |-> FALSE]]

\* Mutant: a mutation advances the epoch twice.
Advanced_Twice(epoch) == epoch + 2

\* ++k.epoch on a uint64_t: it wraps, unless a guard keeps it from doing so.
Advanced(epoch) == (epoch + 1) % (MaxEpoch + 1)

\* Mutant: no freeze at the last epoch.
EpochRefused_NoFreeze(k, expected) == k.epoch # expected

\* A mutation names the epoch it expects; a slot at the last epoch is frozen.
EpochRefused(k, expected) == k.epoch # expected \/ k.epoch = MaxEpoch

DuplicateAes(slots, kind, key) ==
  /\ kind = "aes256"
  /\ \E t \in Slots : slots[t].loaded /\ slots[t].kind = kind /\ slots[t].key = key

WellFormed(kind, key) == kind = "p256" => key \in ValidPrivate

\* Mutant: the scan for a duplicate AES key looks at the slot being loaded only.
PutStatus_OwnSlotOnly(slots, s, kind, key, expected) ==
  IF ~WellFormed(kind, key) THEN "INVALID"
  ELSE IF EpochRefused(slots[s], expected) \/ (slots[s].loaded /\ slots[s].key = key)
       THEN "KEY_CONFLICT"
       ELSE "OK"

PutStatus(slots, s, kind, key, expected) ==
  IF ~WellFormed(kind, key) THEN "INVALID"
  ELSE IF EpochRefused(slots[s], expected) \/ DuplicateAes(slots, kind, key)
       THEN "KEY_CONFLICT"
       ELSE "OK"

AfterPut(slots, s, kind, key) ==
  [slots EXCEPT ![s] = [key |-> key, epoch |-> Advanced(@.epoch), kind |-> kind,
                        loaded |-> TRUE]]

RemoveStatus(slots, s, expected) ==
  IF EpochRefused(slots[s], expected) THEN "KEY_CONFLICT"
  ELSE IF ~slots[s].loaded THEN "KEY_MISSING" ELSE "OK"

\* Mutant: retirement clears the flag, not the bytes.
AfterRemove_NoWipe(slots, s) ==
  [slots EXCEPT ![s].epoch = Advanced(@), ![s].loaded = FALSE]

\* Mutant: retirement is not a new epoch.
AfterRemove_SameEpoch(slots, s) ==
  [slots EXCEPT ![s].key = Wiped, ![s].loaded = FALSE]

\* The kind of a retired slot is left as it was.
AfterRemove(slots, s) ==
  [slots EXCEPT ![s] = [key |-> Wiped, epoch |-> Advanced(@.epoch), kind |-> @.kind,
                        loaded |-> FALSE]]

\* Mutant: an older epoch than the one demanded is refused, a newer one is not.
KeyedStatus_AtLeast(k, kind, required) ==
  IF \E e \in required : e > k.epoch THEN "KEY_CONFLICT"
  ELSE IF ~k.loaded THEN "KEY_MISSING"
       ELSE IF k.kind # kind THEN "INVALID" ELSE "OK"

\* What keyed() decides before it calls the engine; required is a set holding
\* the epoch the caller demands, empty for the operations without one.
KeyedStatus(k, kind, required) ==
  IF \E e \in required : e # k.epoch THEN "KEY_CONFLICT"
  ELSE IF ~k.loaded THEN "KEY_MISSING"
       ELSE IF k.kind # kind THEN "INVALID" ELSE "OK"

\* bc_export_public_key checks the slot, but no epoch.
ExportStatus(k) ==
  IF ~k.loaded THEN "KEY_MISSING" ELSE IF k.kind # "p256" THEN "INVALID" ELSE "OK"
===============================================================================
