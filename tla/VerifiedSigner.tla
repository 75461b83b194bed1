---------------------------- MODULE VerifiedSigner ----------------------------
(***************************************************************************)
(* VerifiedSigner (src/python/batchcrypto/verified.py): a signer that owns *)
(* a GPU runtime, pins the public key it derived itself for every key it   *)
(* loads, demands an epoch with every request, checks every signature      *)
(* against the pin before it returns a batch, and closes itself on any     *)
(* fault of the backend.  The native key table below it follows KeySlots.  *)
(*                                                                         *)
(* The signer's lock is held through each method, so a request is one step *)
(* where it makes one native call after which it only reads.  Loading and  *)
(* retiring first change the native slot, then the pin: a KeyboardInterrupt*)
(* is no Exception, passes the handlers, and leaves the one without the    *)
(* other, so these are two steps with `pending' between them.  A private   *)
(* key stands for its public key as well.  The device is not trusted: what *)
(* it exports and signs may be anything.                                   *)
(***************************************************************************)
EXTENDS KeySlots, Sequences, SequencesExt

CONSTANTS
  Digests,       \* the digests callers have signed
  MaxBatch       \* the largest batch

ASSUME VerifiedSignerAssumption == MaxBatch \in Nat

VARIABLES
  closed,    \* VerifiedSigner._closed
  pins,      \* VerifiedSigner._keys, as a set of [slot, epoch, key]
  runtime,   \* TRUE while the native context exists
  slots,     \* the native context's key table
  pending,   \* the load or retirement whose native call is done, at most one
  granted,   \* history: the generations load_key returned to a caller
  faulty,    \* history: an interrupt, a backend fault or a close() has happened
  returned   \* history: the last batch returned to a caller, at most one

vars == <<closed, pins, runtime, slots, pending, granted, faulty, returned>>

Signature == [key : Keys, digest : Digests, canonical : BOOLEAN]
Batches   == BoundedSeq(Digests, MaxBatch)
Outputs   == BoundedSeq(Signature, MaxBatch)
PinOf(s)  == {p \in pins : p.slot = s}

-------------------------------------------------------------------------------
Init ==
  /\ closed = FALSE
  /\ pins = {}
  /\ runtime = TRUE
  /\ slots = FreshSlots
  /\ pending = {}
  /\ granted = {}
  /\ faulty = FALSE
  /\ returned = {}

\* Mutant: close() forgets the runtime.
Shut_KeepsRuntime ==
  /\ closed' = TRUE
  /\ pins' = {}
  /\ UNCHANGED <<runtime, slots>>

\* close(): the pins are dropped and the native context destroyed.
Shut ==
  /\ closed' = TRUE
  /\ pins' = {}
  /\ runtime' = FALSE
  /\ slots' = [s \in Slots |-> [slots[s] EXCEPT !.key = Wiped, !.loaded = FALSE]]

\* Any exception of the checks: the signer quarantines itself.
Quarantine ==
  /\ Shut
  /\ pending' = {}
  /\ UNCHANGED <<granted, returned>>

\* Mutant: no _live() check.
Ready_NoLive == pending = {}

\* The lock is free and _live() passes.
Ready == pending = {} /\ ~closed

\* load_key up to the native put, which stands outside the try: a refusal is
\* raised to the caller and is no fault.
LoadKey(s, key, expected) ==
  /\ Ready
  /\ PutStatus(slots, s, "p256", key, expected) = "OK"
  /\ slots' = AfterPut(slots, s, "p256", key)
  /\ pending' = {[op |-> "load", slot |-> s, key |-> key, epoch |-> slots'[s].epoch]}
  /\ UNCHANGED <<closed, pins, runtime, granted, faulty, returned>>

\* The rest of load_key: the exported key and epoch are compared with the
\* derived key and the epoch of the put, and only then pinned.
FinishLoad ==
  \E p \in pending :
    /\ p.op = "load"
    /\ \/ \E actual \in Keys, used \in Epochs :
            IF actual = p.key /\ used = p.epoch
            THEN LET pin == [slot |-> p.slot, epoch |-> p.epoch, key |-> p.key]
                 IN /\ pins' = (pins \ PinOf(p.slot)) \cup {pin}
                    /\ granted' = granted \cup {pin}
                    /\ pending' = {}
                    /\ UNCHANGED <<closed, runtime, slots, faulty, returned>>
            ELSE Quarantine /\ faulty' = TRUE
       \/ Quarantine /\ faulty' = TRUE   \* public_key raised

\* retire_key up to the native removal.
RetireKey(s, expected) ==
  /\ Ready
  /\ RemoveStatus(slots, s, expected) = "OK"
  /\ slots' = AfterRemove(slots, s)
  /\ pending' = {[op |-> "retire", slot |-> s, key |-> Wiped, epoch |-> slots'[s].epoch]}
  /\ UNCHANGED <<closed, pins, runtime, granted, faulty, returned>>

\* Mutant: the pin of a retired slot is kept.
FinishRetire_KeepsPin ==
  /\ \E p \in pending : p.op = "retire"
  /\ pending' = {}
  /\ UNCHANGED <<closed, pins, runtime, slots, granted, faulty, returned>>

FinishRetire ==
  \E p \in pending :
    /\ p.op = "retire"
    /\ pins' = pins \ PinOf(p.slot)
    /\ pending' = {}
    /\ UNCHANGED <<closed, runtime, slots, granted, faulty, returned>>

\* A KeyboardInterrupt between the native call and the pin: the lock is released
\* and nothing else is undone.
Interrupt ==
  /\ pending # {}
  /\ pending' = {}
  /\ faulty' = TRUE
  /\ UNCHANGED <<closed, pins, runtime, slots, granted, returned>>

\* Mutant: zip() without the comparison of the lengths.
Verified_NoLength(output, digests, pin, reportExpected) ==
  /\ reportExpected
  /\ \A i \in DOMAIN output \cap DOMAIN digests :
       /\ output[i].canonical
       /\ output[i].key = pin.key /\ output[i].digest = digests[i]

\* What sign() demands of the output before it returns it.
Verified(output, digests, pin, reportExpected) ==
  /\ Len(output) = Len(digests)
  /\ reportExpected
  /\ \A i \in DOMAIN output :
       /\ output[i].canonical
       /\ output[i].key = pin.key /\ output[i].digest = digests[i]

\* sign(): a slot without a pin, or another epoch than the pin's, is refused
\* without a fault; everything that goes wrong after that closes the signer.
\* An empty batch calls the backend as well.
Sign(s, digests, required) ==
  /\ Ready
  /\ \E pin \in PinOf(s) :
       /\ pin.epoch = required
       /\ \/ /\ KeyedStatus(slots[s], "p256", {required}) = "OK"
             /\ \E output \in Outputs, reportExpected \in BOOLEAN :
                  IF Verified(output, digests, pin, reportExpected)
                  THEN /\ returned' = {[slot |-> s, required |-> required,
                                        digests |-> digests, signatures |-> output]}
                       /\ UNCHANGED <<closed, pins, runtime, slots, pending, granted,
                                      faulty>>
                  ELSE Quarantine /\ faulty' = TRUE
          \/ /\ KeyedStatus(slots[s], "p256", {required}) = "OK"
             /\ Quarantine /\ faulty' = TRUE         \* the native call failed
          \/ /\ KeyedStatus(slots[s], "p256", {required}) # "OK"
             /\ Quarantine /\ UNCHANGED faulty       \* the slot refused

Close ==
  /\ pending = {}
  /\ Shut
  /\ faulty' = TRUE
  /\ UNCHANGED <<pending, granted, returned>>

Next ==
  \/ \E s \in Slots, key \in ValidPrivate, expected \in Epochs : LoadKey(s, key, expected)
  \/ FinishLoad
  \/ \E s \in Slots, expected \in Epochs : RetireKey(s, expected)
  \/ FinishRetire
  \/ Interrupt
  \/ \E s \in Slots, digests \in Batches, required \in Epochs : Sign(s, digests, required)
  \/ Close

Spec == Init /\ [][Next]_vars

-------------------------------------------------------------------------------
Pin == [slot : Slots, epoch : Epochs, key : Keys]

\* Every variable has the shape its comment gives; one thread holds the lock.
TypeOK ==
  /\ closed \in BOOLEAN /\ runtime \in BOOLEAN /\ faulty \in BOOLEAN
  /\ pins \subseteq Pin /\ granted \subseteq Pin
  /\ slots \in [Slots -> Slot]
  /\ pending \subseteq [op : {"load", "retire"}, slot : Slots, key : Keys \cup {Wiped},
                        epoch : Epochs]
  /\ returned \subseteq [slot : Slots, required : Epochs, digests : Seq(Digests),
                         signatures : Seq(Signature)]

\* A batch that reaches a caller has one canonical signature per digest, in
\* order, all under the key that load_key granted for exactly the slot and epoch
\* the caller demanded -- whatever the device returned, and however loads and
\* retirements were interrupted.
ReturnedBatchVerifies ==
  \A r \in returned : \E g \in granted :
    /\ g.slot = r.slot /\ g.epoch = r.required
    /\ Len(r.signatures) = Len(r.digests)
    /\ \A i \in DOMAIN r.signatures :
         r.signatures[i] = [key |-> g.key, digest |-> r.digests[i], canonical |-> TRUE]

\* A granted epoch keeps its meaning: two grants of a slot at the same epoch are
\* the same key, even across interrupted loads.
GrantNamesOneKey ==
  \A g, h \in granted : g.slot = h.slot /\ g.epoch = h.epoch => g = h

\* A pin is never ahead of the native slot, and while it has the slot's epoch the
\* slot holds the pinned key; an interrupt can only leave the pin behind, where
\* the native epoch check refuses its use.  A signer that closed, for whatever
\* reason, has destroyed its runtime and has neither key nor pin again.
PinsMatchSlots ==
  /\ TypeOK
  /\ \A p \in pins :
       /\ p.epoch <= slots[p.slot].epoch
       /\ p.epoch = slots[p.slot].epoch =>
            slots[p.slot].loaded /\ slots[p.slot].key = p.key
  /\ closed => ~runtime /\ pins = {} /\ \A s \in Slots : slots[s].key = Wiped

\* Only an interrupt, a fault of the device or a close() ends a signer: no order
\* of legal or stale loads, retirements and signing requests quarantines it.
NoFalseQuarantine == closed => faulty
===============================================================================
