------------------------- MODULE VerifiedSignerProofs -------------------------
(***************************************************************************)
(* Proofs about VerifiedSigner, for any slots, keys, digests and bounds;   *)
(* and about the handle and lock of the runtime a signer owns, for any     *)
(* threads and calls.                                                      *)
(***************************************************************************)
EXTENDS VerifiedSigner, RuntimeHandle, SequenceTheorems, FiniteSetTheorems, TLAPS

\* A slot that accepts a mutation is below the last epoch, where the 64-bit
\* increment does not wrap.
LEMMA NextEpoch ==
  ASSUME NEW k \in Slot, NEW expected, ~EpochRefused(k, expected)
  PROVE  Advanced(k.epoch) = k.epoch + 1 /\ Advanced(k.epoch) \in Epochs
<1>1. MaxEpoch \in Nat /\ k.epoch \in Nat /\ k.epoch < MaxEpoch
  BY KeySlotsAssumption DEF Epochs, Slot, EpochRefused
<1>2. (k.epoch + 1) % (MaxEpoch + 1) = k.epoch + 1
  BY <1>1
<1> QED
  BY <1>1, <1>2 DEF Advanced, Epochs

\* A sequence of bounded length is a sequence.
LEMMA BoundedIsSeq ==
  ASSUME NEW S, NEW n \in Nat
  PROVE  BoundedSeq(S, n) \subseteq Seq(S)
BY SeqDef DEF BoundedSeq, SeqOf

-------------------------------------------------------------------------------
(* The strengthening: what is between the native call and the pin, and what *)
(* the signer has granted, never falls ahead of the slots. *)

Types ==
  /\ closed \in BOOLEAN /\ runtime \in BOOLEAN /\ faulty \in BOOLEAN
  /\ pins \subseteq Pin /\ granted \subseteq Pin /\ pins \subseteq granted
  /\ slots \in [Slots -> Slot]
  /\ pending \subseteq [op : {"load", "retire"}, slot : Slots, key : Keys \cup {Wiped},
                        epoch : Epochs]
  /\ \A p, q \in pending : p = q
  /\ returned \subseteq [slot : Slots, required : Epochs, digests : Seq(Digests),
                         signatures : Seq(Signature)]

\* The native call of a pending load or retirement has its effect in the slot, under
\* an epoch that nobody was granted.
PendingIsNew ==
  \A p \in pending :
    /\ slots[p.slot].epoch = p.epoch
    /\ \A g \in granted : g.slot = p.slot => g.epoch < p.epoch
    /\ p.op = "load" => /\ slots[p.slot].loaded /\ slots[p.slot].kind = "p256"
                        /\ slots[p.slot].key = p.key /\ p.key \in Keys

\* No grant is ahead of its slot, and one of the slot's epoch names its key.
GrantsBehind ==
  \A g \in granted :
    /\ g.epoch <= slots[g.slot].epoch
    /\ ~closed /\ g.epoch = slots[g.slot].epoch =>
         slots[g.slot].loaded /\ slots[g.slot].key = g.key

\* Without a fault a pin is the slot's, unless the call that changes it is not over.
PinsCurrent ==
  ~faulty => \A p \in pins :
    \/ \E q \in pending : q.slot = p.slot
    \/ /\ slots[p.slot].epoch = p.epoch
       /\ slots[p.slot].loaded /\ slots[p.slot].kind = "p256"

Shutdown ==
  closed => ~runtime /\ pins = {} /\ pending = {} /\ faulty /\ \A s \in Slots : slots[s].key = Wiped

IInv ==
  /\ Types
  /\ PendingIsNew
  /\ GrantsBehind
  /\ GrantNamesOneKey
  /\ PinsCurrent
  /\ Shutdown
  /\ ReturnedBatchVerifies

\* A fresh signer satisfies the invariant.
LEMMA SignerInit == Init => IInv
<1> SUFFICES ASSUME Init PROVE IInv
  OBVIOUS
<1>1. 0 \in Epochs
  BY KeySlotsAssumption DEF Epochs
<1>2. Types
  BY <1>1 DEF Init, Types, FreshSlots, Slot
<1> QED
  BY <1>2 DEF Init, IInv, PendingIsNew, GrantsBehind, GrantNamesOneKey, PinsCurrent, Shutdown,
              ReturnedBatchVerifies

\* Closing keeps the invariant, if it is noted as a fault.
LEMMA SignerShut ==
  ASSUME IInv, Shut, pending' = {}, faulty' = TRUE, UNCHANGED <<granted, returned>>
  PROVE  IInv'
<1>1. \A s \in Slots : /\ slots'[s] = [slots[s] EXCEPT !.key = Wiped, !.loaded = FALSE]
                       /\ slots'[s].epoch = slots[s].epoch
                       /\ slots'[s].key = Wiped
  BY DEF Shut, IInv, Types, Slot
<1>2. slots' \in [Slots -> Slot]
  BY DEF Shut, IInv, Types, Slot
<1>3. Types'
  BY <1>2 DEF Shut, IInv, Types
<1>4. GrantsBehind'
  BY <1>1 DEF Shut, IInv, Types, GrantsBehind, Pin
<1>5. Shutdown'
  BY <1>1 DEF Shut, Shutdown
<1> QED
  BY <1>3, <1>4, <1>5 DEF Shut, IInv, PendingIsNew, GrantNamesOneKey, PinsCurrent,
                          ReturnedBatchVerifies

\* The native part of a load, or of a retirement, advances the epoch of one slot.
LEMMA SignerNative ==
  ASSUME IInv, Ready, NEW p, pending' = {p},
         p \in [op : {"load", "retire"}, slot : Slots, key : Keys \cup {Wiped}, epoch : Epochs],
         slots' \in [Slots -> Slot],
         slots'[p.slot].epoch = slots[p.slot].epoch + 1,
         p.epoch = slots'[p.slot].epoch,
         \A t \in Slots \ {p.slot} : slots'[t] = slots[t],
         p.op = "load" => /\ slots'[p.slot].loaded /\ slots'[p.slot].kind = "p256"
                          /\ slots'[p.slot].key = p.key /\ p.key \in Keys,
         UNCHANGED <<closed, pins, runtime, granted, faulty, returned>>
  PROVE  IInv'
<1>1. Types'
  BY DEF IInv, Types
<1>2. slots[p.slot].epoch \in Nat
  BY DEF IInv, Types, Slot, Epochs
<1>3. \A g \in granted : g.slot \in Slots /\ g.epoch \in Nat /\ g.epoch <= slots[g.slot].epoch
  BY DEF IInv, Types, Pin, GrantsBehind, Epochs
<1>4. PendingIsNew'
  BY <1>2, <1>3 DEF PendingIsNew
<1>5. GrantsBehind'
  <2> SUFFICES ASSUME NEW g \in granted
               PROVE  /\ g.epoch <= slots'[g.slot].epoch
                      /\ ~closed /\ g.epoch = slots'[g.slot].epoch =>
                           slots'[g.slot].loaded /\ slots'[g.slot].key = g.key
    BY DEF GrantsBehind
  <2>1. CASE g.slot = p.slot
    BY <2>1, <1>2, <1>3
  <2>2. CASE g.slot # p.slot
    BY <2>2, <1>3 DEF IInv, GrantsBehind
  <2> QED
    BY <2>1, <2>2
<1>6. PinsCurrent'
  BY DEF IInv, Types, Pin, PinsCurrent, Ready
<1>7. Shutdown'
  BY DEF Ready, Shutdown
<1> QED
  BY <1>1, <1>4, <1>5, <1>6, <1>7 DEF IInv, GrantNamesOneKey, ReturnedBatchVerifies

\* load_key up to the native put keeps the invariant.
LEMMA SignerLoad ==
  ASSUME IInv, NEW s \in Slots, NEW key \in ValidPrivate, NEW expected \in Epochs,
         LoadKey(s, key, expected)
  PROVE  IInv'
<1> DEFINE p == [op |-> "load", slot |-> s, key |-> key, epoch |-> slots'[s].epoch]
<1>1. key \in Keys /\ "p256" \in Kinds /\ slots \in [Slots -> Slot]
  BY KeySlotsAssumption DEF Kinds, IInv, Types
<1>2. /\ slots' \in [Slots -> Slot]
      /\ slots'[s] = [key |-> key, epoch |-> slots[s].epoch + 1, kind |-> "p256", loaded |-> TRUE]
      /\ \A t \in Slots \ {s} : slots'[t] = slots[t]
  BY <1>1, NextEpoch DEF LoadKey, PutStatus, AfterPut, Slot
<1>3. p \in [op : {"load", "retire"}, slot : Slots, key : Keys \cup {Wiped}, epoch : Epochs]
  BY <1>1, <1>2 DEF Slot
<1>4. Ready /\ pending' = {p} /\ UNCHANGED <<closed, pins, runtime, granted, faulty, returned>>
  BY DEF LoadKey
<1>5. PICK q : q = p
  OBVIOUS
<1>6. q.op = "load" /\ q.slot = s /\ q.key = key /\ q.epoch = slots'[s].epoch
  BY <1>5
<1> HIDE DEF p
<1> QED
  BY <1>1, <1>2, <1>3, <1>4, <1>5, <1>6, SignerNative

\* retire_key up to the native removal keeps the invariant.
LEMMA SignerRetire ==
  ASSUME IInv, NEW s \in Slots, NEW expected \in Epochs, RetireKey(s, expected)
  PROVE  IInv'
<1> DEFINE p == [op |-> "retire", slot |-> s, key |-> Wiped, epoch |-> slots'[s].epoch]
<1>1. slots \in [Slots -> Slot]
  BY DEF IInv, Types
<1>2. /\ slots' \in [Slots -> Slot]
      /\ slots'[s] = [key |-> Wiped, epoch |-> slots[s].epoch + 1, kind |-> slots[s].kind,
                      loaded |-> FALSE]
      /\ \A t \in Slots \ {s} : slots'[t] = slots[t]
  BY <1>1, NextEpoch DEF RetireKey, RemoveStatus, AfterRemove, Slot
<1>3. p \in [op : {"load", "retire"}, slot : Slots, key : Keys \cup {Wiped}, epoch : Epochs]
  BY <1>2 DEF Slot
<1>4. Ready /\ pending' = {p} /\ UNCHANGED <<closed, pins, runtime, granted, faulty, returned>>
  BY DEF RetireKey
<1>5. PICK q : q = p
  OBVIOUS
<1>6. q.op = "retire" /\ q.slot = s /\ q.epoch = slots'[s].epoch
  BY <1>5
<1> HIDE DEF p
<1> QED
  BY <1>2, <1>3, <1>4, <1>5, <1>6, SignerNative

\* The pin of a load keeps the invariant, and so does the fault of one.
LEMMA SignerFinishLoad ==
  ASSUME IInv, FinishLoad
  PROVE  IInv'
<1>1. CASE Quarantine /\ faulty' = TRUE
  BY <1>1, SignerShut DEF Quarantine
<1>2. CASE ~(Quarantine /\ faulty' = TRUE)
  <2>1. PICK p \in pending : p.op = "load"
          /\ pins' = (pins \ PinOf(p.slot)) \cup {[slot |-> p.slot, epoch |-> p.epoch, key |-> p.key]}
          /\ granted' = granted \cup {[slot |-> p.slot, epoch |-> p.epoch, key |-> p.key]}
          /\ pending' = {}
          /\ UNCHANGED <<closed, runtime, slots, faulty, returned>>
    BY <1>2 DEF FinishLoad
  <2> DEFINE pin == [slot |-> p.slot, epoch |-> p.epoch, key |-> p.key]
  <2>2. /\ p.slot \in Slots /\ p.epoch \in Epochs /\ p.key \in Keys
        /\ slots[p.slot].epoch = p.epoch /\ slots[p.slot].loaded
        /\ slots[p.slot].kind = "p256" /\ slots[p.slot].key = p.key
        /\ \A g \in granted : g.slot = p.slot => g.epoch < p.epoch
    BY <2>1 DEF IInv, Types, PendingIsNew
  <2>3. pin \in Pin /\ pin.slot = p.slot /\ pin.epoch = p.epoch /\ pin.key = p.key /\ p.epoch \in Nat
    BY <2>2 DEF Pin, Epochs
  <2>4. Types'
    BY <2>1, <2>3 DEF IInv, Types
  <2>5. GrantsBehind'
    BY <2>1, <2>2, <2>3 DEF IInv, GrantsBehind
  <2>6. GrantNamesOneKey'
    <3> SUFFICES ASSUME NEW g \in granted', NEW h \in granted', g.slot = h.slot, g.epoch = h.epoch
                 PROVE  g = h
      BY DEF GrantNamesOneKey
    <3>1. \A x \in granted : x.slot = p.slot => x.epoch # p.epoch
      BY <2>2, <2>3 DEF IInv, Types, Pin, Epochs
    <3> QED
      BY <2>1, <2>3, <3>1 DEF IInv, GrantNamesOneKey
  <2>7. PinsCurrent'
    <3>1. \A x \in pins \ PinOf(p.slot) : x.slot # p.slot
      BY DEF PinOf
    <3>2. \A q \in pending : q = p
      BY <2>1 DEF IInv, Types
    <3> QED
      BY <2>1, <2>2, <2>3, <3>1, <3>2 DEF IInv, PinsCurrent
  <2>8. Shutdown'
    BY <2>1 DEF IInv, Shutdown
  <2>9. PendingIsNew' /\ ReturnedBatchVerifies'
    BY <2>1 DEF IInv, PendingIsNew, ReturnedBatchVerifies
  <2> QED
    BY <2>4, <2>5, <2>6, <2>7, <2>8, <2>9 DEF IInv
<1> QED
  BY <1>1, <1>2

\* Dropping the pin of a retired slot keeps the invariant.
LEMMA SignerFinishRetire ==
  ASSUME IInv, FinishRetire
  PROVE  IInv'
<1>1. PICK p \in pending : p.op = "retire" /\ pins' = pins \ PinOf(p.slot) /\ pending' = {}
        /\ UNCHANGED <<closed, runtime, slots, granted, faulty, returned>>
  BY DEF FinishRetire
<1>2. PinsCurrent'
  <2>1. \A x \in pins \ PinOf(p.slot) : x.slot # p.slot
    BY DEF PinOf
  <2>2. \A q \in pending : q = p
    BY DEF IInv, Types
  <2> QED
    BY <1>1, <2>1, <2>2 DEF IInv, PinsCurrent
<1> QED
  BY <1>1, <1>2 DEF IInv, Types, PendingIsNew, GrantsBehind, GrantNamesOneKey, Shutdown,
                    ReturnedBatchVerifies

\* An interrupt keeps the invariant: it is a fault, and the pins lag behind.
LEMMA SignerInterrupt ==
  ASSUME IInv, Interrupt
  PROVE  IInv'
<1>1. Types'
  BY DEF IInv, Types, Interrupt
<1> QED
  BY <1>1 DEF Interrupt, IInv, PendingIsNew, GrantsBehind, GrantNamesOneKey, PinsCurrent, Shutdown,
         ReturnedBatchVerifies

\* A signing request keeps the invariant: without a fault before, the slot of a pin
\* does not refuse.
LEMMA SignerSign ==
  ASSUME IInv, NEW s \in Slots, NEW digests \in Batches, NEW required \in Epochs,
         Sign(s, digests, required)
  PROVE  IInv'
<1>1. PICK pin \in PinOf(s) :
        /\ pin.epoch = required
        /\ \/ \E output \in Outputs, reportExpected \in BOOLEAN :
                /\ Verified(output, digests, pin, reportExpected)
                /\ returned' = {[slot |-> s, required |-> required,
                                 digests |-> digests, signatures |-> output]}
                /\ UNCHANGED <<closed, pins, runtime, slots, pending, granted, faulty>>
           \/ Quarantine /\ faulty' = TRUE
           \/ /\ KeyedStatus(slots[s], "p256", {required}) # "OK"
              /\ Quarantine /\ UNCHANGED faulty
  BY DEF Sign
<1>2. pin \in granted /\ pin.slot = s /\ pin.epoch = required /\ pin \in pins
  BY <1>1 DEF PinOf, IInv, Types
<1>3. CASE Quarantine /\ faulty' = TRUE
  BY <1>3, SignerShut DEF Quarantine
<1>4. CASE KeyedStatus(slots[s], "p256", {required}) # "OK" /\ Quarantine /\ UNCHANGED faulty
  <2>1. faulty
    BY <1>2, <1>4 DEF Sign, Ready, IInv, PinsCurrent, KeyedStatus
  <2>2. faulty' = TRUE
    BY <2>1, <1>4 DEF IInv, Types
  <2> QED
    BY <2>2, <1>4, SignerShut DEF Quarantine
<1>5. CASE \E output \in Outputs, reportExpected \in BOOLEAN :
             /\ Verified(output, digests, pin, reportExpected)
             /\ returned' = {[slot |-> s, required |-> required,
                              digests |-> digests, signatures |-> output]}
             /\ UNCHANGED <<closed, pins, runtime, slots, pending, granted, faulty>>
  <2>1. PICK output \in Outputs, reportExpected \in BOOLEAN :
             /\ Verified(output, digests, pin, reportExpected)
             /\ returned' = {[slot |-> s, required |-> required,
                              digests |-> digests, signatures |-> output]}
             /\ UNCHANGED <<closed, pins, runtime, slots, pending, granted, faulty>>
    BY <1>5
  <2>2. output \in Seq(Signature) /\ digests \in Seq(Digests)
    BY VerifiedSignerAssumption, BoundedIsSeq DEF Outputs, Batches
  <2>3. /\ Len(output) = Len(digests)
        /\ \A i \in DOMAIN output :
             output[i] = [key |-> pin.key, digest |-> digests[i], canonical |-> TRUE]
    <3>1. \A i \in DOMAIN output : output[i] \in Signature
      BY <2>2
    <3>2. \A i \in DOMAIN output : output[i].canonical = TRUE
      BY <2>1, <3>1 DEF Verified, Signature
    <3> QED
      BY <2>1, <3>1, <3>2 DEF Verified, Signature
  <2>4. ReturnedBatchVerifies'
    BY <1>2, <2>1, <2>3 DEF ReturnedBatchVerifies
  <2>5. Types'
    BY <2>1, <2>2 DEF IInv, Types
  <2> QED
    BY <2>1, <2>4, <2>5 DEF IInv, PendingIsNew, GrantsBehind, GrantNamesOneKey, PinsCurrent,
                      Shutdown
<1> QED
  BY <1>1, <1>3, <1>4, <1>5

\* Every step keeps the invariant.
LEMMA SignerStep == IInv /\ [Next]_vars => IInv'
<1> SUFFICES ASSUME IInv, [Next]_vars PROVE IInv'
  OBVIOUS
<1>1. CASE \E s \in Slots, key \in ValidPrivate, expected \in Epochs : LoadKey(s, key, expected)
  BY <1>1, SignerLoad
<1>2. CASE FinishLoad
  BY <1>2, SignerFinishLoad
<1>3. CASE \E s \in Slots, expected \in Epochs : RetireKey(s, expected)
  BY <1>3, SignerRetire
<1>4. CASE FinishRetire
  BY <1>4, SignerFinishRetire
<1>5. CASE Interrupt
  BY <1>5, SignerInterrupt
<1>6. CASE \E s \in Slots, digests \in Batches, required \in Epochs : Sign(s, digests, required)
  BY <1>6, SignerSign
<1>7. CASE Close
  BY <1>7, SignerShut DEF Close
<1>8. CASE UNCHANGED vars
  BY <1>8 DEF vars, IInv, Types, PendingIsNew, GrantsBehind, GrantNamesOneKey, PinsCurrent,
              Shutdown, ReturnedBatchVerifies
<1> QED
  BY <1>1, <1>2, <1>3, <1>4, <1>5, <1>6, <1>7, <1>8 DEF Next

\* The invariant holds of a signer for its whole life.
THEOREM SignerSafe == Spec => []IInv
BY SignerInit, SignerStep, PTL DEF Spec

\* For any keys and digests and any device: what leaves a signer is one canonical
\* signature per digest, under the key that was granted for the demanded epoch.
THEOREM SignerReturnsVerified == Spec => []ReturnedBatchVerifies
<1>1. IInv => ReturnedBatchVerifies
  BY DEF IInv
<1> QED
  BY <1>1, SignerSafe, PTL

\* For any keys and any interrupts: a granted epoch of a slot names one key.
THEOREM SignerGrantsNameKeys == Spec => []GrantNamesOneKey
<1>1. IInv => GrantNamesOneKey
  BY DEF IInv
<1> QED
  BY <1>1, SignerSafe, PTL

\* For any keys and any interrupts: no pin is ahead of its slot, one of the slot's
\* epoch is its key, and a signer that closed has neither key nor pin.
THEOREM SignerPinsMatch == Spec => []PinsMatchSlots
<1>1. IInv => PinsMatchSlots
  <2> SUFFICES ASSUME IInv PROVE PinsMatchSlots
    OBVIOUS
  <2>1. TypeOK
    BY DEF IInv, Types, TypeOK
  <2>2. \A p \in pins : p \in granted /\ ~closed
    BY DEF IInv, Types, Shutdown
  <2> QED
    BY <2>1, <2>2 DEF IInv, GrantsBehind, Shutdown, PinsMatchSlots
<1> QED
  BY <1>1, SignerSafe, PTL

\* No order of legal or stale requests closes a signer: it takes a fault.
THEOREM SignerClosedByFault == Spec => []NoFalseQuarantine
<1>1. IInv => NoFalseQuarantine
  BY DEF IInv, Shutdown, NoFalseQuarantine
<1> QED
  BY <1>1, SignerSafe, PTL

-------------------------------------------------------------------------------
(* The handle of a runtime. *)

RuntimeTyped ==
  /\ object \in {"making", "ready", "failed", "gone"}
  /\ context \in {"none", "live", "destroyed"} /\ handle \in BOOLEAN
  /\ holder \in Threads \cup {NoThread} /\ depth \in Nat
  /\ stack \in [Threads -> Seq(Frame)]
  /\ \A t \in Threads : Len(stack[t]) <= MaxNest

\* The calls that have the lock, by their places in a stack.
Locks(f)   == f.at = "native" \/ (f.at = "gather" /\ f.op # "sign")
LocksOf(s) == {i \in 1 .. Len(s) : Locks(s[i])}

\* The lock was taken once for each of them, by one thread.
LockCounted ==
  /\ depth = 0 <=> holder = NoThread
  /\ \A t \in Threads : Cardinality(LocksOf(stack[t])) = IF holder = t THEN depth ELSE 0

\* A call that was called from is consuming its iterable.
Waits(s) == \A i \in 1 .. Len(s) - 1 : s[i].at = "gather"

OnlyTopActs == \A t \in Threads : Waits(stack[t])

\* What the library was given when the call entered it is what there is now.
Usable(s, live) == s # <<>> /\ s[Len(s)].at = "native" /\ s[Len(s)].alive => live

AliveIsLive == \A t \in Threads : Usable(stack[t], handle)

BusyIsReady == \A t \in Threads : stack[t] # <<>> => object = "ready"

HandleInv == RuntimeTyped /\ LockCounted /\ OnlyTopActs /\ AliveIsLive /\ BusyIsReady

RuntimeInv == HandleInv /\ HandleIsContext /\ AnswersAreWhole

-------------------------------------------------------------------------------
\* The places of a stack are finitely many.
LEMMA LocksFinite ==
  ASSUME NEW s \in Seq(Frame)
  PROVE  IsFiniteSet(LocksOf(s)) /\ Cardinality(LocksOf(s)) \in 0 .. Len(s)
<1>1. Len(s) \in Nat /\ LocksOf(s) \in SUBSET (1 .. Len(s))
  BY DEF LocksOf
<1>2. IsFiniteSet(1 .. Len(s)) /\ Cardinality(1 .. Len(s)) = Len(s)
  <2>1. PICK n : n = Len(s)
    OBVIOUS
  <2>2. n \in Int /\ n >= 0
    BY <1>1, <2>1
  <2>3. IsFiniteSet(1 .. n) /\ Cardinality(1 .. n) = IF 1 > n THEN 0 ELSE n - 1 + 1
    BY <2>2, FS_Interval
  <2> QED
    BY <2>1, <2>2, <2>3
<1>3. IsFiniteSet(LocksOf(s)) /\ Cardinality(LocksOf(s)) <= Cardinality(1 .. Len(s))
  BY <1>1, <1>2, FS_Subset
<1>4. Cardinality(LocksOf(s)) \in Nat
  BY <1>3, FS_CardinalityType
<1> QED
  BY <1>1, <1>2, <1>3, <1>4

\* A thread with a call that has the lock is its holder.
LEMMA LockerHolds ==
  ASSUME HandleInv, NEW t \in Threads, NEW i \in 1 .. Len(stack[t]), Locks(stack[t][i])
  PROVE  holder = t /\ depth > 0
<1>1. stack[t] \in Seq(Frame)
  BY DEF HandleInv, RuntimeTyped
<1>2. i \in LocksOf(stack[t])
  BY DEF LocksOf
<1>3. Cardinality(LocksOf(stack[t])) # 0
  BY <1>1, <1>2, LocksFinite, FS_EmptySet
<1>4. Cardinality(LocksOf(stack[t])) = IF holder = t THEN depth ELSE 0
  BY DEF HandleInv, LockCounted
<1>5. depth \in Nat
  BY DEF HandleInv, RuntimeTyped
<1> QED
  BY <1>3, <1>4, <1>5

\* The innermost call is called from, goes on or ends.
LEMMA StackPops ==
  ASSUME NEW s \in Seq(Frame), s # <<>>
  PROVE  /\ Front(s) \in Seq(Frame) /\ Len(Front(s)) = Len(s) - 1
         /\ Len(s) \in Nat /\ Len(s) > 0
         /\ \A i \in 1 .. Len(s) - 1 : Front(s)[i] = s[i]
         /\ Last(s) = s[Len(s)] /\ Last(s) \in Frame
<1>1. Len(s) \in Nat /\ Len(s) > 0
  OBVIOUS
<1>2. PICK n : n = Len(s) - 1
  OBVIOUS
<1>3. n \in Nat /\ \A i \in 1 .. n : s[i] \in Frame
  BY <1>1, <1>2
<1>4. /\ SubSeq(s, 1, n) \in Seq(Frame) /\ Len(SubSeq(s, 1, n)) = n
      /\ \A i \in 1 .. n : SubSeq(s, 1, n)[i] = s[i]
  BY <1>1, <1>2, <1>3, SubSeqProperties
<1>5. Front(s) = SubSeq(s, 1, n)
  BY <1>2 DEF Front
<1>6. Last(s) = s[Len(s)] /\ s[Len(s)] \in Frame
  BY <1>1 DEF Last
<1> QED
  BY <1>1, <1>2, <1>4, <1>5, <1>6


\* A call is added to a stack.
LEMMA StackGrows ==
  ASSUME NEW s \in Seq(Frame), NEW f \in Frame
  PROVE  /\ Append(s, f) \in Seq(Frame) /\ Len(Append(s, f)) = Len(s) + 1 /\ Len(s) \in Nat
         /\ \A i \in 1 .. Len(s) : Append(s, f)[i] = s[i]
         /\ Append(s, f)[Len(s) + 1] = f
BY AppendProperties

\* The stack of a thread after its innermost call ended, was called from or moved on.
Shortened(s, r) == /\ s \in Seq(Frame) /\ s # <<>> /\ r \in Seq(Frame) /\ Len(r) = Len(s) - 1
                /\ \A i \in 1 .. Len(r) : r[i] = s[i]

Grown(s, r, f) == /\ s \in Seq(Frame) /\ f \in Frame /\ r \in Seq(Frame) /\ Len(r) = Len(s) + 1
                  /\ \A i \in 1 .. Len(s) : r[i] = s[i]
                  /\ r[Len(r)] = f

\* The calls with the lock stay the same, but for the innermost.
LEMMA ShortenedLocks ==
  ASSUME NEW s, NEW r, Shortened(s, r), Waits(s)
  PROVE  /\ Waits(r)
         /\ \A live : Usable(r, live)
         /\ Cardinality(LocksOf(r)) =
              Cardinality(LocksOf(s)) - (IF Locks(s[Len(s)]) THEN 1 ELSE 0)
<1>1. Len(s) \in Nat /\ Len(s) > 0 /\ Len(r) = Len(s) - 1 /\ s \in Seq(Frame) /\ r \in Seq(Frame)
  BY DEF Shortened
<1>2. \A i \in 1 .. Len(r) : r[i] = s[i] /\ r[i].at = "gather"
  BY <1>1 DEF Shortened, Waits
<1>3. Waits(r) /\ \A live : Usable(r, live)
  BY <1>1, <1>2 DEF Waits, Usable
<1>4. IsFiniteSet(LocksOf(s)) /\ Cardinality(LocksOf(s)) \in Nat
  BY <1>1, LocksFinite
<1>5. ASSUME Locks(s[Len(s)])
      PROVE  Cardinality(LocksOf(r)) = Cardinality(LocksOf(s)) - 1
  <2>1. Len(s) \in LocksOf(s) /\ LocksOf(r) = LocksOf(s) \ {Len(s)}
    BY <1>1, <1>2, <1>5 DEF LocksOf
  <2>2. Cardinality(LocksOf(s) \ {Len(s)}) = Cardinality(LocksOf(s)) - 1
    BY <1>4, <2>1, FS_RemoveElement
  <2> QED
    BY <1>5, <2>1, <2>2
<1>6. ASSUME ~Locks(s[Len(s)])
      PROVE  Cardinality(LocksOf(r)) = Cardinality(LocksOf(s))
  <2>1. LocksOf(r) = LocksOf(s)
    BY <1>1, <1>2, <1>6 DEF LocksOf
  <2> QED
    BY <1>4, <1>6, <2>1
<1> QED
  BY <1>3, <1>4, <1>5, <1>6

\* Likewise for a stack that a call is added to.
LEMMA GrownLocks ==
  ASSUME NEW s, NEW r, NEW f, Grown(s, r, f), Waits(s), s # <<>> => s[Len(s)].at = "gather"
  PROVE  /\ Waits(r)
         /\ \A live : Usable(r, live) <=> (f.at = "native" /\ f.alive => live)
         /\ Cardinality(LocksOf(r)) = Cardinality(LocksOf(s)) + (IF Locks(f) THEN 1 ELSE 0)
<1>1. /\ Len(s) \in Nat /\ Len(r) = Len(s) + 1 /\ s \in Seq(Frame) /\ r \in Seq(Frame)
      /\ r[Len(r)] = f /\ r # <<>>
  BY DEF Grown
<1>2. \A i \in 1 .. Len(s) : r[i] = s[i] /\ r[i].at = "gather"
  <2>1. \A i \in 1 .. Len(s) : r[i] = s[i]
    BY DEF Grown
  <2>2. \A i \in 1 .. Len(s) : i \in 1 .. Len(s) - 1 \/ i = Len(s)
    BY <1>1
  <2>3. \A i \in 1 .. Len(s) : s[i].at = "gather"
    BY <1>1, <2>2 DEF Waits
  <2> QED
    BY <2>1, <2>3
<1>3. Waits(r)
  BY <1>1, <1>2 DEF Waits
<1>4. \A live : Usable(r, live) <=> (f.at = "native" /\ f.alive => live)
  BY <1>1 DEF Usable
<1>5. IsFiniteSet(LocksOf(s)) /\ Cardinality(LocksOf(s)) \in Nat
  BY <1>1, LocksFinite
<1>6. ASSUME Locks(f)
      PROVE  Cardinality(LocksOf(r)) = Cardinality(LocksOf(s)) + 1
  <2>1. Len(r) \notin LocksOf(s) /\ LocksOf(r) = LocksOf(s) \cup {Len(r)}
    BY <1>1, <1>2, <1>6 DEF LocksOf
  <2>2. Cardinality(LocksOf(s) \cup {Len(r)}) = Cardinality(LocksOf(s)) + 1
    BY <1>5, <2>1, FS_AddElement
  <2> QED
    BY <1>6, <2>1, <2>2
<1>7. ASSUME ~Locks(f)
      PROVE  Cardinality(LocksOf(r)) = Cardinality(LocksOf(s))
  <2>1. LocksOf(r) = LocksOf(s)
    BY <1>1, <1>2, <1>7 DEF LocksOf
  <2> QED
    BY <1>5, <1>7, <2>1
<1> QED
  BY <1>3, <1>4, <1>5, <1>6, <1>7

\* A step of one thread, which may have taken or released the lock.
LEMMA ThreadMoves ==
  ASSUME HandleInv, NEW t \in Threads, NEW r \in Seq(Frame), stack' = [stack EXCEPT ![t] = r],
         Len(r) <= MaxNest, Waits(r), Usable(r, handle'), UNCHANGED object,
         r # <<>> => object = "ready",
         context' \in {"none", "live", "destroyed"}, handle' \in BOOLEAN,
         UNCHANGED handle \/ holder = t,
         \/ UNCHANGED <<holder, depth>>
         \/ /\ holder \in {NoThread, t} /\ depth' \in Nat
            /\ holder' = IF depth' = 0 THEN NoThread ELSE t,
         Cardinality(LocksOf(r)) = IF holder' = t THEN depth' ELSE 0
  PROVE  HandleInv'
<1> USE DEF HandleInv
<1>1. /\ stack' \in [Threads -> Seq(Frame)] /\ stack'[t] = r
      /\ \A u \in Threads : u # t => stack'[u] = stack[u]
  BY DEF RuntimeTyped
<1>2. /\ holder' \in Threads \cup {NoThread} /\ depth' \in Nat
      /\ depth' = 0 <=> holder' = NoThread
      /\ \A u \in Threads : u # t => (IF holder' = u THEN depth' ELSE 0) = (IF holder = u THEN depth ELSE 0)
  BY RuntimeHandleAssumption DEF RuntimeTyped, LockCounted
<1>3. RuntimeTyped'
  BY <1>1, <1>2 DEF RuntimeTyped
<1>4. LockCounted'
  BY <1>1, <1>2 DEF LockCounted
<1>5. OnlyTopActs' /\ BusyIsReady'
  BY <1>1 DEF OnlyTopActs, BusyIsReady
<1>6. ASSUME NEW u \in Threads
      PROVE  Usable(stack'[u], handle')
  <2>1. CASE u = t
    BY <1>1, <2>1
  <2>2. CASE u # t /\ UNCHANGED handle
    BY <1>1, <2>2 DEF AliveIsLive
  <2>3. CASE u # t /\ holder = t
    <3>1. stack[u] # <<>> => stack[u][Len(stack[u])].at # "native"
      <4> SUFFICES ASSUME stack[u] # <<>>, stack[u][Len(stack[u])].at = "native"
                   PROVE  FALSE
        OBVIOUS
      <4>1. Len(stack[u]) \in 1 .. Len(stack[u])
        BY DEF RuntimeTyped
      <4> QED
        BY <2>3, <4>1, LockerHolds DEF Locks
    <3> QED
      BY <1>1, <2>3, <3>1 DEF Usable
  <2> QED
    BY <2>1, <2>2, <2>3
<1> QED
  BY <1>3, <1>4, <1>5, <1>6 DEF AliveIsLive

\* The innermost call of a thread ends, and gives the lock back if it had it.
LEMMA CallEnds ==
  ASSUME HandleInv, NEW t \in Threads, stack[t] # <<>>, stack' = Popped(t),
         UNCHANGED object, context' \in {"none", "live", "destroyed"}, handle' \in BOOLEAN,
         UNCHANGED handle \/ holder = t,
         IF Locks(Top(t)) THEN Release(t) ELSE UNCHANGED <<holder, depth>>
  PROVE  HandleInv'
<1>1. PICK s, r : s = stack[t] /\ r = Front(s)
  OBVIOUS
<1>2. s \in Seq(Frame) /\ s # <<>> /\ Len(s) \in Nat /\ Len(s) > 0 /\ Waits(s) /\ Len(s) <= MaxNest
  BY <1>1 DEF HandleInv, RuntimeTyped, OnlyTopActs
<1>3. /\ r \in Seq(Frame) /\ Len(r) = Len(s) - 1 /\ \A i \in 1 .. Len(s) - 1 : r[i] = s[i]
      /\ Top(t) = s[Len(s)] /\ Top(t) \in Frame
  BY <1>1, <1>2, StackPops DEF Top
<1>4. Shortened(s, r)
  BY <1>2, <1>3 DEF Shortened
<1>5. /\ Waits(r) /\ Usable(r, handle')
      /\ Cardinality(LocksOf(r)) = Cardinality(LocksOf(s)) - (IF Locks(s[Len(s)]) THEN 1 ELSE 0)
  BY <1>2, <1>4, ShortenedLocks
<1>6. /\ stack' = [stack EXCEPT ![t] = r] /\ Len(r) <= MaxNest /\ MaxNest \in Nat
      /\ object = "ready"
  BY <1>1, <1>2, <1>3, RuntimeHandleAssumption DEF Popped, HandleInv, BusyIsReady
<1>7. /\ depth \in Nat /\ holder \in Threads \cup {NoThread} /\ (depth = 0 <=> holder = NoThread)
      /\ Cardinality(LocksOf(s)) = IF holder = t THEN depth ELSE 0
  BY <1>1 DEF HandleInv, RuntimeTyped, LockCounted
<1>8. CASE Locks(Top(t))
  <2>1. holder = t /\ depth > 0
    BY <1>1, <1>2, <1>3, <1>8, LockerHolds
  <2>2. depth' = depth - 1 /\ holder' = IF depth' = 0 THEN NoThread ELSE t
    BY <1>3, <1>8, <2>1 DEF Release, NeedsLock, Frame
  <2>3. depth' \in Nat /\ Cardinality(LocksOf(r)) = IF holder' = t THEN depth' ELSE 0
    BY <1>3, <1>5, <1>7, <1>8, <2>1, <2>2, RuntimeHandleAssumption
  <2> QED
    BY <1>3, <1>5, <1>6, <2>1, <2>2, <2>3, ThreadMoves
<1>9. CASE ~Locks(Top(t))
  <2>1. UNCHANGED <<holder, depth>>
    BY <1>9
  <2>2. Cardinality(LocksOf(r)) = IF holder' = t THEN depth' ELSE 0
    BY <1>3, <1>5, <1>7, <1>9, <2>1
  <2> QED
    BY <1>3, <1>5, <1>6, <2>1, <2>2, ThreadMoves
<1> QED
  BY <1>8, <1>9

\* The innermost call of a thread moves on, with the lock it has or just took.
LEMMA CallMovesOn ==
  ASSUME HandleInv, NEW t \in Threads, stack[t] # <<>>,
         NEW to \in {"gather", "lock", "native"}, stack' = To(t, to),
         UNCHANGED <<object, context, handle>>,
         NEW g, g = [Top(t) EXCEPT !.at = to, !.alive = handle],
         \/ (Locks(g) <=> Locks(Top(t))) /\ UNCHANGED <<holder, depth>>
         \/ /\ Locks(g) /\ ~Locks(Top(t))
            /\ holder \in {NoThread, t} /\ holder' = t /\ depth' = depth + 1
  PROVE  HandleInv'
<1>1. PICK s, m, r : s = stack[t] /\ m = Front(s) /\ r = Append(m, g)
  OBVIOUS
<1>2. s \in Seq(Frame) /\ s # <<>> /\ Len(s) \in Nat /\ Len(s) > 0 /\ Waits(s) /\ Len(s) <= MaxNest
  BY <1>1 DEF HandleInv, RuntimeTyped, OnlyTopActs
<1>3. /\ m \in Seq(Frame) /\ Len(m) = Len(s) - 1 /\ \A i \in 1 .. Len(s) - 1 : m[i] = s[i]
      /\ Top(t) = s[Len(s)] /\ Top(t) \in Frame
  BY <1>1, <1>2, StackPops DEF Top
<1>4. Shortened(s, m)
  BY <1>2, <1>3 DEF Shortened
<1>5. /\ Waits(m)
      /\ Cardinality(LocksOf(m)) = Cardinality(LocksOf(s)) - (IF Locks(s[Len(s)]) THEN 1 ELSE 0)
  BY <1>2, <1>4, ShortenedLocks
<1>6. g \in Frame /\ g.at = to /\ g.alive = handle
  BY <1>3 DEF Frame, HandleInv, RuntimeTyped
<1>7. Grown(m, r, g)
  BY <1>1, <1>3, <1>6, StackGrows DEF Grown
<1>8. m # <<>> => m[Len(m)].at = "gather"
  BY <1>2, <1>3 DEF Waits
<1>9. /\ Waits(r) /\ Usable(r, handle')
      /\ Cardinality(LocksOf(r)) = Cardinality(LocksOf(m)) + (IF Locks(g) THEN 1 ELSE 0)
  <2>1. \A live : Usable(r, live) <=> (g.at = "native" /\ g.alive => live)
    BY ONLY <1>5, <1>7, <1>8, GrownLocks
  <2>2. Waits(r) /\ Cardinality(LocksOf(r)) = Cardinality(LocksOf(m)) + (IF Locks(g) THEN 1 ELSE 0)
    BY ONLY <1>5, <1>7, <1>8, GrownLocks
  <2> QED
    BY <1>6, <2>1, <2>2
<1>10. /\ r \in Seq(Frame) /\ Len(r) = Len(s) /\ Len(r) <= MaxNest
       /\ object = "ready" /\ stack' = [stack EXCEPT ![t] = r]
  BY <1>1, <1>2, <1>3, <1>7 DEF To, Grown, HandleInv, BusyIsReady
<1>11. /\ depth \in Nat /\ holder \in Threads \cup {NoThread} /\ (depth = 0 <=> holder = NoThread)
       /\ Cardinality(LocksOf(s)) = IF holder = t THEN depth ELSE 0
       /\ Cardinality(LocksOf(s)) \in Nat
       /\ context \in {"none", "live", "destroyed"} /\ handle \in BOOLEAN
  BY <1>1 DEF HandleInv, RuntimeTyped, LockCounted
<1>12. CASE (Locks(g) <=> Locks(Top(t))) /\ UNCHANGED <<holder, depth>>
  <2>1. Cardinality(LocksOf(r)) = Cardinality(LocksOf(s))
    <3>1. CASE Locks(g) /\ Locks(s[Len(s)])
      BY ONLY <1>5, <1>9, <1>11, <3>1
    <3>2. CASE ~Locks(g) /\ ~Locks(s[Len(s)])
      BY ONLY <1>5, <1>9, <1>11, <3>2
    <3> QED
      BY <1>3, <1>12, <3>1, <3>2
  <2>2. Cardinality(LocksOf(r)) = IF holder' = t THEN depth' ELSE 0
    BY <1>11, <1>12, <2>1
  <2> QED
    BY <1>9, <1>10, <1>11, <1>12, <2>2, ThreadMoves
<1>13. CASE /\ Locks(g) /\ ~Locks(Top(t))
            /\ holder \in {NoThread, t} /\ holder' = t /\ depth' = depth + 1
  <2>1. Cardinality(LocksOf(r)) = Cardinality(LocksOf(s)) + 1
    <3>1. Locks(g) /\ ~Locks(s[Len(s)])
      BY <1>3, <1>13
    <3> QED
      BY ONLY <1>5, <1>9, <1>11, <3>1
  <2>2. /\ Cardinality(LocksOf(r)) = IF holder' = t THEN depth' ELSE 0
        /\ depth' \in Nat /\ depth' # 0
    BY <1>11, <1>13, <2>1
  <2>3. holder' = IF depth' = 0 THEN NoThread ELSE t
    BY <1>13, <2>2
  <2> QED
    BY <1>9, <1>10, <1>11, <1>13, <2>2, <2>3, ThreadMoves
<1> QED
  BY <1>12, <1>13

\* A thread calls.
LEMMA RuntimeCall ==
  ASSUME HandleInv, NEW t \in Threads, NEW op \in Ops, NEW n \in 0 .. MaxItems,
         NEW fits \in BOOLEAN, Call(t, op, n, fits)
  PROVE  HandleInv'
<1>1. PICK f : f = [op |-> op, n |-> n, fits |-> fits, alive |-> FALSE,
                    at |-> IF op = "sign" THEN "gather" ELSE "lock"]
  OBVIOUS
<1>2. f \in Frame /\ ~Locks(f) /\ f.at # "native"
  BY <1>1 DEF Frame, Locks
<1>3. PICK s, r : s = stack[t] /\ r = Append(s, f)
  OBVIOUS
<1>4. s \in Seq(Frame) /\ Len(s) \in Nat /\ Waits(s) /\ MaxNest \in Nat /\ MaxNest > 0
  BY <1>3, RuntimeHandleAssumption DEF HandleInv, RuntimeTyped, OnlyTopActs
<1>5. s # <<>> => Len(s) < MaxNest /\ s[Len(s)].at = "gather"
  BY <1>3, <1>4, StackPops DEF Call, Idle, Top
<1>6. Grown(s, r, f)
  BY <1>2, <1>3, <1>4, StackGrows DEF Grown
<1>7. /\ Waits(r) /\ Usable(r, handle')
      /\ Cardinality(LocksOf(r)) = Cardinality(LocksOf(s))
  <2>1. \A live : Usable(r, live) <=> (f.at = "native" /\ f.alive => live)
    BY <1>4, <1>5, <1>6, GrownLocks
  <2>2. Cardinality(LocksOf(s)) \in Nat
    BY <1>4, LocksFinite
  <2> QED
    BY <1>2, <1>4, <1>5, <1>6, <2>1, <2>2, GrownLocks
<1>8. /\ r \in Seq(Frame) /\ Len(r) <= MaxNest
  <2>1. s = <<>> => Len(s) = 0
    OBVIOUS
  <2> QED
    BY <1>4, <1>5, <1>6, <2>1 DEF Grown
<1>9. /\ stack' = [stack EXCEPT ![t] = r] /\ object = "ready"
      /\ UNCHANGED <<object, context, handle, holder, depth>>
  BY <1>1, <1>3 DEF Call
<1>10. Cardinality(LocksOf(r)) = IF holder' = t THEN depth' ELSE 0
  BY <1>3, <1>7, <1>9 DEF HandleInv, LockCounted
<1>11. context' \in {"none", "live", "destroyed"} /\ handle' \in BOOLEAN
  BY <1>9 DEF HandleInv, RuntimeTyped
<1> QED
  BY <1>7, <1>8, <1>9, <1>10, <1>11, ThreadMoves

\* What is known of the innermost call.
LEMMA TopIs ==
  ASSUME HandleInv, NEW t \in Threads, ~Idle(t)
  PROVE  /\ stack[t] # <<>> /\ Top(t) \in Frame
         /\ Len(stack[t]) \in 1 .. Len(stack[t]) /\ Top(t) = stack[t][Len(stack[t])]
<1>1. stack[t] # <<>> /\ stack[t] \in Seq(Frame)
  BY DEF Idle, HandleInv, RuntimeTyped
<1> QED
  BY <1>1, StackPops DEF Top

\* A call takes the lock, or finds the runtime closed.
LEMMA RuntimeEnter ==
  ASSUME HandleInv, NEW t \in Threads, Enter(t)
  PROVE  HandleInv'
<1>1. /\ ~Idle(t) /\ Top(t).at = "lock"
      /\ MayLock(t) \/ ~NeedsLock(Top(t).op)
      /\ UNCHANGED <<object, context, handle>>
  BY DEF Enter
<1>2. stack[t] # <<>> /\ Top(t) \in Frame /\ NeedsLock(Top(t).op) /\ ~Locks(Top(t))
  <2>1. stack[t] # <<>> /\ Top(t) \in Frame
    BY <1>1, TopIs
  <2> QED
    BY <1>1, <2>1 DEF NeedsLock, Frame, Locks
<1>3. holder \in {NoThread, t}
  BY <1>1, <1>2 DEF MayLock
<1>4. context' \in {"none", "live", "destroyed"} /\ handle' \in BOOLEAN
  BY SMTT(30), <1>1 DEF HandleInv, RuntimeTyped
<1>5. CASE handle
  <2>1. PICK to : to = IF Top(t).op \in Batched THEN "gather" ELSE "native"
    OBVIOUS
  <2>2. PICK g : g = [Top(t) EXCEPT !.at = to, !.alive = handle]
    OBVIOUS
  <2>3. to \in {"gather", "lock", "native"} /\ Locks(g)
    BY <1>2, <2>1, <2>2 DEF Frame, Batched, Locks
  <2>4. stack' = To(t, to) /\ holder' = t /\ depth' = depth + 1
    BY <1>2, <1>5, <2>1 DEF Enter, Acquire
  <2> QED
    BY <1>1, <1>2, <1>3, <2>2, <2>3, <2>4, CallMovesOn
<1>6. CASE ~handle
  <2>1. stack' = Popped(t) /\ UNCHANGED <<holder, depth>>
    BY <1>6 DEF Enter
  <2> QED
    BY <1>1, <1>2, <1>4, <2>1, CallEnds
<1> QED
  BY <1>5, <1>6

\* A batch is there, or refused.
LEMMA RuntimeGathered ==
  ASSUME HandleInv, NEW t \in Threads, Gathered(t)
  PROVE  HandleInv'
<1>1. ~Idle(t) /\ Top(t).at = "gather" /\ UNCHANGED <<object, context, handle>>
  BY DEF Gathered
<1>2. stack[t] # <<>> /\ Top(t) \in Frame /\ (Locks(Top(t)) <=> Top(t).op # "sign")
  BY <1>1, TopIs DEF Locks
<1>3. context' \in {"none", "live", "destroyed"} /\ handle' \in BOOLEAN
  BY SMTT(30), <1>1 DEF HandleInv, RuntimeTyped
<1>4. CASE Top(t).fits
  <2>1. PICK to : to = IF Top(t).op = "sign" THEN "lock" ELSE "native"
    OBVIOUS
  <2>2. PICK g : g = [Top(t) EXCEPT !.at = to, !.alive = handle]
    OBVIOUS
  <2>3. to \in {"gather", "lock", "native"} /\ (Locks(g) <=> Locks(Top(t)))
    BY <1>2, <2>1, <2>2 DEF Frame, Locks
  <2>4. stack' = To(t, to) /\ UNCHANGED <<holder, depth>>
    BY <1>4, <2>1 DEF Gathered
  <2> QED
    BY <1>1, <1>2, <2>2, <2>3, <2>4, CallMovesOn
<1>5. CASE ~Top(t).fits
  <2>1. /\ stack' = Popped(t)
        /\ IF Locks(Top(t)) THEN Release(t) ELSE UNCHANGED <<holder, depth>>
    BY <1>2, <1>5 DEF Gathered, Locked
  <2> QED
    BY <1>1, <1>2, <1>3, <2>1, CallEnds
<1> QED
  BY <1>4, <1>5

\* The library returns.
LEMMA RuntimeReturns ==
  ASSUME HandleInv, NEW t \in Threads, Returns(t)
  PROVE  HandleInv'
<1>1. /\ ~Idle(t) /\ Top(t).at = "native" /\ UNCHANGED object
      /\ stack' = Popped(t) /\ Release(t)
      /\ UNCHANGED <<context, handle>> \/ (context' = "destroyed" /\ handle' = FALSE)
  BY DEF Returns, DataReturns, SmallReturns, CloseReturns
<1>2. stack[t] # <<>> /\ Locks(Top(t))
  BY <1>1, TopIs DEF Locks
<1>3. holder = t
  BY <1>1, <1>2, TopIs, LockerHolds
<1>4. context' \in {"none", "live", "destroyed"} /\ handle' \in BOOLEAN
  BY <1>1 DEF HandleInv, RuntimeTyped
<1> QED
  BY <1>1, <1>2, <1>3, <1>4, CallEnds

\* No call is in progress when the runtime is made or collected.
LEMMA RuntimeAlone ==
  ASSUME HandleInv, Create \/ Configure \/ Collect
  PROVE  HandleInv'
<1>1. /\ UNCHANGED <<holder, depth, stack>> /\ \A t \in Threads : stack[t] = <<>>
      /\ object' \in {"making", "ready", "failed", "gone"}
      /\ context' \in {"none", "live", "destroyed"} /\ handle' \in BOOLEAN
  BY DEF Create, Configure, Collect, AfterBadBackend, Idle, HandleInv, RuntimeTyped, BusyIsReady
<1> QED
  BY <1>1 DEF HandleInv, RuntimeTyped, LockCounted, OnlyTopActs, AliveIsLive, BusyIsReady, Usable

\* Every step of every thread preserves the invariant.
LEMMA RuntimeStep == RuntimeInv /\ [HandleNext]_handleVars => RuntimeInv'
<1> SUFFICES ASSUME RuntimeInv, [HandleNext]_handleVars PROVE RuntimeInv'
  OBVIOUS
<1> USE DEF RuntimeInv
<1>1. HandleInv'
  <2>1. CASE Create \/ Configure \/ Collect
    BY <2>1, RuntimeAlone
  <2>2. ASSUME NEW t \in Threads, NEW op \in Ops, NEW n \in 0 .. MaxItems, NEW fits \in BOOLEAN,
               Call(t, op, n, fits)
        PROVE  HandleInv'
    BY <2>2, RuntimeCall
  <2>3. ASSUME NEW t \in Threads, Enter(t) \/ Gathered(t) \/ Returns(t)
        PROVE  HandleInv'
    BY <2>3, RuntimeEnter, RuntimeGathered, RuntimeReturns
  <2>4. CASE UNCHANGED (handleVars)
    BY <2>4 DEF handleVars, HandleInv, RuntimeTyped, LockCounted, OnlyTopActs, AliveIsLive, BusyIsReady
  <2> QED
    BY <2>1, <2>2, <2>3, <2>4 DEF HandleNext
<1>2. HandleIsContext'
  <2>1. \/ Create \/ Configure \/ Collect \/ UNCHANGED <<object, context, handle>>
        \/ \E t \in Threads : CloseReturns(t)
    BY DEF HandleNext, handleVars, Call, Enter, Gathered, Returns, DataReturns, SmallReturns
  <2> QED
    BY <2>1 DEF HandleIsContext, Create, Configure, Collect, AfterBadBackend, CloseReturns
<1>3. AnswersAreWhole'
  <2>1. \/ UNCHANGED result \/ result' = Nothing \/ \E t \in Threads : DataReturns(t)
    BY DEF HandleNext, handleVars, Create, Configure, Collect, Call, Enter, Gathered, Returns,
           SmallReturns, CloseReturns
  <2>2. CASE UNCHANGED result \/ result' = Nothing
    BY <2>2 DEF AnswersAreWhole, Nothing
  <2>3. ASSUME NEW t \in Threads, DataReturns(t)
        PROVE  AnswersAreWhole'
    <3>1. PICK f : f = Top(t)
      OBVIOUS
    <3>2. f \in Frame
      BY <2>3, <3>1, TopIs DEF DataReturns
    <3>3. f.n \in Nat /\ Asked(f)
      BY <3>2, RuntimeHandleAssumption DEF Frame, Asked
    <3>4. PICK ok \in IF f.alive THEN BOOLEAN ELSE {~Asked(f)}, status \in [1 .. f.n -> Statuses] :
            result' = IF ok /\ \A i \in 1 .. f.n : Listable(f.op, status[i])
                      THEN [op |-> f.op, n |-> f.n, kind |-> "list", out |-> status, ran |-> f.alive]
                      ELSE Nothing
      BY <2>3, <3>1 DEF DataReturns
    <3>5. CASE ok /\ \A i \in 1 .. f.n : Listable(f.op, status[i])
      <4>1. f.alive
        BY <3>3, <3>4, <3>5
      <4>2. Len(status) = f.n
        BY <3>3, <3>4
      <4>3. /\ result'.op = f.op /\ result'.n = f.n /\ result'.kind = "list" /\ result'.out = status
            /\ result'.ran = f.alive
        BY <3>4, <3>5
      <4> QED
        BY <3>5, <4>1, <4>2, <4>3 DEF AnswersAreWhole, Listable
    <3>6. CASE ~(ok /\ \A i \in 1 .. f.n : Listable(f.op, status[i]))
      BY <3>4, <3>6 DEF AnswersAreWhole, Nothing
    <3> QED
      BY <3>5, <3>6
  <2> QED
    BY <2>1, <2>2, <2>3
<1> QED
  BY <1>1, <1>2, <1>3

\* Nobody has the lock of a runtime that is being made.
LEMMA RuntimeInit == HandleInit => RuntimeInv
<1> SUFFICES ASSUME HandleInit PROVE RuntimeInv
  OBVIOUS
<1>1. /\ object = "making" /\ context = "none" /\ handle = FALSE /\ holder = NoThread /\ depth = 0
      /\ stack = [t \in Threads |-> <<>>] /\ result = Nothing
  BY DEF HandleInit
<1>2. stack \in [Threads -> Seq(Frame)] /\ \A t \in Threads : stack[t] = <<>> /\ Len(stack[t]) = 0
  <2>1. <<>> \in Seq(Frame) /\ Len(<<>>) = 0
    OBVIOUS
  <2> QED
    BY <1>1, <2>1
<1>3. RuntimeTyped
  <2>1. \A t \in Threads : Len(stack[t]) <= MaxNest
    BY <1>2, RuntimeHandleAssumption
  <2> QED
    BY <1>1, <1>2, <2>1 DEF RuntimeTyped
<1>4. LockCounted
  <2>1. \A t \in Threads : LocksOf(stack[t]) = {}
    BY <1>2 DEF LocksOf
  <2> QED
    BY <1>1, <2>1, FS_EmptySet DEF LockCounted
<1>5. OnlyTopActs /\ AliveIsLive /\ BusyIsReady
  BY <1>1, <1>2 DEF OnlyTopActs, Waits, AliveIsLive, Usable, BusyIsReady
<1>6. HandleIsContext /\ AnswersAreWhole
  BY <1>1 DEF HandleIsContext, AnswersAreWhole, Nothing
<1> QED
  BY <1>3, <1>4, <1>5, <1>6 DEF RuntimeInv, HandleInv

\* Who is in the library holds the lock, so the context is its own.
LEMMA RuntimeOwns ==
  ASSUME RuntimeInv
  PROVE  ContextIsOwned
<1> USE DEF RuntimeInv
<1>1. HandleTypes
  <2>1. depth \in 0 .. MaxNest
    <3>1. CASE holder = NoThread
      BY <3>1, RuntimeHandleAssumption DEF HandleInv, LockCounted
    <3>2. CASE holder \in Threads
      <4>1. /\ stack[holder] \in Seq(Frame) /\ Len(stack[holder]) <= MaxNest
            /\ Cardinality(LocksOf(stack[holder])) = depth /\ MaxNest \in Nat
        BY <3>2, RuntimeHandleAssumption DEF HandleInv, RuntimeTyped, LockCounted
      <4>2. Cardinality(LocksOf(stack[holder])) \in 0 .. Len(stack[holder])
        BY <4>1, LocksFinite
      <4>3. Len(stack[holder]) \in Nat
        BY <4>1
      <4> QED
        BY <4>1, <4>2, <4>3
    <3> QED
      BY <3>1, <3>2 DEF HandleInv, RuntimeTyped
  <2> QED
    BY <2>1 DEF HandleTypes, HandleInv, RuntimeTyped
<1>2. ASSUME NEW t \in Threads, InNative(t)
      PROVE  holder = t /\ (Top(t).alive => handle)
  <2>1. stack[t] # <<>> /\ Top(t) = stack[t][Len(stack[t])] /\ Len(stack[t]) \in 1 .. Len(stack[t])
    BY <1>2, TopIs DEF InNative
  <2>2. Top(t).at = "native"
    BY <1>2 DEF InNative
  <2> QED
    BY <2>1, <2>2, LockerHolds DEF Locks, HandleInv, AliveIsLive, Usable
<1>3. NoUseAfterDestroy
  BY <1>2 DEF NoUseAfterDestroy, HandleIsContext
<1> QED
  BY <1>1, <1>3 DEF ContextIsOwned

\* For any threads, batches and depth of calls inside calls: the library is never
\* called with a context that is freed or being freed, however threads and
\* iterables close the runtime, and the handle and the context die together.
THEOREM ContextOwned == HandleSpec => []ContextIsOwned
<1>1. HandleInit => RuntimeInv
  BY RuntimeInit
<1>2. RuntimeInv /\ [HandleNext]_handleVars => RuntimeInv'
  BY RuntimeStep
<1>3. RuntimeInv => ContextIsOwned
  BY RuntimeOwns
<1> QED
  BY <1>1, <1>2, <1>3, PTL DEF HandleSpec

\* For the same: a list comes from a call the library ran on a live context, with
\* an item for every input, and None only from open.
THEOREM AnswersWhole == HandleSpec => []AnswersAreWhole
<1>1. HandleInit => RuntimeInv
  BY RuntimeInit
<1>2. RuntimeInv /\ [HandleNext]_handleVars => RuntimeInv'
  BY RuntimeStep
<1>3. RuntimeInv => AnswersAreWhole
  BY DEF RuntimeInv
<1> QED
  BY <1>1, <1>2, <1>3, PTL DEF HandleSpec
===============================================================================
