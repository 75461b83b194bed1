--------------------------- MODULE KeyContextProofs ---------------------------
(***************************************************************************)
(* Proofs about KeyContext, for any slots, keys and bounds.                *)
(***************************************************************************)
EXTENDS KeyContext, TLAPS

\* Below the last value the 64-bit increment does not wrap.
LEMMA AdvancedBelowLast ==
  ASSUME NEW epoch \in Epochs, epoch # MaxEpoch
  PROVE  Advanced(epoch) = epoch + 1 /\ Advanced(epoch) \in Epochs
<1>1. MaxEpoch \in Nat /\ epoch \in Nat /\ epoch < MaxEpoch
  BY KeySlotsAssumption DEF Epochs
<1>2. (epoch + 1) % (MaxEpoch + 1) = epoch + 1
  BY <1>1
<1> QED
  BY <1>1, <1>2 DEF Advanced, Epochs

\* An accepted put advances the epoch of its slot by one, installs the key there
\* and touches no other slot.
LEMMA PutEffect ==
  ASSUME NEW ss \in [Slots -> Slot], NEW s \in Slots, NEW kind \in Kinds, NEW key \in Keys,
         NEW expected \in Epochs, PutStatus(ss, s, kind, key, expected) = "OK"
  PROVE  LET tt == AfterPut(ss, s, kind, key)
         IN /\ tt \in [Slots -> Slot]
            /\ tt[s] = [key |-> key, epoch |-> ss[s].epoch + 1, kind |-> kind, loaded |-> TRUE]
            /\ \A t \in Slots \ {s} : tt[t] = ss[t]
            /\ ~DuplicateAes(ss, kind, key)
<1>1. ss[s].epoch \in Epochs /\ ss[s].epoch # MaxEpoch /\ ~DuplicateAes(ss, kind, key)
  BY DEF PutStatus, EpochRefused, Slot
<1>2. Advanced(ss[s].epoch) = ss[s].epoch + 1 /\ Advanced(ss[s].epoch) \in Epochs
  BY <1>1, AdvancedBelowLast
<1> QED
  BY <1>1, <1>2 DEF AfterPut, Slot, Kinds

\* An accepted removal advances the epoch of its slot by one and wipes it.
LEMMA RemoveEffect ==
  ASSUME NEW ss \in [Slots -> Slot], NEW s \in Slots, NEW expected \in Epochs,
         RemoveStatus(ss, s, expected) = "OK"
  PROVE  LET tt == AfterRemove(ss, s)
         IN /\ tt \in [Slots -> Slot]
            /\ tt[s] = [key |-> Wiped, epoch |-> ss[s].epoch + 1, kind |-> ss[s].kind,
                        loaded |-> FALSE]
            /\ \A t \in Slots \ {s} : tt[t] = ss[t]
<1>1. ss[s].epoch \in Epochs /\ ss[s].epoch # MaxEpoch /\ ss[s].kind \in Kinds \cup {"none"}
  BY DEF RemoveStatus, EpochRefused, Slot
<1>2. Advanced(ss[s].epoch) = ss[s].epoch + 1 /\ Advanced(ss[s].epoch) \in Epochs
  BY <1>1, AdvancedBelowLast
<1> QED
  BY <1>1, <1>2 DEF AfterRemove, Slot

-------------------------------------------------------------------------------
\* No installed generation is ahead of its slot: the strengthening that makes
\* EpochNamesOneKey inductive, since a new generation then has a new epoch.
NoneAhead == \A g \in installed : g.epoch <= slots[g.slot].epoch

KeysInv ==
  /\ slots \in [Slots -> Slot]
  /\ installed \subseteq Generation
  /\ SlotHoldsItsGeneration
  /\ NoneAhead
  /\ EpochNamesOneKey
  /\ NoSharedAesKey

-------------------------------------------------------------------------------
\* Fresh slots and an empty history satisfy KeysInv.
LEMMA KeysInit == Init => KeysInv
<1> SUFFICES ASSUME Init PROVE KeysInv
  OBVIOUS
<1>1. 0 \in Epochs
  BY KeySlotsAssumption DEF Epochs
<1> QED
  BY <1>1 DEF Init, KeysInv, FreshSlots, Slot, Generation, SlotHoldsItsGeneration, NoneAhead,
              EpochNamesOneKey, NoSharedAesKey

\* bc_key_put keeps KeysInv, whether it accepts or refuses.
LEMMA KeysPut ==
  ASSUME KeysInv, NEW s \in Slots, NEW kind \in Kinds, NEW key \in Keys,
         NEW expected \in Epochs, KeyPut(s, kind, key, expected)
  PROVE  KeysInv'
<1>1. CASE PutStatus(slots, s, kind, key, expected) # "OK"
  BY <1>1 DEF KeyPut, KeysInv, SlotHoldsItsGeneration, NoneAhead, EpochNamesOneKey,
              NoSharedAesKey
<1>2. CASE PutStatus(slots, s, kind, key, expected) = "OK"
  <2> DEFINE new == [slot |-> s, epoch |-> slots[s].epoch + 1, kind |-> kind, key |-> key]
  <2>1. slots' = AfterPut(slots, s, kind, key)
    BY <1>2 DEF KeyPut
  <2>2. /\ slots' \in [Slots -> Slot]
        /\ slots'[s] = [key |-> key, epoch |-> slots[s].epoch + 1, kind |-> kind,
                        loaded |-> TRUE]
        /\ \A t \in Slots \ {s} : slots'[t] = slots[t]
        /\ ~DuplicateAes(slots, kind, key)
    BY <1>2, <2>1, PutEffect DEF KeysInv
  <2>3. installed' = installed \cup {new}
    BY <1>2, <2>2 DEF KeyPut
  <2>4. slots[s].epoch \in Nat /\ slots[s].epoch + 1 \in Epochs
    BY <2>2 DEF KeysInv, Slot, Epochs
  <2>5. new \in Generation /\ installed' \subseteq Generation
    BY <2>3, <2>4 DEF KeysInv, Generation
  <2>6. SlotHoldsItsGeneration'
    BY <2>2, <2>3 DEF KeysInv, SlotHoldsItsGeneration
  <2>7. NoneAhead'
    <3> SUFFICES ASSUME NEW g \in installed' PROVE g.epoch <= slots'[g.slot].epoch
      BY DEF NoneAhead
    <3>1. CASE g = new
      BY <3>1, <2>2, <2>4
    <3>2. CASE g \in installed
      <4>1. g.epoch <= slots[g.slot].epoch /\ g.slot \in Slots /\ g.epoch \in Nat
        BY <3>2 DEF KeysInv, NoneAhead, Generation, Epochs
      <4> QED
        BY <4>1, <2>2, <2>4
    <3> QED
      BY <3>1, <3>2, <2>3
  <2>8. EpochNamesOneKey'
    <3>1. \A g \in installed : g.slot = s => g.epoch # new.epoch
      BY <2>4 DEF KeysInv, NoneAhead, Generation, Epochs
    <3> QED
      BY <3>1, <2>3 DEF KeysInv, EpochNamesOneKey
  <2>9. NoSharedAesKey'
    BY <2>2 DEF KeysInv, NoSharedAesKey, DuplicateAes
  <2> QED
    BY <2>2, <2>5, <2>6, <2>7, <2>8, <2>9 DEF KeysInv
<1> QED
  BY <1>1, <1>2

\* bc_key_remove keeps KeysInv, whether it accepts or refuses.
LEMMA KeysRemove ==
  ASSUME KeysInv, NEW s \in Slots, NEW expected \in Epochs, KeyRemove(s, expected)
  PROVE  KeysInv'
<1>1. CASE RemoveStatus(slots, s, expected) # "OK"
  BY <1>1 DEF KeyRemove, KeysInv, SlotHoldsItsGeneration, NoneAhead, EpochNamesOneKey,
              NoSharedAesKey
<1>2. CASE RemoveStatus(slots, s, expected) = "OK"
  <2>1. /\ slots' \in [Slots -> Slot]
        /\ slots'[s] = [key |-> Wiped, epoch |-> slots[s].epoch + 1, kind |-> slots[s].kind,
                        loaded |-> FALSE]
        /\ \A t \in Slots \ {s} : slots'[t] = slots[t]
        /\ installed' = installed
    BY <1>2, RemoveEffect DEF KeyRemove, KeysInv
  <2>2. slots[s].epoch \in Nat
    BY DEF KeysInv, Slot, Epochs
  <2>3. NoneAhead'
    BY <2>1, <2>2 DEF KeysInv, NoneAhead, Generation, Epochs
  <2>4. SlotHoldsItsGeneration' /\ EpochNamesOneKey' /\ NoSharedAesKey'
    BY <2>1 DEF KeysInv, SlotHoldsItsGeneration, EpochNamesOneKey, NoSharedAesKey
  <2> QED
    BY <2>1, <2>3, <2>4 DEF KeysInv
<1> QED
  BY <1>1, <1>2

\* bc_destroy keeps KeysInv: it wipes slots and leaves their epochs.
LEMMA KeysDestroy ==
  ASSUME KeysInv, Destroy
  PROVE  KeysInv'
<1>1. \A s \in Slots : /\ slots'[s] = [slots[s] EXCEPT !.key = Wiped, !.loaded = FALSE]
                       /\ slots'[s].epoch = slots[s].epoch
                       /\ slots'[s].key = Wiped /\ ~slots'[s].loaded
  BY DEF Destroy, KeysInv, Slot
<1>2. slots' \in [Slots -> Slot] /\ installed' = installed
  BY DEF Destroy, KeysInv, Slot
<1>3. NoneAhead'
  BY <1>1, <1>2 DEF KeysInv, NoneAhead, Generation
<1>4. SlotHoldsItsGeneration' /\ EpochNamesOneKey' /\ NoSharedAesKey'
  BY <1>1, <1>2 DEF KeysInv, SlotHoldsItsGeneration, EpochNamesOneKey, NoSharedAesKey
<1> QED
  BY <1>2, <1>3, <1>4 DEF KeysInv

\* What touches neither slots nor history keeps KeysInv.
LEMMA KeysUnchanged ==
  ASSUME KeysInv, UNCHANGED <<slots, installed>>
  PROVE  KeysInv'
BY DEF KeysInv, SlotHoldsItsGeneration, NoneAhead, EpochNamesOneKey, NoSharedAesKey

\* Every step keeps KeysInv.
LEMMA KeysStep == KeysInv /\ [Next]_vars => KeysInv'
<1> SUFFICES ASSUME KeysInv, [Next]_vars PROVE KeysInv'
  OBVIOUS
<1>1. CASE Create
  BY <1>1, KeysUnchanged DEF Create
<1>2. CASE Destroy
  BY <1>2, KeysDestroy
<1>3. CASE \E b \in Backends : SetBackend(b)
  BY <1>3, KeysUnchanged DEF SetBackend
<1>4. CASE \E s \in Slots, kind \in Kinds, key \in Keys, expected \in Epochs :
             KeyPut(s, kind, key, expected)
  BY <1>4, KeysPut
<1>5. CASE \E s \in Slots, expected \in Epochs : KeyRemove(s, expected)
  BY <1>5, KeysRemove
<1>6. CASE \E op \in KeyedOps, s \in Slots, required \in {{}} \cup {{e} : e \in Epochs},
             n \in 0 .. MaxBatch : Keyed(op, s, required, n)
  BY <1>6, KeysUnchanged DEF Keyed
<1>7. CASE \E n \in 0 .. MaxBatch : Hash(n)
  BY <1>7, KeysUnchanged DEF Hash
<1>8. CASE \E s \in Slots : ExportPublic(s)
  BY <1>8, KeysUnchanged DEF ExportPublic
<1>9. CASE UNCHANGED vars
  BY <1>9, KeysUnchanged DEF vars
<1> QED
  BY <1>1, <1>2, <1>3, <1>4, <1>5, <1>6, <1>7, <1>8, <1>9 DEF Next

\* The epochs of a slot never repeat and name one key each.
THEOREM KeysSafe == Spec => []KeysInv
BY KeysInit, KeysStep, PTL DEF Spec

\* For any number of slots, any keys and any last epoch: an epoch of a slot names
\* at most one key, for the whole life of a context.
THEOREM EpochsNameOneKey == Spec => []EpochNamesOneKey
<1>1. KeysInv => EpochNamesOneKey
  BY DEF KeysInv
<1> QED
  BY <1>1, KeysSafe, PTL

\* What a loaded slot holds is what its epoch names, and an empty one holds nothing.
THEOREM SlotsHoldGenerations == Spec => []SlotHoldsItsGeneration
<1>1. KeysInv => SlotHoldsItsGeneration
  BY DEF KeysInv
<1> QED
  BY <1>1, KeysSafe, PTL

\* For any set of table backends: one that is selected has its table uploaded.
THEOREM SelectedTablesUploaded == Spec => []SelectedTableUploaded
<1>1. Init => SelectedTableUploaded
  BY KeyContextAssumption DEF Init, SelectedTableUploaded
<1>2. SelectedTableUploaded /\ [Next]_vars => SelectedTableUploaded'
  <2> SUFFICES ASSUME SelectedTableUploaded, [Next]_vars PROVE SelectedTableUploaded'
    OBVIOUS
  <2>1. CASE \E b \in Backends : SetBackend(b)
    BY <2>1 DEF SelectedTableUploaded, SetBackend
  <2>2. CASE UNCHANGED <<backend, tables>>
    BY <2>2 DEF SelectedTableUploaded
  <2> QED
    BY <2>1, <2>2 DEF Next, vars, Create, Destroy, KeyPut, KeyRemove, Keyed, Hash, ExportPublic
<1> QED
  BY <1>1, <1>2, PTL DEF Spec

\* No AES key is ever in two slots at once.
THEOREM AesKeysNotShared == Spec => []NoSharedAesKey
<1>1. KeysInv => NoSharedAesKey
  BY DEF KeysInv
<1> QED
  BY <1>1, KeysSafe, PTL

-------------------------------------------------------------------------------
\* The counters and the answers.
Ops == KeyedOps \cup {"none", "create", "destroy", "backend", "put", "remove", "hash",
                      "export"}
StatsType    == [calls : Nat, submitted : Nat, completed : Nat, item_errors : Nat,
                 call_errors : Nat]
AnsweredType == [ok : Nat, failed : Nat, items : Nat, errors : Nat]
AnswerType   == [op : Ops, slot : SUBSET Slots, required : SUBSET Epochs,
                 key : Keys \cup {Wiped}, rc : Statuses, report : Report]

DataOK == stats \in StatsType /\ answered \in AnsweredType /\ last \in AnswerType

\* The initial report, answer and counters have their types.
LEMMA ZeroTypes == ZeroReport \in Report /\ NoAnswer \in AnswerType /\ ZeroStats \in StatsType
<1>1. 0 \in Epochs
  BY KeySlotsAssumption DEF Epochs
<1>2. ZeroReport \in Report
  BY <1>1 DEF ZeroReport, Report
<1> QED
  BY <1>2 DEF NoAnswer, AnswerType, Ops, Statuses, ZeroStats, StatsType

\* A reply leaves the counters alone and is an answer.
LEMMA ReplyType ==
  ASSUME DataOK, NEW op \in Ops, NEW slot \in SUBSET Slots, NEW rc \in Statuses,
         Reply(op, slot, rc)
  PROVE  DataOK' /\ UNCHANGED <<stats, answered>> /\ last'.op = op
BY ZeroTypes DEF DataOK, Reply, NoAnswer, AnswerType

\* A data call counts what it reports.
LEMMA AnswerEffect ==
  ASSUME DataOK, NEW op \in KeyedOps \cup {"hash"}, NEW slot \in SUBSET Slots,
         NEW required \in SUBSET Epochs, NEW key \in Keys \cup {Wiped},
         NEW rc \in Statuses, NEW n \in Nat, NEW errors \in Nat, NEW epoch \in Epochs,
         Answer(op, slot, required, key, rc, n, errors, epoch)
  PROVE  /\ DataOK'
         /\ CountersMatchReports => CountersMatchReports'
         /\ last'.op = op /\ last'.slot = slot /\ last'.required = required
         /\ last'.key = key /\ last'.rc = rc
         /\ rc = "OK" => last'.report.key_epoch = epoch
<1> DEFINE report == IF rc = "MEMORY" THEN ZeroReport ELSE Accounted(rc, n, errors, epoch)
<1>1. /\ report \in Report
      /\ rc = "OK" => /\ report.key_epoch = epoch
                      /\ report.submitted = n /\ report.errors = errors
      /\ rc # "OK" => report.submitted = 0 /\ report.errors = 0
  BY ZeroTypes DEF Accounted, ZeroReport, Report
<1>2. last' = [op |-> op, slot |-> slot, required |-> required, key |-> key, rc |-> rc,
               report |-> report]
  BY DEF Answer
<1>3. answered' = [ok |-> answered.ok + (IF rc = "OK" THEN 1 ELSE 0),
                   failed |-> answered.failed + (IF rc = "OK" THEN 0 ELSE 1),
                   items |-> answered.items + report.submitted,
                   errors |-> answered.errors + report.errors]
  BY DEF Answer, DataOK, AnsweredType
<1>4. stats' = IF rc = "MEMORY" THEN stats ELSE Counted(stats, rc, n, errors)
  BY DEF Answer
<1>5. last' \in AnswerType
  BY <1>1, <1>2 DEF AnswerType, Ops
<1>6. answered' \in AnsweredType
  BY <1>1, <1>3 DEF DataOK, AnsweredType, Report
<1>7. stats' \in StatsType
  <2>1. Counted(stats, rc, n, errors) \in StatsType
    <3>1. CASE rc = "OK"
      <4>1. Counted(stats, rc, n, errors) =
              [calls |-> stats.calls + 1, submitted |-> stats.submitted + n,
               completed |-> stats.completed + n, item_errors |-> stats.item_errors + errors,
               call_errors |-> stats.call_errors]
        BY <3>1 DEF DataOK, StatsType, Counted
      <4> QED
        BY <4>1 DEF DataOK, StatsType
    <3>2. CASE rc # "OK"
      <4>1. Counted(stats, rc, n, errors) =
              [calls |-> stats.calls + 1, submitted |-> stats.submitted,
               completed |-> stats.completed, item_errors |-> stats.item_errors,
               call_errors |-> stats.call_errors + 1]
        BY <3>2 DEF DataOK, StatsType, Counted
      <4> QED
        BY <4>1 DEF DataOK, StatsType
    <3> QED
      BY <3>1, <3>2
  <2> QED
    BY <1>4, <2>1 DEF DataOK
<1>8. CountersMatchReports => CountersMatchReports'
  <2>1. CASE rc = "OK"
    BY <2>1, <1>1, <1>3, <1>4 DEF CountersMatchReports, Counted, DataOK, StatsType, AnsweredType
  <2>2. CASE rc = "MEMORY"
    BY <2>2, <1>1, <1>3, <1>4 DEF CountersMatchReports, DataOK, StatsType, AnsweredType
  <2>3. CASE rc # "OK" /\ rc # "MEMORY"
    BY <2>3, <1>1, <1>3, <1>4 DEF CountersMatchReports, Counted, DataOK, StatsType, AnsweredType
  <2> QED
    BY <2>1, <2>2, <2>3
<1> QED
  BY <1>1, <1>2, <1>5, <1>6, <1>7, <1>8 DEF DataOK

-------------------------------------------------------------------------------
\* The whole inductive invariant.
IInv == TypeOK /\ KeysInv /\ AnswerNamesKeyUsed /\ CountersMatchReports

\* TypeOK, regrouped.
LEMMA TypeSplit ==
  TypeOK <=> /\ context \in {"none", "live", "destroyed"}
             /\ backend \in Backends /\ tables \subseteq TableBackends
             /\ slots \in [Slots -> Slot] /\ installed \subseteq Generation
             /\ DataOK
BY DEF TypeOK, DataOK, StatsType, AnsweredType, AnswerType, Ops

\* What a call that is no data call has to show.
LEMMA ReplyKeeps ==
  ASSUME IInv, KeysInv', NEW op \in Ops \ (KeyedOps \cup {"export"}),
         NEW slot \in SUBSET Slots, NEW rc \in Statuses, Reply(op, slot, rc),
         context' \in {"none", "live", "destroyed"}, backend' \in Backends,
         tables' \subseteq TableBackends
  PROVE  IInv'
<1>1. DataOK /\ DataOK' /\ UNCHANGED <<stats, answered>> /\ last'.op = op
  BY ReplyType, TypeSplit DEF IInv
<1>2. TypeOK'
  BY <1>1 DEF KeysInv, TypeOK, DataOK, StatsType, AnsweredType, AnswerType, Ops
<1>3. AnswerNamesKeyUsed'
  BY <1>1 DEF AnswerNamesKeyUsed
<1>4. CountersMatchReports'
  BY <1>1 DEF IInv, CountersMatchReports
<1> QED
  BY <1>2, <1>3, <1>4 DEF IInv

\* seal, open and sign keep the invariant: the key they use is the generation
\* the slot holds, and the epoch they report is its epoch.
LEMMA KeyedKeeps ==
  ASSUME IInv, NEW op \in KeyedOps, NEW s \in Slots,
         NEW required \in {{}} \cup {{e} : e \in Epochs}, NEW n \in 0 .. MaxBatch,
         Keyed(op, s, required, n)
  PROVE  IInv'
<1> DEFINE k == slots[s]
           status == KeyedStatus(k, KindOf(op), required)
<1>1. /\ required \in SUBSET Epochs /\ n \in Nat /\ DataOK /\ KeysInv
      /\ k \in Slot /\ k.epoch \in Epochs /\ k.key \in Keys \cup {Wiped}
  BY TypeSplit DEF IInv, KeysInv, Slot
<1>2. UNCHANGED <<context, slots, backend, tables, installed>>
  BY DEF Keyed
<1>3. PICK rc \in Statuses, errors \in Nat, key \in Keys \cup {Wiped} :
        /\ Answer(op, {s}, required, key, rc, n, errors, k.epoch)
        /\ rc = "OK" => status = "OK" /\ key = k.key
  <2>1. CASE status # "OK"
    <3>1. status \in Statuses
      BY <2>1 DEF KeyedStatus, Statuses
    <3>2. Answer(op, {s}, required, Wiped, status, n, 0, k.epoch)
      BY <2>1 DEF Keyed
    <3> QED
      BY <2>1, <3>1, <3>2
  <2>2. CASE status = "OK"
    <3>1. PICK o \in Outcomes(op, n) :
            Answer(op, {s}, required, IF o.rc = "OK" THEN k.key ELSE Wiped, o.rc, n,
                   o.errors, k.epoch)
      BY <2>2 DEF Keyed
    <3>2. o.rc \in Statuses /\ o.errors \in Nat
      BY <1>1 DEF Outcomes, Statuses
    <3> QED
      BY <2>2, <3>1, <3>2, <1>1
  <2> QED
    BY <2>1, <2>2
<1>4. /\ DataOK' /\ CountersMatchReports'
      /\ last'.op = op /\ last'.slot = {s} /\ last'.required = required
      /\ last'.key = key /\ last'.rc = rc
      /\ rc = "OK" => last'.report.key_epoch = k.epoch
  BY <1>1, <1>3, AnswerEffect DEF IInv
<1>5. TypeOK'
  BY <1>2, <1>4, TypeSplit DEF IInv, TypeOK, DataOK, StatsType, AnsweredType, AnswerType, Ops
<1>6. AnswerNamesKeyUsed'
  <2> SUFFICES ASSUME rc = "OK"
               PROVE  /\ \E g \in installed' : /\ g.slot = s /\ g.epoch = k.epoch
                                               /\ g.key = key /\ g.kind = KindOf(op)
                      /\ required \subseteq {k.epoch}
    BY <1>4 DEF AnswerNamesKeyUsed, KeyedOps
  <2>1. status = "OK" /\ key = k.key
    BY <1>3
  <2>2. k.loaded /\ k.kind = KindOf(op) /\ required \subseteq {k.epoch}
    BY <2>1, <1>1 DEF KeyedStatus
  <2>3. [slot |-> s, epoch |-> k.epoch, kind |-> k.kind, key |-> k.key] \in installed
    BY <1>1, <2>2 DEF KeysInv, SlotHoldsItsGeneration
  <2> QED
    BY <1>2, <2>1, <2>2, <2>3
<1>7. KeysInv'
  BY <1>1, <1>2, KeysUnchanged
<1> QED
  BY <1>4, <1>5, <1>6, <1>7 DEF IInv

\* bc_hash keeps the invariant.
LEMMA HashKeeps ==
  ASSUME IInv, NEW n \in 0 .. MaxBatch, Hash(n)
  PROVE  IInv'
<1>1. n \in Nat /\ DataOK /\ KeysInv /\ 0 \in Epochs
  BY TypeSplit, KeySlotsAssumption DEF IInv, Epochs
<1>2. UNCHANGED <<context, slots, backend, tables, installed>>
  BY DEF Hash
<1>3. PICK o \in Outcomes("hash", n) : Answer("hash", {}, {}, Wiped, o.rc, n, o.errors, 0)
  BY DEF Hash
<1>4. o.rc \in Statuses /\ o.errors \in Nat
  BY <1>1 DEF Outcomes, Statuses
<1>5. DataOK' /\ CountersMatchReports' /\ last'.op = "hash"
  BY <1>1, <1>3, <1>4, AnswerEffect DEF IInv
<1>6. TypeOK'
  BY <1>2, <1>5, TypeSplit DEF IInv, TypeOK, DataOK, StatsType, AnsweredType, AnswerType, Ops
<1>7. AnswerNamesKeyUsed'
  BY <1>5 DEF AnswerNamesKeyUsed, KeyedOps
<1>8. KeysInv'
  BY <1>1, <1>2, KeysUnchanged
<1> QED
  BY <1>5, <1>6, <1>7, <1>8 DEF IInv

\* bc_export_public_key keeps the invariant: it reports the epoch of the key it
\* exports.
LEMMA ExportKeeps ==
  ASSUME IInv, NEW s \in Slots, ExportPublic(s)
  PROVE  IInv'
<1> DEFINE k == slots[s]
<1>1. /\ DataOK /\ KeysInv
      /\ k.epoch \in Epochs /\ k.key \in Keys \cup {Wiped}
  BY TypeSplit DEF IInv, KeysInv, Slot
<1>2. UNCHANGED <<context, slots, backend, tables, installed, stats, answered>>
  BY DEF ExportPublic
<1>3. PICK rc \in Statuses :
        /\ rc = "OK" => ExportStatus(k) = "OK"
        /\ last' = [op |-> "export", slot |-> {s}, required |-> {},
                    key |-> IF rc = "OK" THEN k.key ELSE Wiped, rc |-> rc,
                    report |-> IF rc = "OK" THEN [ZeroReport EXCEPT !.key_epoch = k.epoch]
                               ELSE ZeroReport]
  BY DEF ExportPublic, ExportStatus, Statuses
<1>4. [ZeroReport EXCEPT !.key_epoch = k.epoch] \in Report
  BY <1>1, ZeroTypes DEF Report
<1>5. DataOK'
  BY <1>1, <1>2, <1>3, <1>4, ZeroTypes DEF DataOK, AnswerType, Ops
<1>6. TypeOK'
  BY <1>2, <1>5, TypeSplit DEF IInv, TypeOK, DataOK, StatsType, AnsweredType, AnswerType, Ops
<1>7. AnswerNamesKeyUsed'
  <2> SUFFICES ASSUME rc = "OK"
               PROVE  \E g \in installed' : /\ g.slot = s /\ g.epoch = k.epoch
                                            /\ g.key = k.key /\ g.kind = "p256"
    BY <1>3 DEF AnswerNamesKeyUsed, ZeroReport
  <2>1. k.loaded /\ k.kind = "p256"
    BY <1>3 DEF ExportStatus
  <2>2. [slot |-> s, epoch |-> k.epoch, kind |-> k.kind, key |-> k.key] \in installed
    BY <1>1, <2>1 DEF KeysInv, SlotHoldsItsGeneration
  <2> QED
    BY <1>2, <2>1, <2>2
<1>8. KeysInv' /\ CountersMatchReports'
  BY <1>1, <1>2, KeysUnchanged DEF IInv, CountersMatchReports
<1> QED
  BY <1>6, <1>7, <1>8 DEF IInv

\* A context before bc_create satisfies the invariant.
LEMMA IInvInit == Init => IInv
<1> SUFFICES ASSUME Init PROVE IInv
  OBVIOUS
<1>1. KeysInv
  BY KeysInit
<1>2. TypeOK
  BY <1>1, ZeroTypes DEF Init, KeysInv, TypeOK, Backends, StatsType, AnswerType, Ops
<1>3. AnswerNamesKeyUsed /\ CountersMatchReports
  BY DEF Init, NoAnswer, ZeroStats, AnswerNamesKeyUsed, KeyedOps, CountersMatchReports
<1> QED
  BY <1>1, <1>2, <1>3 DEF IInv

\* Every step keeps the invariant, one case per call.
LEMMA IInvStep == IInv /\ [Next]_vars => IInv'
<1> SUFFICES ASSUME IInv, [Next]_vars PROVE IInv'
  OBVIOUS
<1>1. KeysInv' /\ TypeOK
  BY KeysStep DEF IInv
<1>2. CASE Create
  BY <1>1, <1>2, ReplyKeeps DEF Create, Ops, KeyedOps, Statuses, TypeOK
<1>3. CASE Destroy
  BY <1>1, <1>3, ReplyKeeps DEF Destroy, Ops, KeyedOps, Statuses, TypeOK
<1>4. CASE \E b \in Backends : SetBackend(b)
  BY <1>1, <1>4, ReplyKeeps DEF SetBackend, Ops, KeyedOps, Statuses, TypeOK
<1>5. CASE \E s \in Slots, kind \in Kinds, key \in Keys, expected \in Epochs :
             KeyPut(s, kind, key, expected)
  <2> PICK s \in Slots, kind \in Kinds, key \in Keys, expected \in Epochs :
        KeyPut(s, kind, key, expected)
    BY <1>5
  <2>1. PutStatus(slots, s, kind, key, expected) \in Statuses
    BY DEF PutStatus, Statuses
  <2> QED
    BY <1>1, <2>1, ReplyKeeps DEF KeyPut, Ops, KeyedOps, TypeOK
<1>6. CASE \E s \in Slots, expected \in Epochs : KeyRemove(s, expected)
  <2> PICK s \in Slots, expected \in Epochs : KeyRemove(s, expected)
    BY <1>6
  <2>1. RemoveStatus(slots, s, expected) \in Statuses
    BY DEF RemoveStatus, Statuses
  <2> QED
    BY <1>1, <2>1, ReplyKeeps DEF KeyRemove, Ops, KeyedOps, TypeOK
<1>7. CASE \E op \in KeyedOps, s \in Slots, required \in {{}} \cup {{e} : e \in Epochs},
             n \in 0 .. MaxBatch : Keyed(op, s, required, n)
  BY <1>7, KeyedKeeps
<1>8. CASE \E n \in 0 .. MaxBatch : Hash(n)
  BY <1>8, HashKeeps
<1>9. CASE \E s \in Slots : ExportPublic(s)
  BY <1>9, ExportKeeps
<1>10. CASE UNCHANGED vars
  BY <1>1, <1>10 DEF vars, IInv, TypeOK, AnswerNamesKeyUsed, CountersMatchReports
<1> QED
  BY <1>2, <1>3, <1>4, <1>5, <1>6, <1>7, <1>8, <1>9, <1>10 DEF Next

\* The inductive invariant holds: types, the keys and their epochs, answers and
\* counters together.
THEOREM Invariance == Spec => []IInv
BY IInvInit, IInvStep, PTL DEF Spec

\* Slots, tables, counters, reports and answers keep their types: epochs stay in
\* range and a stored key is of the kind its slot was loaded with.
THEOREM TypesCorrect == Spec => []TypeOK
<1>1. IInv => TypeOK
  BY DEF IInv
<1> QED
  BY <1>1, Invariance, PTL

\* Every successful keyed call or export used the key that the epoch in its
\* report names, and that epoch is the one the caller demanded.
THEOREM AnswersNameKeys == Spec => []AnswerNamesKeyUsed
<1>1. IInv => AnswerNamesKeyUsed
  BY DEF IInv
<1> QED
  BY <1>1, Invariance, PTL

\* The counters are the sums of the reports handed out, for any batch sizes.
THEOREM CountersAreSums == Spec => []CountersMatchReports
<1>1. IInv => CountersMatchReports
  BY DEF IInv
<1> QED
  BY <1>1, Invariance, PTL

\* The epoch of a slot only moves up, by one, and with every change of the slot.
THEOREM EpochsAdvance == Spec => EpochsOnlyAdvance
<1>1. KeysInv /\ [Next]_vars =>
        [context' = "live" =>
           \A s \in Slots : slots'[s] # slots[s] => slots'[s].epoch = slots[s].epoch + 1]_vars
  <2> SUFFICES ASSUME KeysInv, Next, context' = "live", NEW t \in Slots, slots'[t] # slots[t]
               PROVE  slots'[t].epoch = slots[t].epoch + 1
    BY DEF vars
  <2>1. CASE \E s \in Slots, kind \in Kinds, key \in Keys, expected \in Epochs :
               KeyPut(s, kind, key, expected)
    <3> PICK s \in Slots, kind \in Kinds, key \in Keys, expected \in Epochs :
          KeyPut(s, kind, key, expected)
      BY <2>1
    <3>1. PutStatus(slots, s, kind, key, expected) = "OK"
          /\ slots' = AfterPut(slots, s, kind, key)
      BY DEF KeyPut
    <3>2. /\ slots'[s] = [key |-> key, epoch |-> slots[s].epoch + 1, kind |-> kind,
                          loaded |-> TRUE]
          /\ \A u \in Slots \ {s} : slots'[u] = slots[u]
      BY <3>1, PutEffect DEF KeysInv
    <3> QED
      BY <3>2
  <2>2. CASE \E s \in Slots, expected \in Epochs : KeyRemove(s, expected)
    <3> PICK s \in Slots, expected \in Epochs : KeyRemove(s, expected)
      BY <2>2
    <3>1. RemoveStatus(slots, s, expected) = "OK" /\ slots' = AfterRemove(slots, s)
      BY DEF KeyRemove
    <3>2. /\ slots'[s] = [key |-> Wiped, epoch |-> slots[s].epoch + 1,
                          kind |-> slots[s].kind, loaded |-> FALSE]
          /\ \A u \in Slots \ {s} : slots'[u] = slots[u]
      BY <3>1, RemoveEffect DEF KeysInv
    <3> QED
      BY <3>2
  <2> QED
    BY <2>1, <2>2 DEF Next, Create, Destroy, SetBackend, Keyed, Hash, ExportPublic
<1> QED
  BY <1>1, KeysSafe, PTL DEF Spec, EpochsOnlyAdvance
===============================================================================
