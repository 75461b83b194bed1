------------------------------ MODULE KeyContext ------------------------------
(***************************************************************************)
(* One native context of the C ABI (src/src/abi/batchcrypto_abi.cpp): the  *)
(* key slots, the selected P-256 backend and the counters, used by any     *)
(* number of threads.  Every call holds the context's mutex from its first *)
(* read to its return, so a call is one step; the threads' interleaving is *)
(* the order of the steps, and what a caller knew when it chose its        *)
(* arguments (an epoch read earlier, say) is any value at all.             *)
(*                                                                         *)
(* Calls refused before the mutex for a null pointer or a slot number out  *)
(* of range touch nothing and are left out.                                *)
(***************************************************************************)
EXTENDS KeySlots

CONSTANTS
  TableBackends, \* the P-256 backends that need a table on the device
  MaxBatch,      \* the largest batch a caller submits
  MaxAnswers     \* bound on the data calls of a behaviour

ASSUME KeyContextAssumption == 
  /\ MaxBatch \in Nat /\ MaxAnswers \in Nat
  /\ "reference" \notin TableBackends

VARIABLES
  context,   \* "none" before bc_create, "live", "destroyed" after bc_destroy
  slots,     \* bc_context::slots
  backend,   \* Workspace::p256_backend
  tables,    \* the backends whose table is on the device (p256_table_ready)
  stats,     \* bc_context::stats
  installed, \* history: every key generation bc_key_put ever made
  answered,  \* history: sums of what the callers of data calls were told
  last       \* history: the answer to the last call

vars == <<context, slots, backend, tables, stats, installed, answered, last>>

Backends   == {"reference"} \cup TableBackends
KeyedOps   == {"seal", "open", "sign"}
Statuses   == {"OK", "INVALID", "CUDA", "MEMORY", "SIGN_FAILED",
               "KEY_MISSING", "KEY_CONFLICT"}
KindOf(op) == IF op = "sign" THEN "p256" ELSE "aes256"

Report     == [submitted : Nat, completed : Nat, errors : Nat, key_epoch : Epochs]
ZeroReport == [submitted |-> 0, completed |-> 0, errors |-> 0, key_epoch |-> 0]
ZeroStats  == [calls |-> 0, submitted |-> 0, completed |-> 0, item_errors |-> 0,
               call_errors |-> 0]
NoAnswer   == [op |-> "none", slot |-> {}, required |-> {}, key |-> Wiped,
               rc |-> "OK", report |-> ZeroReport]

-------------------------------------------------------------------------------
\* What the engine may make of a batch of n items.  An empty batch is answered
\* at once; otherwise the input is refused, a CUDA call fails, an allocation
\* throws, or the batch runs and some items of an open or a sign fail.
Outcomes(op, n) ==
  {[rc |-> "OK", errors |-> e] : e \in IF op \in {"open", "sign"} THEN 0 .. n ELSE {0}}
    \cup IF n = 0 THEN {}
         ELSE {[rc |-> rc, errors |-> 0] : rc \in {"INVALID", "CUDA", "MEMORY"}}

\* account(): the report of a call and the counters after it.
Accounted(rc, n, errors, epoch) ==
  IF rc = "OK" THEN [submitted |-> n, completed |-> n, errors |-> errors, key_epoch |-> epoch]
               ELSE [ZeroReport EXCEPT !.key_epoch = epoch]

\* Mutant: no early return for a failed call.
Counted_NoReturn(st, rc, n, errors) ==
  [st EXCEPT !.calls = @ + 1, !.submitted = @ + n, !.completed = @ + n,
             !.item_errors = @ + errors,
             !.call_errors = @ + (IF rc = "OK" THEN 0 ELSE 1)]

Counted(st, rc, n, errors) ==
  IF rc = "OK"
  THEN [st EXCEPT !.calls = @ + 1, !.submitted = @ + n, !.completed = @ + n,
                  !.item_errors = @ + errors]
  ELSE [st EXCEPT !.calls = @ + 1, !.call_errors = @ + 1]

\* The end of a data call: an exception leaves through guarded(), past account().
Answer(op, slot, required, key, rc, n, errors, epoch) ==
  LET report == IF rc = "MEMORY" THEN ZeroReport ELSE Accounted(rc, n, errors, epoch)
  IN /\ stats' = IF rc = "MEMORY" THEN stats ELSE Counted(stats, rc, n, errors)
     /\ last' = [op |-> op, slot |-> slot, required |-> required, key |-> key,
                 rc |-> rc, report |-> report]
     /\ answered' = [answered EXCEPT !.ok = @ + (IF rc = "OK" THEN 1 ELSE 0),
                                     !.failed = @ + (IF rc = "OK" THEN 0 ELSE 1),
                                     !.items = @ + report.submitted,
                                     !.errors = @ + report.errors]

\* Every call but a data call: its answer carries no report.
Reply(op, slot, rc) ==
  /\ last' = [NoAnswer EXCEPT !.op = op, !.slot = slot, !.rc = rc]
  /\ UNCHANGED <<stats, answered>>

-------------------------------------------------------------------------------
Init ==
  /\ context = "none"
  /\ slots = FreshSlots
  /\ backend = "reference"
  /\ tables = {}
  /\ stats = ZeroStats
  /\ installed = {}
  /\ answered = [ok |-> 0, failed |-> 0, items |-> 0, errors |-> 0]
  /\ last = NoAnswer

\* bc_create: a device that cannot be selected or readied leaves no context.
Create ==
  /\ context = "none"
  /\ \/ context' = "live" /\ Reply("create", {}, "OK")
     \/ UNCHANGED context /\ Reply("create", {}, "CUDA")
  /\ UNCHANGED <<slots, backend, tables, installed>>

\* bc_destroy, by the one owner the contract demands; ~Slot() wipes each key.
Destroy ==
  /\ context = "live"
  /\ context' = "destroyed"
  /\ slots' = [s \in Slots |-> [slots[s] EXCEPT !.key = Wiped, !.loaded = FALSE]]
  /\ Reply("destroy", {}, "OK")
  /\ UNCHANGED <<backend, tables, installed>>

\* Mutant: the backend is selected before its table is uploaded.
SetBackend_SelectFirst(b) ==
  /\ context = "live"
  /\ backend' = b
  /\ \/ tables' = tables \cup ({b} \cap TableBackends) /\ Reply("backend", {}, "OK")
     \/ UNCHANGED tables /\ Reply("backend", {}, "CUDA")
  /\ UNCHANGED <<context, slots, installed>>

\* bc_set_p256_backend: the table is uploaded at its first selection, which the
\* device may refuse.
SetBackend(b) ==
  /\ context = "live"
  /\ \/ /\ backend' = b
        /\ tables' = tables \cup ({b} \cap TableBackends)
        /\ Reply("backend", {}, "OK")
     \/ /\ Reply("backend", {}, "CUDA")
        /\ UNCHANGED <<backend, tables>>
  /\ UNCHANGED <<context, slots, installed>>

KeyPut(s, kind, key, expected) ==
  LET rc == PutStatus(slots, s, kind, key, expected)
  IN /\ context = "live"
     /\ IF rc = "OK"
        THEN /\ slots' = AfterPut(slots, s, kind, key)
             /\ installed' = installed \cup
                  {[slot |-> s, epoch |-> slots'[s].epoch, kind |-> kind, key |-> key]}
        ELSE UNCHANGED <<slots, installed>>
     /\ Reply("put", {s}, rc)
     /\ UNCHANGED <<context, backend, tables>>

KeyRemove(s, expected) ==
  LET rc == RemoveStatus(slots, s, expected)
  IN /\ context = "live"
     /\ slots' = IF rc = "OK" THEN AfterRemove(slots, s) ELSE slots
     /\ Reply("remove", {s}, rc)
     /\ UNCHANGED <<context, backend, tables, installed>>

\* keyed(): bc_seal, bc_open, bc_sign (required empty) and their _at_epoch forms.
Keyed(op, s, required, n) ==
  LET k == slots[s]
      status == KeyedStatus(k, KindOf(op), required)
  IN /\ context = "live"
     /\ answered.ok + answered.failed < MaxAnswers
     /\ \/ /\ status # "OK"
           /\ Answer(op, {s}, required, Wiped, status, n, 0, k.epoch)
        \/ /\ status = "OK"
           /\ \E o \in Outcomes(op, n) :
                Answer(op, {s}, required, IF o.rc = "OK" THEN k.key ELSE Wiped,
                       o.rc, n, o.errors, k.epoch)
     /\ UNCHANGED <<context, slots, backend, tables, installed>>

\* bc_hash uses no key and reports epoch 0.
Hash(n) ==
  /\ context = "live"
  /\ answered.ok + answered.failed < MaxAnswers
  /\ \E o \in Outcomes("hash", n) :
       Answer("hash", {}, {}, Wiped, o.rc, n, o.errors, 0)
  /\ UNCHANGED <<context, slots, backend, tables, installed>>

\* bc_export_public_key: the answer names the epoch of the key exported.
ExportPublic(s) ==
  LET k == slots[s]
      status == ExportStatus(k)
  IN /\ context = "live"
     /\ \E rc \in IF status = "OK" THEN {"OK", "CUDA", "SIGN_FAILED"} ELSE {status} :
          last' = [op |-> "export", slot |-> {s}, required |-> {},
                   key |-> IF rc = "OK" THEN k.key ELSE Wiped, rc |-> rc,
                   report |-> IF rc = "OK" THEN [ZeroReport EXCEPT !.key_epoch = k.epoch]
                              ELSE ZeroReport]
     /\ UNCHANGED <<context, slots, backend, tables, stats, installed, answered>>

Next ==
  \/ Create
  \/ Destroy
  \/ \E b \in Backends : SetBackend(b)
  \/ \E s \in Slots, kind \in Kinds, key \in Keys, expected \in Epochs :
       KeyPut(s, kind, key, expected)
  \/ \E s \in Slots, expected \in Epochs : KeyRemove(s, expected)
  \/ \E op \in KeyedOps, s \in Slots, required \in {{}} \cup {{e} : e \in Epochs},
        n \in 0 .. MaxBatch : Keyed(op, s, required, n)
  \/ \E n \in 0 .. MaxBatch : Hash(n)
  \/ \E s \in Slots : ExportPublic(s)

Spec == Init /\ [][Next]_vars

-------------------------------------------------------------------------------
Generation == [slot : Slots, epoch : Epochs, kind : Kinds, key : Keys]

\* Every variable has the shape its comment gives.
TypeOK ==
  /\ context \in {"none", "live", "destroyed"}
  /\ slots \in [Slots -> Slot]
  /\ backend \in Backends
  /\ tables \subseteq TableBackends
  /\ stats \in [calls : Nat, submitted : Nat, completed : Nat, item_errors : Nat,
                call_errors : Nat]
  /\ installed \subseteq Generation
  /\ answered \in [ok : Nat, failed : Nat, items : Nat, errors : Nat]
  /\ last \in [op : KeyedOps \cup {"none", "create", "destroy", "backend", "put",
                                   "remove", "hash", "export"},
               slot : SUBSET Slots, required : SUBSET Epochs,
               key : Keys \cup {Wiped}, rc : Statuses, report : Report]

\* An epoch of a slot names at most one key for the whole life of the context:
\* a caller that kept an epoch can never reach another key with it, however the
\* slot was rotated, retired and reloaded in between, up to the last epoch.
EpochNamesOneKey ==
  \A g, h \in installed : g.slot = h.slot /\ g.epoch = h.epoch => g = h

\* What a loaded slot holds is the generation its epoch names, and a slot that
\* is not loaded holds no key bytes.
SlotHoldsItsGeneration ==
  \A s \in Slots :
    IF slots[s].loaded
    THEN [slot |-> s, epoch |-> slots[s].epoch, kind |-> slots[s].kind,
          key |-> slots[s].key] \in installed
    ELSE slots[s].key = Wiped

\* A successful keyed call or export used the very key its report's epoch
\* names, of the kind the operation needs, and the epoch is the one demanded
\* when the caller demanded one.
AnswerNamesKeyUsed ==
  last.rc = "OK" /\ last.op \in KeyedOps \cup {"export"} =>
    \A s \in last.slot :
      /\ \E g \in installed :
           /\ g.slot = s /\ g.epoch = last.report.key_epoch /\ g.key = last.key
           /\ g.kind = IF last.op = "export" THEN "p256" ELSE KindOf(last.op)
      /\ last.required \subseteq {last.report.key_epoch}

\* No AES key is in two slots at once, so no two slots can seal under the same
\* key with nonces their users chose apart.
NoSharedAesKey ==
  \A s, t \in Slots :
    /\ slots[s].loaded /\ slots[s].kind = "aes256"
    /\ slots[t].loaded /\ slots[t].kind = "aes256"
    /\ slots[s].key = slots[t].key
    => s = t

\* The counters a later bc_get_stats returns agree with the reports the callers
\* were handed: items and item errors are those of the answered batches, and
\* calls less call_errors is the number of batches that succeeded.
CountersMatchReports ==
  /\ stats.submitted = answered.items /\ stats.completed = answered.items
  /\ stats.item_errors = answered.errors
  /\ stats.calls - stats.call_errors = answered.ok

\* A backend is selected only with its table on the device, whatever uploads
\* failed before.
SelectedTableUploaded == backend \in TableBackends => backend \in tables

\* A slot's key, kind or loaded flag changes only together with its epoch, and
\* the epoch moves up by one at a time: it never returns to an earlier value.
EpochsOnlyAdvance ==
  [][context' = "live" =>
       \A s \in Slots : slots'[s] # slots[s] => slots'[s].epoch = slots[s].epoch + 1]_vars

\* src/docs/ARCHITECTURE.md: "Call-level failures increment call_errors".
FailuresCounted == stats.call_errors = answered.failed
===============================================================================
