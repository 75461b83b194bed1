# Formal verification of gpu-batch-crypto

TLA+ models of the parts of this repository that keep state or decide something,
checked with TLC on small instances and, where the result matters most, proved with
TLAPS for every value of the constants. Paths below are relative to the repository.
`PROJECT.json` maps each definition to the lines it translates.

## 1. The system

| Component | Where | State it keeps | Operations |
|---|---|---|---|
| Native context | `src/abi/batchcrypto_abi.cpp`, `include/batchcrypto.h` | sixteen key slots (bytes, 64-bit epoch, kind, loaded), counters, a workspace, one mutex | create, destroy, set backend, key put/remove, hash, seal/open/sign with and without an epoch, export public key, get stats |
| Engine workspace | `src/engine/` | six device buffers, two P-256 tables, the selected backend | aead, sign, hash, table upload, clear |
| Python runtime | `python/batchcrypto/__init__.py` | handle, re-entrant lock | validation, two backends, the native calls, close |
| Verified signer | `python/batchcrypto/verified.py` | a runtime, the pins (slot, epoch, public key), closed | load_key, retire_key, sign, close |
| Batch receipts | `python/batchcrypto/receipts.py` | Merkle trees; the verifier's cache of signed heads | build, prove, verify |
| Manifests, JWS | `python/batchcrypto/manifests.py`, `jws.py` | a handle of an opened manifest | sign and open batches |
| Content grant | `examples/content_grant.py` | none | publish, consume |
| Access book clearing | `examples/access_book/engine.py` | a SQLite database; an issuer key and a pinned key | seed, set_offer, issue, activate, redeem, release, revoke_key, purchase, audit |
| HTTP ledger | `examples/http_access/ledger.py` | a like database, a pool of connections | issue, spend, cancel, cancel_many, revoke, audit |
| HTTP signing, cache | `examples/http_access/signing.py` | the issuer's rotating keys, a consumer's cache of verified tokens | sign, rotate, verify |
| HTTP service | `examples/http_access/service.py` | two servers, issuer and publisher | issue, spend, cancel, access, with exact retries |
| Signing pipeline, wave pool | `benchmarks/native/` | bounded queues, workers, an owner of the GPU; workers with a generation | offer, take, sign, verify, expire, fail; run a wave |
| Fixed base, kernels, device arithmetic | `src/p256`, `src/kernels`, `src/imported` | none | arithmetic on words |
| Benchmark drivers, tools, build | `benchmarks/*.py`, `tools/`, CMake | none of the system's | measure, tabulate, build |

How they interact. The Python runtime validates a batch and forwards it to a native
context, which runs it over the workspace. The verified signer owns a runtime and lets
nothing leave that it has not verified under the public key it pinned at load.
Receipts and manifests call a signing function of their caller's, which may be one of
these. The clearing service shares a database between processes; the HTTP service puts
two servers with retries over the ledger, whose handlers lease connections from its
pool. The benchmark pipeline puts queues and an owner thread before the context.

What is hard. A context and a runtime are used by many threads, with arguments (an
epoch, a handle) chosen from knowledge that has gone stale; a runtime is called again
from the iterables it consumes. The signer makes two updates between which an
interrupt can come. The databases are shared by processes that crash, restart with
other keys, set clocks back, lose answers and repeat requests; issuance signs outside
its transactions. Every CUDA call may fail. `PROJECT.json` lists each hazard at its
line with the properties that watch it.

## 2. Modules

| Module | Models | Uses |
|---|---|---|
| `KeySlots` | the rules of the slot table | |
| `KeyContext` | one native context, one step a C call | `KeySlots` |
| `KeyContextProofs` | theorems about `KeyContext` | `KeyContext`, TLAPS |
| `VerifiedSigner` | the signer over a table that follows the same rules | `KeySlots` |
| `VerifiedSignerProofs` | theorems about `VerifiedSigner` and `RuntimeHandle` | both, TLAPS |
| `RuntimeHandle` | the runtime's handle and lock under threads and re-entrance | |
| `Batches`, `BatchShapes` | what bindings, engine and backends make of a batch; batches around the limits | `Totals` |
| `Workspace` | device buffers under each CUDA call | |
| `MerkleTree`, `TreeClaims` | tree and inclusion check; every claim about a small tree | |
| `Jws`, `SealedRecords` | batches of tokens; exports, and a consumer with its cache | `MerkleTree` |
| `ContentGrant` | publisher and consumer of grants | |
| `Totals`, `ClearingDb` | sums; the clearing database, `Can...` and `After...` of its transactions | |
| `PrepaidAccess` | abstract: what a prepaid balance promises | |
| `TotalsProofs` | the laws of sums | `Totals`, TLAPS |
| `AccessBook` | the clearing service, one step a transaction; refines `PrepaidAccess` | `ClearingDb` |
| `ClearingTx` | the same transactions statement by statement, nested | `ClearingDb` |
| `AccessBookProofs` | theorems about `AccessBook`, its refinement included, and about `ClearingTx` | both, `TotalsProofs`, TLAPS |
| `HttpLedger` | ledger with its signing keys; refines `PrepaidAccess` | `Totals` |
| `HttpLedgerProofs` | theorems about `HttpLedger`, its refinement included | `HttpLedger`, `TotalsProofs`, TLAPS |
| `ConnectionPool` | the ledger's connections | |
| `HttpService` | both servers, `rpc`, the consumer's cache, leaving | |
| `HttpServiceProofs` | theorems about `HttpService` | `HttpService`, TLAPS |
| `SigningPipeline`, `WavePool` | the threads of the native benchmarks | |
| `ThreadsProofs` | theorems about `ConnectionPool`, `SigningPipeline`, `WavePool` and the run of all three | `ThreadsMC`, `TotalsProofs`, TLAPS |
| `LibraryProofs` | theorems about `Workspace`, `ContentGrant`, `MerkleTree`, `SealedRecords` and `BatchShapes`, as `LibraryMC` runs them | `LibraryMC`, `TotalsProofs`, TLAPS |
| `...MC` | constants for TLC; `LibraryMC` and `ThreadsMC` run several parts, each by itself | |

The specifications of `RuntimeHandle` and `ClearingTx` have names of their own
(`HandleSpec`, `TxSpec`, ...), so that one module of proofs can extend two components.

### Native context, signer and runtime

`KeyContext`. A step is a whole C call, because the context's mutex is held from the
first read to the return. `slots` is `bc_context::slots`; `context` tells whether the
handle exists; `backend` and `tables` are `Workspace::p256_backend` and
`p256_table_ready`; `stats` is `bc_context::stats`; `installed`, `answered` and `last`
are history. `KeyedStatus` gives the decision of `keyed()` in its order, `PutStatus`
that of `bc_key_put`. The engine's outcome is any of success with some failed items,
refusal, a CUDA error, or an exception. The epoch wraps modulo `MaxEpoch + 1`, as a
64-bit integer does, so only the freeze at the last epoch keeps it from doing so. Left
out: calls refused before the mutex, and `bc_get_*`, which read and return.

`VerifiedSigner`. `load_key` and `retire_key` are cut between the native call and the
pin, with `pending` holding the lock and `Interrupt` for a `KeyboardInterrupt` there.
`sign` is one step: nothing it changes can be seen half done. The device is not
trusted: `Outputs` is every sequence of signatures of any key over any digest,
canonical or not, and the report is right or wrong. History: `granted`, `returned`,
`faulty`. Left out: interrupts in close() and in handlers, the version probe.

`RuntimeHandle`. `holder` and `depth` are the re-entrant lock, `stack` the calls of each
thread: one that consumes a batch may call the runtime again (`Call`), `seal`, `open`
and `sha256` with the lock held, `sign` before taking it. A frame remembers whether the
handle was alive when the library was entered. The constructor's two failures and the
collector are actions. Left out: an interrupt between `bc_destroy` and the clearing of
the handle in `close()` (`__init__.py:489`), a window of two bytecodes for which the
repository promises nothing.

`Batches`. Byte strings are a size and a content, AES-GCM opens under its own key,
nonce and AAD only, and P-256 keeps the order of a small group for the low-s rule. The
operators are the checks of `_records`, `_digests`, `_messages`, of the engine's `aead`,
`sign` and `hash_batch`, and both backends; `BatchShapes` grows every batch around the limits.

`Workspace`. Each CUDA call of a batch is a step that may fail: growing a buffer clears,
frees and allocates; `Abandon` is `ClearOnExit`. Sizes are classes.

### Receipts, manifests and grants

SHA-256, signatures and AES-GCM are symbolic throughout: two results are equal exactly
when their arguments are. `MerkleTree` is `_tree` and `_included` as recursive functions.
`SealedRecords` has issuers that seal exports and other payloads with any key, key id,
context and callback behaviour, and a consumer that is offered every mixture of the
parts of what was sealed: any header with any payload, any signature in either form of
s, any path. Its verifier keeps the cache of heads in the code's order of use. `Jws` is
`sign_es256` over a callback that may return anything. `ContentGrant` offers a consumer the
grant, ciphertext and signature of different publications. Canonical JSON and length
limits are left out.

### Clearing

`AccessBook`: a method of `Clearing` is one step, since `BEGIN IMMEDIATE` serialises writers
and a method that raises rolls back. Hashes that are only compared are the data they
commit to. Every clock reading is any of `Times`; `Restart` starts a process with other
keys; an answer is delivered or lost (`Answers`), and any call may be repeated.

`ClearingTx` looks inside: frames of nested blocks, savepoints that all have one name, a
failure after any statement, failures caught by an application, crashes, and SQLite
ending the transaction itself. In that last case (`engine.py:191-193` and
`ACCESS_BOOK_ATOMIC_CONTROL.md:10` speak of it) a caller that catches the error and goes
on finds no transaction, so its next steps commit one by one; `OneCommit` states the
promise of one commit with exactly this exception.

`HttpLedger`: issuance is a read transaction (`Prepare`), the signatures under no
database lock (`Sign`) and the transaction that rechecks (`Reserve`); others are one
step each. Rotation and revocation fall in between. A spend reads the clock twice. The
constraints of the schema are left out, so that the invariants show that the code's own
checks never run into them.

`ConnectionPool`: a step is a region under the condition's lock, or what a thread does
between two of them: opening, the body, the rollback that may fail and quarantines the
pool, the return. Deadlines pass at any time.

`HttpService`: each exchange has a handler thread that runs on when its caller gave up.
`Outer` are the attempts of a client, `Inner` those of the publisher within one of
them. Faults: a lost answer, a drop by the service, a 503 of the ledger, a timeout. The
ledger is its rows; the publisher's consumer verifies tokens through its cache; `Exit`
leaves the servers in the order of `__exit__`.

`PrepaidAccess` is the abstract specification: units move between available, reserved
and spent, never more than there are, and the step that spends them grants the receipt
of a request that had none. `AccessBook` and `HttpLedger` each state `KeepsPrepaid`, an
`INSTANCE ... WITH` that maps accounts to `funds` and receipts to `granted`.

### Threads of the benchmarks

`SigningPipeline`: `queues` and `queued` are the bounded queues, `at` is where each worker
is and `batch` the set of requests it has taken (their order in the batch decides
nothing), `pending` and `owner` the dispatch queue and the thread that owns the GPU.
`fault` is set outside the mutex, so a worker may miss it and doze until its time limit. Time is
what the code compares it with: how many requests have waited for `wait_ms`, and how
many passed `slo_ms`. Waits may end spuriously. `WavePool`: `generation`, `remaining`
and the exception, with spurious wakeups on both sides. Left out: allocations that
fail while a batch records its latencies (`pipeline.cpp:219`), after which requests
would be counted twice and the run end with "request accounting".

## 3. Runs

| Run | Instance | What it shows |
|---|---|---|
| `key_slots` | 2 slots, 2 keys (one not of P-256), epochs 0..2, 2 data calls of up to 2 items, 1 table | An epoch names one key for good; slots hold what their epochs name; answers used the key their epoch names; no shared AES key; counters are sums of reports; no backend without its table; epochs move by one |
| `failed_calls_counted` | 1 slot, 2 data calls | a violation, section 7 |
| `verified_signer` | 2 slots, 2 keys, 2 digests, epochs 0..3, batches of up to 2 | Only verified batches leave, under the granted key; grants are unambiguous across interrupts; pins are never ahead of slots; only a fault closes it |
| `access_book_items` | 1 buyer, 2 resources in 2 editions, 2 requests, 2 books, 2 times | The money adds up (`MoneyAddsUp`: audit, unspent items, budgets); retries cost nothing; what ended stays so |
| `access_book_parties` | 2 buyers, 2 publishers, 2 issuer keys, 1 resource | Receipts match their books and parties; only books of the pinned key are admitted; refinement of `PrepaidAccess` |
| `clearing_tx` | 2 callers, 2 requests, 2 books, 3 nested steps | Failed steps leave nothing and take nothing with them; one commit a block |
| `http_ledger` | 2 workers, 2 buyers, batches of 1 and 2 books, epochs 1..2 | Money, whole issuances with verifiable tokens, one answer to a request, revocation and cancellation final; refinement |
| `late_receipts` | 1 worker, 1 resource | a violation, section 7 |
| `http_service` | 1 client with 2 x 2 attempts and 2 faults; 2 clients without or with 1 fault | One charge a request; no spend for a token nobody had a right to; every call and the exit end, and what was charged is delivered |
| `runtime_handle` | 2 threads, calls nested twice, up to 1 item | No freed context in the library; whole answers; the lock is given back |
| `threads` | pool: 3 borrowers, 2 connections or none pooled; pipeline: 2 workers, 3 requests, batches of 2, room for 2, each mode; waves: 3 workers, 3 jobs | No connection shared or lost; no missed wakeup; every request and wave done once; everything ends |
| `library` | exports of 2 and 3 records, cache of 1; trees of up to 6 leaves; batches of up to 2; 6 buffers; 2 publications | What is accepted was sealed; the cache is transparent; proofs are exact; backends agree; device memory is clear when results leave; grants are exact |

The bounds and why they are enough.

* Epochs: the code compares them for equality and with the last one only. Loaded,
  retired and loaded again meets the frozen last epoch in `verified_signer`; `key_slots`
  may stay smaller, because its properties are proved for all bounds (section 5).
* Two slots, since the duplicate scan relates one slot to one other; two keys, since an
  epoch is confused only between two. Batches of two tell a short, a reordered, a
  partly wrong and a right one apart.
* Two items in a book with prices 1 and 2: it spends one and releases the other. Each
  limit (balance, budget, expiry) binds in some state. Two of each party for what is
  looked up by party, in runs of their own.
* `HttpLedgerMC` and `HttpServiceMC` run scenarios, disjoint parts of one instance, since
  their product adds states and no interaction: many calls of one buyer, or few of two;
  deep retries of one client, or two clients with fewer faults.
* Three nested steps put a failing savepoint between two others of its name.
* Trees of six leaves have levels lifted once and twice; proofs of up to three siblings
  are as long as the longest genuine one, and too long for four leaves or fewer. The sizes
  and claims are exhaustive; `InclusionIsExact` (section 5) has no bound.
* Three borrowers for two connections leave one waiting; three requests fill batches of
  two, exceed the room of two and leave a rest. Three workers and three waves let one
  worker be a wave behind while another is early.
* Symmetry is used for book ids, workers, keys and digests, only in runs without
  liveness.

`CHECK_DEADLOCK FALSE` stands where the system may stop: a destroyed context, a
collected runtime, a left service, ended threads and the finite parts of `library`.

## 4. Fairness

* `ConnectionPool`: a thread inside a call runs on, its deadline comes, its body ends. No
  thread must start a call, nor the owner close.
* `HttpService`: handlers and callers run on, a timeout comes, `__exit__` goes on once
  begun. A client that failed repeats its call: only `ChargedIsDelivered` is about that,
  which says what exact retries are for; no client has to begin.
* `RuntimeHandle`: whoever holds the lock runs on, the library returns, iterables end
  (strongly fair by depth, since they may call the runtime in between). A waiting thread
  is not promised the lock: Python's locks are not fair, and no property asks for it.
* `SigningPipeline`, `WavePool`: threads run on, timed waits end, time passes up to
  `wait_ms`. A wait without a limit ends only when notified; spurious wakeups happen but
  are not fair, so nothing relies on them. main need not start another wave.

In `ThreadsMC` the parts that do not run stand in a final state in which no fair action
is enabled, so the conjunction of all fairness asks nothing of them.

## 5. Proofs

Each theorem holds for all values of the constants that satisfy the named assumptions
of its module. `KeySlotsAssumption` and `KeyContextAssumption`: keys of the P-256 range are
keys, the last epoch is positive, the wiped content is no key, bounds are naturals.
`VerifiedSigner` has a bound of its own, a natural. `ClearingDbAssumption`,
`AccessBookAssumption` and `HttpLedgerAssumption`: amounts, times and lifetimes are
naturals of the kind the code checks them to be, the resources are finitely many (the
catalog is a file), and there is a largest balance (`MAX_UNITS`, or the `10**12` of
`seed`). `HttpServiceAssumption`: `rpc` tries at least once, the consumer caches at least
one token, there are more lines than faults. `ConnectionPoolAssumption` and
`ThreadsAssumption`: finitely many threads and connections, of which there are enough;
at least one worker, one request to a batch and one key. `RuntimeHandleAssumption`: `NoThread` is
no thread, the bound on items is a natural, the one on nested calls positive.
`ClearingTxAssumption`: the clock is past zero, issue calls are of the kind the code
checks them to be, `NoTx` is no database; the two theorems about `ClearingTx` also take
`DbInv(Start)`, that the file the callers open is in order, which every database that
`AccessBook` reaches is (`BooksInOrder`), and the one of the run. `SealedRecordsAssumption`
and `LibraryAssumption`: the consumer pins one of the keys, key ids and contexts, its
cache has room for a root, an export has a record, no content is the mark for none, bounds,
limits, sizes and scalars are naturals and the group has an order of at least 2.
`TreeClaimsAssumption`: the claimed trees have one to six leaves, for which there are
names; `InclusionIsExact`, on which their proof rests, takes an export of any length. Buyers, publishers,
requests, books, clients, callers and calls may be infinitely many.

| Module | Theorem | States |
|---|---|---|
| `KeyContextProofs` | `TypesCorrect` | `Spec => []TypeOK` |
| | `SlotsHoldGenerations` | `Spec => []SlotHoldsItsGeneration` |
| | `EpochsNameOneKey` | `Spec => []EpochNamesOneKey` |
| | `AesKeysNotShared` | `Spec => []NoSharedAesKey` |
| | `AnswersNameKeys` | `Spec => []AnswerNamesKeyUsed` |
| | `CountersAreSums` | `Spec => []CountersMatchReports` |
| | `SelectedTablesUploaded` | `Spec => []SelectedTableUploaded` |
| | `EpochsAdvance` | `Spec => EpochsOnlyAdvance` |
| `VerifiedSignerProofs` | `SignerReturnsVerified` | `Spec => []ReturnedBatchVerifies` |
| | `SignerGrantsNameKeys` | `Spec => []GrantNamesOneKey` |
| | `SignerPinsMatch` | `Spec => []PinsMatchSlots` |
| | `SignerClosedByFault` | `Spec => []NoFalseQuarantine` |
| | `ContextOwned` | `HandleSpec => []ContextIsOwned` |
| | `AnswersWhole` | `HandleSpec => []AnswersAreWhole` |
| `AccessBookProofs` | `MoneyInOrder` | `Spec => []MoneyAddsUp` |
| | `RetriesFree` | `Spec => []RetriesCostNothing` |
| | `ReceiptsInOrder` | `Spec => []ReceiptsMatchBooks` |
| | `EndsFinal` | `Spec => EndsAreFinal` |
| | `AdmissionIsPinned` | `Spec => AdmissionPinned` |
| | `KeepsPrepaidPromise` | `Spec => KeepsPrepaid`, the refinement |
| | `StepsWhole` | `DbInv(Start)` proves `TxSpec => []WorkIsWhole` |
| | `BlocksCommitOnce` | `DbInv(Start)` proves `TxSpec => CommitsAreOne` |
| `HttpLedgerProofs` | `MoneyInOrder` | `Spec => []MoneyAddsUp` |
| | `IssuesInOrder` | `Spec => []IssuesAreGood` |
| | `AnswersInOrder` | `Spec => []AnswersAgree` |
| | `EndsFinal` | `Spec => EndsAreFinal` |
| | `KeepsPrepaidPromise` | `Spec => KeepsPrepaid`, the refinement |
| `HttpServiceProofs` | `ChargedOnce` | `Spec => []OneChargePerCall` |
| | `SpentForVerified` | `Spec => []SpentTokensVerified` |
| | `ClosedWhenQuiet` | `Spec => []ClosedMeansQuiet` |
| `ThreadsProofs` | `PoolAccounted` | `Spec => []ConnectionsAccounted` |
| | `PoolWakes` | `Spec => []NoMissedWakeup` |
| | `WavesWhole` | `W!Spec => []W!WavesAreWhole` |
| | `PipelineAccounted` | `P!Spec => []P!RequestsAccounted` |
| | `NoneLost` | `MCSpec => []NoWorkLost` |
| `LibraryProofs` | `MemoryIsSafe` | `MCSpec => []DeviceMemorySafe` |
| | `GrantsAreExact` | `MCSpec => []GrantsExact` |
| | `CacheIsTransparent` | `MCSpec => []CacheTransparent` |
| | `InclusionIsExact` | an export of any length: what `_included` accepts is what `_tree` wrote |
| | `ProofsFit` | up to `2 ^ 12` records: a proof has at most 12 siblings |
| | `ProofsAreExact` | `MCSpec => []ProofsExact` |
| | `AcceptedSealed` | `MCSpec => []AcceptedWasSealed` |
| | `BatchesAlike` | `MCSpec => []BackendsAlike` |

**Context.** `EpochNamesOneKey` speaks of all generations ever installed and is not
inductive: a put could install under an epoch used before. `NoneAhead` strengthens it:
no installed generation has a larger epoch than its slot has now. A put moves the epoch
up by one (`AdvancedBelowLast`: below the last epoch the increment does not wrap, and at
the last epoch the slot is frozen), so the new generation is the only one of its epoch.
`KeysInv` joins both with `SlotHoldsItsGeneration` and `NoSharedAesKey`, and is preserved by
the put (`KeysPut`), the removal (`KeysRemove`) and the destruction; nothing else touches
slots. `IInv` adds the types, the answers, the counters and the tables: an answer is
correct when it is given because its key is read from the slot, whose generation is
installed, and installed generations are never taken back. `EpochsAdvance` follows step
by step from `IInv`. What a put and a removal do to a slot is proved once (`PutEffect`,
`RemoveEffect`).

**Signer.** The grant comes after the native call, so the difficulty is what holds
between the two. `GrantsBehind`: no grant is ahead of its slot, and one of the slot's
epoch names its key. `PendingIsNew`: while a call is pending its slot has an epoch nobody
was granted, so finishing the load grants a new epoch, and a load that is interrupted
leaves an epoch that nobody will ever be granted. `PinsCurrent`: without a fault a pin
agrees with its slot unless the call that changes it is not over; the native layer
therefore refuses a pinned request only after a fault, which is `NoFalseQuarantine`.

**Runtime.** Another thread, or the same one from inside a caller's iterable, may close
the handle while a call is under way. `LockCounted`: the lock's depth is the number of
calls that have it, those in the library and those of the other methods than `sign` that
consume an iterable, all on one thread's stack. `OnlyTopActs`: a call that was called from
is consuming its iterable, never in the library. So whoever is in the library holds the
lock (`LockerHolds`), and only it, leaving, could destroy the context it uses;
`AliveIsLive` then says that the handle a call entered the library with is what there is
now, which is `NoUseAfterDestroy`. Every action changes the innermost call of one thread:
it ends (`CallEnds`), moves on (`CallMovesOn`) or calls (`RuntimeCall`).

**Connections.** `LeaseWhileUsed` fixes where a thread has a connection, so that taking
one moves it from `idle` to the leased ones (`LeaseAdds`), and returning it back
(`LeaseRemoves`, which needs `ExclusiveBorrower`): their union, and with it the number of a
pool's connections, changes only when the pool is closed. `HoldersMove` keeps the count of
leases; a count of zero means nobody has a connection (`NoneActive`), which makes `close()`
safe. The sleepers' invariant is inductive with it because every region that adds a
connection or closes the pool wakes them all.

**Waves.** `WorkerKeepsUp`: a worker has run every job it has seen but the one it is at,
and has seen all but at most the current one; `WavesCounted`: `remaining` is the number
of those not done with it; when it is zero nobody is (`NobodyPending`), so `run()` can
only hand out the next job, or rethrow, when all did their share.

**Pipeline.** `RequestsAccounted` counts; its invariant says where things are. `OnePlace`
splits the requests offered so far into six disjoint sets, so that the sum of their
numbers is the number offered (`PipelineAccounts`). For a step to keep the split, a
batch taken from a queue must leave nothing of itself there, which needs `QueuesApart`
(no request is at two places of the queues), and no other worker may hold a part of it
(`BatchesApart`). `TakenFromFront` says what a prefix of such a queue is: as many requests
as it has places, none of them in the rest; this also keeps `queued` exact. `OwnerKeeps`
does the same for the owner's queue: who waits for a result is served or queued once,
and stays so because a worker submits only from another place. `MainEnds`: a worker
returns only when all was offered and nothing waits, so that at the end every request
is in one of the four outcomes. `NoneLost` puts the parts together for the runs of
`ThreadsMC`: a part that has ended satisfies its invariant, and stays there.

**Sums.** `Total(f, S)` is defined as the number of pairs of a member and a positive number
up to its value, so that the laws come from cardinalities: a sum over a disjoint union
(`TotalsProofs`), over a set with one value changed, over a renamed set, and zero exactly
where every value is. A batch of books is the renaming of its positions by its new ids;
two sums over the places of a sequence add up place by place (`TotalPlus`).

**Clearing.** The invariant is one of a database value, `DbInv`, since a method of the
service is one transaction. Each statement group has an effect (`Issued`, `Charged`,
`Freed`) that says which fields of which rows move by how much, proved once from the
code's expression (`IssueWrites`, `RedeemWrites`, ...); that the effect keeps `DbInv` is a
lemma about effects. `MoneyAddsUp` is not inductive. What it needs are `RemainingIsOpen`
(what a book has left is what its unspent items cost; without it a redemption could
take more from a book than was left in it, `ItemFits`), `Budgeted` (what the items of a
book cost together is within its budget), and `OneCharge` (no request and no item has
two receipts). `purchase()` is an issuance and a redemption in one
transaction, and its proof is theirs, one after the other (`MayIssueServes`,
`MayChargeServes`). What ends stays so by a relation of the database before to the one
after, `Follows`, that every effect satisfies.

**Transactions.** Here a method is many steps and the blocks nest, so the invariant is one
of a caller's open blocks, `Kept`. `Inside`: the savepoint that a block would return to is
what the block below stands for (its `whole`), at every depth, so leaving by an exception
restores a whole step; what the innermost block has yet to execute ends in what it stands
for (`EndOf`), so statements (`StatementRuns`) do not disturb it; and what every block stands
for serves the committed database (`Serves`: in order, and taking nothing back), so the
commit, whichever block makes it, does too. `Stacked`: only the innermost has statements
left. `Outside`: when SQLite has ended the transaction nothing is on the stack but blocks
being left or an application that goes on, with no savepoint. Each of the seven things that
can happen to a stack (`BlockBegins`, `StatementRuns`, `SavepointReleased`,
`TransactionCommits`, `SavepointRestored`, `TransactionEnds`, `SqliteEnds`) is a lemma about
sequences; the actions only pick one. That the statements of a method add up to its
indivisible change is `IssueLeads`, `RedeemLeads`, `ReleaseLeads` and `ActivateLeads`; that the
change keeps the books in order was proved for `AccessBook`. `OneWriter` (`BEGIN IMMEDIATE`)
makes the view of a caller outlive the steps of others: nobody commits while it is inside
(`CallerMoves`), which is why no commit overwrites what another made permanent.

**Ledger.** The argument is the same, with `Sold`, `Paid` and `Freed` for batches of books.
New is what lies between the transactions of an issuance, `InProgress`: a prepared batch
is within its budget and has ids that no committed book and no other pending issuance
has (`IdsFresh`), and, once signed, a pinned key. What can change meanwhile, the balance,
the request's row, the revoked keys, is what `Reserve` checks again. `OneRow` (a request has one row of each kind) makes every repeated
call find its own answer, so all answers to one request agree. The `CHECK`s of the schema
are not assumed: that an account adds up is a part of `Audited`.

**Refinement.** Both services implement `PrepaidAccess` step by step: `FundsMove` and
`ReceiptGrants` say what an effect is under the mapping, and each action is then a
deposit, a reservation, a release, a payment with its receipt, or a stutter. A purchase
spends from the available units without reserving them, which the abstract
specification allows as one step; `AmountsBounded` supplies its bounds.

**Service.** A link remembers what its caller does not: an exchange goes on after a
timeout. `LinksKept` therefore says of every exchange, whether anybody waits for it or
not, that a 200 in it was committed and that it spends only for a token that was
verified under a pinned key for what the call names (`Kept`). `RowsAreCalls`: the rows are
calls that clients began, and differ in their names; so there are at most as many rows
as calls (`ChargesAreCalls`, by an injection), whatever was repeated or came late.
`CacheVerified` makes a hit in the cache as good as a verification. `ServersLeft`: a
server that `__exit__` has left has no handlers. A step touches one exchange or two, one
behind the other; `Moved` and `Fits` reduce every action to what becomes of these.

**Device memory.** What keeps the buffers right is the order of the calls a batch still
has to make, so the invariant, `MemInv`, is about that. `Script`: allocations come before
everything else, results leave last and just after the clear, a batch that is given up
makes no other call; the tail of a script is one (`ScriptTail`), and every new batch starts
with one (`CallsScript`). A buffer the batch uses either fits already or its allocation is
still to come, so past the allocations all of them fit (`PastAllocs`): uploads and kernels
write into memory that is there. A clear that is refused for a buffer gives the batch up,
so delivery follows only a clear that emptied them all. What a failed batch leaves behind
is for the next one to find: `MemInv` asks of its buffers only that a size on record means
memory, and data too.

**Grants.** `GrantInv`: every publication is bound together as `publish()` made it
(`Published`), and its nonce is smaller than the number of publications, so the next one
is new. A signature that verifies names one grant, the grant's hash one ciphertext, and
that ciphertext its key and content (`AcceptedIsPublished`), whichever publications the
three came from.

**Records.** Of what a callback returns for one input only the right signature passes
(`OneToken`), so every token on record is its own key's signature of its own input
(`SealedRight`), and a token that verifies is one of those, whatever it was put together
from (`VerifiedWasSealed`). `CacheInv`: an entry of the cache is what verifying its token
made, and no two entries have one token; moving an entry to the end permutes the places
(`MovedToEnd`), an insertion follows a miss. So a hit may stand for a verification, which
carries an accepted receipt to an export the pinned key sealed, with its count and root,
and `InclusionIsExact` to the record at its position (`TreesAreSound`). The other way
round, an answer to a token the pinned key sealed is that of its payload (`SealedAnswered`),
so its receipts are accepted (`ReceiptsAccepted`).

**Tree.** `_included` never sees the tree: it walks up two numbers, the position and the
last position of each level, and skips the levels on which a right edge has no sibling.
`_tree` knows nothing of levels: it splits at the largest power of two below the size.
`InclusionIsExact` says that the two agree on every export, record, position and sequence:
a claim is accepted if and only if it is the record at that position with the path the tree
has for it, so a proof is not accepted cut short, extended, at another position, or for an
inner node. The library's induction takes an operator, so each induction here is on a least
counterexample (`LeastMember` of `TotalsProofs`), and a recursive function is first shown to
exist (`LiftedIs`, `WalkIs`, `TreeIs`).

* Powers of two come from the sizes of sets of subsets (`Powers`); `BitLengthIs` and
  `SplitIs` say what the split is: a power of two `k` with `k < size <= 2 * k`.
* One walk beside another: the walk in a segment, and the walk in its left or right half
  with the same siblings. For a power of two `p`, the left half has `p` positions, which are
  the first of the segment's, and on the right the position and the last one are both `p`
  further in the segment than in the half (`Beside`). A round halves `p` (`LeftRound`,
  `RightRound`), also through the skipped levels: a right edge is lifted as far in both
  (`LiftsAlike`), and once the right half is down to one node, the edge is lifted to the
  level of the last sibling (`LiftsPower`). So the walk in the segment ends well just when
  the walk in the half ends one sibling earlier, and then it has hashed that value with the
  last sibling, on the half's side (`WalkInHalf`).
* `SegmentsShaped`: a segment has a path for each of its positions, of at most the bit
  length of its size less one. `SegmentsExact`: in every segment, the walk along a sequence
  of hashes ends at the segment's root just when it started from the record and took the
  path; a hash of two hashes determines both (`PairedIs`), so one sibling more is right only
  if it is the other half's root and the rest was right in the half (`LeftExact`,
  `RightExact`).

**Batches.** The bindings add up the work of all records at once, the engine three sums of
what it has packed so far, checked after every record. `PackedIsWork`: after a prefix the
three are the work of that prefix, by a formula of each; a part is no more than the whole,
and the last prefix is the whole, so both limits refuse the same batches
(`RecordsNative`, `MessagesNative`). It needs that no size goes below zero, that is, that a
sealed text is at least a tag long, which the engine checks for each record before it adds
and the bindings by the range of the payload. `BatchInv` says what the records of a batch
are (`Shapes`): sizes are naturals, also that of the plain text within a sealed one.
`SealedAlike`, `OpenedAlike` and `SignedAlike` compare the backends item by item: an item that
opens has the size that was set aside for it; one that does not is `None` by its status,
whatever its output; both forms of the low-s rule choose the same value (`LowS`).
`SealedOpens`: a sealed record has the payload and the work it had before (`SealedRecord`), so
the batch passes the limits again, and each record is its own key's.

Model-checked only, because it is out of the prover's reach: liveness (`EveryThreadEnds`,
`CallsAndExitEnd`, `ChargedIsDelivered`, `LockIsReleased`) and `ENABLED`. Every invariant and
every action property of the runs that pass is a theorem.

## 6. Mutants

Next to some definitions stands a variant with a comment that begins "Mutant:", the
definition with a plausible slip in it (a missing guard or reset, a changed order).
`PROJECT.json` pairs each checked property with a variant that violates it under the
configuration of its run, which shows that the property depends on that code.

## 7. Findings

`failed_calls_counted`: `docs/ARCHITECTURE.md:37` says that call-level failures increment
`call_errors`. A data call that fails because an allocation throws leaves `guarded()`
through its handler (`src/abi/batchcrypto_abi.cpp:26`), past `account()`: the caller gets
`BC_MEMORY` and a zero report, and neither `calls` nor `call_errors` moves.
`CountersMatchReports` states what does hold.

`late_receipts`: `docs/HTTP_REFERENCE.md:81` says that after expiry a fresh spend is
denied. `spend()` compares one reading of the clock with the expiry
(`examples/http_access/ledger.py:297`) and stamps the receipt with a second one
(`:314`), so a fresh receipt can carry a time at or after the expiry of its book.

## 8. Not modelled

* P-256 point arithmetic, the kernels and the imported device code: pure functions on
  256-bit words without control flow that depends on state, covered by test vectors.
* Benchmark drivers, reports, calculators, build, packaging and tools: no behaviour of
  the system.
* HTTP framing and authentication, the buyer's checks of content and receipt, `/cancel`
  over HTTP (the ledger's `cancel` is modelled), bounds of identifiers, JSON.
* Timing and side channels; the strength of any primitive.

## 9. What could be proved next

The methods of `ClearingTx` as a refinement of those of `AccessBook`, which `StepsWhole`
implies for one database but does not state step by step.
