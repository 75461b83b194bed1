----------------------------- MODULE RuntimeHandle -----------------------------
(***************************************************************************)
(* class Runtime of src/python/batchcrypto/__init__.py: threads that share *)
(* one native context behind a re-entrant lock.  ctypes lets other threads *)
(* run during a native call, and a batch is consumed from a caller's       *)
(* iterable, for seal, open and sha256 under the lock: the caller's code   *)
(* may call the runtime again from there, close() included.  The context   *)
(* is only alive or not (KeyContext models it); a batch is its number of   *)
(* items and whether it passes the checks (Batches models them).           *)
(***************************************************************************)
EXTENDS Integers, Sequences, SequencesExt

CONSTANTS
  Threads,
  Small,    \* the calls that take no batch: load_key, retire_key, stats,
            \* set_p256_backend, p256_backend, public_key
  MaxItems, \* bound: items of a batch
  MaxNest,  \* bound: calls inside each other on a thread
  NoThread

ASSUME RuntimeHandleAssumption == NoThread \notin Threads /\ MaxItems \in Nat /\ MaxNest \in Nat \ {0}

VARIABLES
  object,  \* making, ready, failed (the constructor raised) or gone (collected)
  context, \* the native context: none, live or destroyed
  handle,  \* _handle is not null
  holder, depth, \* _lock
  stack,   \* the calls of each thread, the innermost last
  result   \* the list that the last step returned, if it did

handleVars == <<object, context, handle, holder, depth, stack, result>>

Batched == {"seal", "open", "sha256"}
Data    == Batched \cup {"sign"}
Ops     == Data \cup Small \cup {"close"}

\* gather: consuming the iterable; lock: waiting; native: in the library.
Frame == [op : Ops, n : 0 .. MaxItems, fits : BOOLEAN,
          at : {"gather", "lock", "native"}, alive : BOOLEAN]

Statuses == {"OK", "AUTH", "FAIL"}
Nothing  == [op |-> "close", n |-> 0, kind |-> "raise", out |-> <<>>, ran |-> FALSE]

Idle(t) == stack[t] = <<>>
Top(t)  == Last(stack[t])
To(t, place) == [stack EXCEPT ![t] = Append(Front(@), [Top(t) EXCEPT !.at = place, !.alive = handle])]
Popped(t) == [stack EXCEPT ![t] = Front(@)]

-------------------------------------------------------------------------------
(* The lock. *)

\* Mutant: a lock that its own holder cannot take again.
MayLock_Once(t) == holder = NoThread

MayLock(t) == holder \in {NoThread, t}

\* Mutant: close() frees the context without the lock.
NeedsLock_NotClose(op) == op # "close"

NeedsLock(op) == op \in Ops

Acquire(t) == holder' = t /\ depth' = depth + 1

Release(t) ==
  /\ depth' = IF NeedsLock(Top(t).op) THEN depth - 1 ELSE depth
  /\ holder' = IF depth' = 0 THEN NoThread ELSE holder

-------------------------------------------------------------------------------
(* The constructor and the collector. *)

HandleInit ==
  /\ object = "making" /\ context = "none" /\ handle = FALSE
  /\ holder = NoThread /\ depth = 0
  /\ stack = [t \in Threads |-> <<>>]
  /\ result = Nothing

\* bc_create, which leaves no context when it fails.
Create ==
  /\ object = "making" /\ context = "none"
  /\ \/ context' = "live" /\ handle' = TRUE /\ UNCHANGED object
     \/ object' = "failed" /\ UNCHANGED <<context, handle>>
  /\ result' = Nothing
  /\ UNCHANGED <<holder, depth, stack>>

\* Mutant: the constructor raises and leaves the context to nobody.
AfterBadBackend_Kept == "live"

AfterBadBackend == "destroyed"

\* The first set_p256_backend, closed again if it fails.
Configure ==
  /\ object = "making" /\ context = "live"
  /\ \/ object' = "ready" /\ UNCHANGED <<context, handle>>
     \/ object' = "failed" /\ context' = AfterBadBackend /\ handle' = FALSE
  /\ result' = Nothing
  /\ UNCHANGED <<holder, depth, stack>>

\* __del__, once nobody refers to the object: close().
Collect ==
  /\ object = "ready" /\ \A t \in Threads : Idle(t)
  /\ object' = "gone"
  /\ context' = IF handle THEN "destroyed" ELSE context
  /\ handle' = FALSE
  /\ result' = Nothing
  /\ UNCHANGED <<holder, depth, stack>>

-------------------------------------------------------------------------------
(* The calls. *)

\* A thread calls from outside, or from the iterable of a call of its own.
Call(t, op, n, fits) ==
  /\ object = "ready"
  /\ ~Idle(t) => Len(stack[t]) < MaxNest /\ Top(t).at = "gather"
  /\ op \notin Data => n = 0 /\ fits
  /\ stack' = [stack EXCEPT ![t] = Append(@, [op |-> op, n |-> n, fits |-> fits, alive |-> FALSE,
                                   at |-> IF op = "sign" THEN "gather" ELSE "lock"])]
  /\ result' = Nothing
  /\ UNCHANGED <<object, context, handle, holder, depth>>

\* The lock is taken and the runtime found closed (_live), or not.
Enter(t) ==
  /\ ~Idle(t) /\ Top(t).at = "lock"
  /\ MayLock(t) \/ ~NeedsLock(Top(t).op)
  /\ IF handle
     THEN /\ IF NeedsLock(Top(t).op) THEN Acquire(t) ELSE UNCHANGED <<holder, depth>>
          /\ stack' = To(t, IF Top(t).op \in Batched THEN "gather" ELSE "native")
     ELSE stack' = Popped(t) /\ UNCHANGED <<holder, depth>>
  /\ result' = Nothing
  /\ UNCHANGED <<object, context, handle>>

\* Mutant: sign consumes its digests as if it had the lock.
Locked_Always(op) == op \in Ops

\* The iterable is consumed under the lock, except by sign.
Locked(op) == op # "sign"

\* The iterable ends, or raises, or gives something that is refused.
Gathered(t) ==
  /\ ~Idle(t) /\ Top(t).at = "gather"
  /\ IF Top(t).fits
     THEN /\ stack' = To(t, IF Top(t).op = "sign" THEN "lock" ELSE "native")
          /\ UNCHANGED <<holder, depth>>
     ELSE /\ stack' = Popped(t)
          /\ IF Locked(Top(t).op) THEN Release(t) ELSE UNCHANGED <<holder, depth>>
  /\ result' = Nothing
  /\ UNCHANGED <<object, context, handle>>

\* An item that did not authenticate is a None of open; any other one raises.
Listable(op, status) == status = "OK" \/ (op = "open" /\ status = "AUTH")

\* Mutant: an empty batch is answered without asking the library.
Asked_NotEmpty(f) == f.n > 0

Asked(f) == f.n >= 0

\* bc_hash, bc_seal, bc_open or bc_sign returns; the library refuses a null
\* context.
DataReturns(t) ==
  /\ ~Idle(t) /\ Top(t).at = "native" /\ Top(t).op \in Data
  /\ LET f == Top(t) IN
     \E ok \in IF f.alive THEN BOOLEAN ELSE {~Asked(f)}, status \in [1 .. f.n -> Statuses] :
       result' = IF ok /\ \A i \in 1 .. f.n : Listable(f.op, status[i])
                 THEN [op |-> f.op, n |-> f.n, kind |-> "list", out |-> status, ran |-> f.alive]
                 ELSE Nothing
  /\ stack' = Popped(t)
  /\ Release(t)
  /\ UNCHANGED <<object, context, handle>>

\* One of the other calls of the library returns, with an error or without.
SmallReturns(t) ==
  /\ ~Idle(t) /\ Top(t).at = "native" /\ Top(t).op \in Small
  /\ stack' = Popped(t)
  /\ Release(t)
  /\ result' = Nothing
  /\ UNCHANGED <<object, context, handle>>

\* close(): bc_destroy, then the handle is forgotten.
CloseReturns(t) ==
  /\ ~Idle(t) /\ Top(t).at = "native" /\ Top(t).op = "close"
  /\ context' = "destroyed" /\ handle' = FALSE
  /\ stack' = Popped(t)
  /\ Release(t)
  /\ result' = Nothing
  /\ UNCHANGED <<object>>

Returns(t) == DataReturns(t) \/ SmallReturns(t) \/ CloseReturns(t)

HandleNext ==
  \/ Create \/ Configure \/ Collect
  \/ \E t \in Threads :
       \/ \E op \in Ops, n \in 0 .. MaxItems, fits \in BOOLEAN : Call(t, op, n, fits)
       \/ Enter(t) \/ Gathered(t) \/ Returns(t)

\* A call that may go on does, the library returns, and the iterables of callers
\* end, although they may call the runtime in between.  A thread that waits for
\* the lock is not promised it: locks are not fair.
Fairness ==
  \A t \in Threads :
    /\ WF_handleVars(holder = t /\ Enter(t))
    /\ \A d \in 1 .. MaxNest : SF_handleVars(Len(stack[t]) = d /\ Gathered(t))
    /\ WF_handleVars(Returns(t))

HandleSpec == HandleInit /\ [][HandleNext]_handleVars /\ Fairness

-------------------------------------------------------------------------------
InNative(t) == ~Idle(t) /\ Top(t).at = "native"

HandleTypes ==
  /\ object \in {"making", "ready", "failed", "gone"}
  /\ context \in {"none", "live", "destroyed"} /\ handle \in BOOLEAN
  /\ holder \in Threads \cup {NoThread} /\ depth \in 0 .. MaxNest
  /\ \A t \in Threads : stack[t] \in Seq(Frame) /\ Len(stack[t]) <= MaxNest

\* The library is never called with a context that is freed, or being freed by
\* another thread, although threads close the runtime at any time and iterables
\* close it under the feet of the call that consumes them.
NoUseAfterDestroy ==
  \A t \in Threads : InNative(t) /\ Top(t).alive =>
    /\ context = "live"
    /\ \A u \in Threads \ {t} : InNative(u) => ~Top(u).alive

\* The handle and the native context live and die together, outside bc_create
\* and bc_destroy; nothing is leaked by a constructor that raises or by an
\* object that is collected.
HandleIsContext ==
  /\ handle <=> context = "live"
  /\ object \in {"failed", "gone"} => context # "live"

\* A list comes from a call the library ran on a live context, empty batches
\* included, has an item for every input in its place, no item that failed, and
\* None only from open.
AnswersAreWhole ==
  result.kind = "list" =>
    /\ result.ran /\ Len(result.out) = result.n
    /\ \A i \in 1 .. result.n :
         result.out[i] # "OK" => result.op = "open" /\ result.out[i] = "AUTH"

\* Whoever holds the lock gives it back, also when its own iterable calls the
\* runtime again.
LockIsReleased == \A t \in Threads : holder = t ~> holder # t

\* The native context outlives every call on it, and is given up for good.
ContextIsOwned == HandleTypes /\ NoUseAfterDestroy /\ HandleIsContext
===============================================================================
