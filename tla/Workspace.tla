------------------------------- MODULE Workspace -------------------------------
(***************************************************************************)
(* The device memory of a context (struct Workspace and Buffer of          *)
(* src/src/engine/runtime.hpp) under the batches of                        *)
(* src/src/engine/crypto_engine.cu, one CUDA call after the other, each of *)
(* which may fail.  Six buffers are kept from batch to batch and only ever *)
(* grow; keys and contents pass through them, so they are cleared before a *)
(* batch hands out its results and on every other way out.                 *)
(*                                                                         *)
(* Batches of one context run under its mutex.  Sizes are classes, the     *)
(* same for all buffers of a batch; the tables of public constants, which  *)
(* are not cleared, are part of KeyContext.                                *)
(***************************************************************************)
EXTENDS Integers, Sequences, SequencesExt

CONSTANTS MaxSize  \* bound: size classes of batches

VARIABLES
  buffers,   \* of each buffer: whether it is there, its size and whether it holds data
  todo,      \* the CUDA calls the current batch has left; empty between batches
  need,      \* the size its buffers must have
  used,      \* the buffers it uses
  delivered, \* whether the last batch has written the caller's outputs
  freed      \* history: whether memory that held data was given back

vars == <<buffers, todo, need, used, delivered, freed>>

Buffers == 0 .. 5

\* What the four batches upload and what their kernels write.
Kinds == {"aead", "sign", "hash", "export"}

In(kind) == CASE kind = "aead" -> <<0, 1, 2, 3>>
              [] kind = "sign" -> <<0, 2>>
              [] kind = "hash" -> <<1, 2>>
              [] kind = "export" -> <<0>>

Out == <<4, 5>>

Steps(op, numbers) == [i \in DOMAIN numbers |-> <<op, numbers[i]>>]

\* Mutant: the outputs are written while the buffers wait to be cleared.
Ending_Swapped == <<<<"deliver", 0>>, <<"clear", 0>>>>

Ending == <<<<"clear", 0>>, <<"deliver", 0>>>>

Calls(kind) ==
  Steps("alloc", In(kind) \o Out) \o Steps("upload", In(kind)) \o <<<<"kernel", 0>>>>
    \o Steps("download", Out) \o Ending

\* A buffer whose memory was freed.
\* Mutant: its size is not reset.
Gone_SizeKept(buffer) == [buffer EXCEPT !.there = FALSE, !.holds = FALSE]

Gone(buffer) == [buffer EXCEPT !.there = FALSE, !.holds = FALSE, !.size = 0]

Init ==
  /\ buffers = [i \in Buffers |-> [there |-> FALSE, size |-> 0, holds |-> FALSE]]
  /\ todo = <<>> /\ need = 0 /\ used = {}
  /\ delivered = FALSE /\ freed = FALSE

Begin(kind, size) ==
  /\ todo = <<>>
  /\ todo' = Calls(kind)
  /\ need' = size /\ used' = ToSet(In(kind) \o Out)
  /\ delivered' = FALSE
  /\ UNCHANGED <<buffers, freed>>

-------------------------------------------------------------------------------
\* Workspace::clear: what the buffers hold after it, when the device refuses the
\* memset of some.
\* Mutant: only the buffers of this batch are cleared.
Clearable_Used(i) == buffers[i].there /\ i \in used

Clearable(i) == buffers[i].there

Cleared(refused) ==
  [i \in Buffers |-> IF Clearable(i) /\ i \notin refused
                     THEN [buffers[i] EXCEPT !.holds = FALSE] ELSE buffers[i]]

\* A way out with an error: ~ClearOnExit clears if it can, whatever comes of it.
Abandon ==
  /\ \E refused \in SUBSET Buffers : buffers' = Cleared(refused)
  /\ todo' = <<>> /\ need' = 0 /\ used' = {}
  /\ UNCHANGED <<delivered, freed>>

At(op) == todo # <<>> /\ Head(todo)[1] = op

Which == Head(todo)[2]

\* The batch goes on with its next call; the last one ends it.
Continue ==
  /\ todo' = Tail(todo)
  /\ IF todo' = <<>> THEN need' = 0 /\ used' = {} ELSE UNCHANGED <<need, used>>

\* Mutant: a buffer is kept whatever its size.
Fits_Present(buffer) == buffer.there

Fits(buffer) == buffer.there /\ buffer.size >= need

\* Buffer::alloc of a buffer that is large enough.
Keep ==
  /\ At("alloc") /\ Fits(buffers[Which])
  /\ Continue
  /\ UNCHANGED <<buffers, delivered, freed>>

\* Mutant: the memory is freed as it is.
Wiped_Not(buffer) == buffer

Wiped(buffer) == [buffer EXCEPT !.holds = FALSE]

\* Buffer::alloc of one that is not: it is wiped and freed, and a new one
\* allocated.
Grow ==
  /\ At("alloc") /\ ~Fits(buffers[Which])
  /\ freed' = (freed \/ Wiped(buffers[Which]).holds)
  /\ buffers' = [buffers EXCEPT ![Which] = [there |-> TRUE, size |-> need, holds |-> FALSE]]
  /\ Continue
  /\ UNCHANGED delivered

\* ... fails at the memset or at the free, and the buffer stays, wiped or not, or
\* at the malloc, and there is none.  Either way the batch will be abandoned.
GrowFails ==
  /\ At("alloc") /\ ~Fits(buffers[Which])
  /\ \/ /\ buffers[Which].there
        /\ \E left \in {buffers[Which], Wiped(buffers[Which])} :
             buffers' = [buffers EXCEPT ![Which] = left]
        /\ UNCHANGED freed
     \/ /\ freed' = (freed \/ Wiped(buffers[Which]).holds)
        /\ buffers' = [buffers EXCEPT ![Which] = Gone(@)]
  /\ todo' = <<<<"abandon", 0>>>>
  /\ UNCHANGED <<need, used, delivered>>

\* An upload and the kernel leave data in their buffers, also when they fail.
Filled(numbers) ==
  [i \in Buffers |-> IF i \in numbers THEN [buffers[i] EXCEPT !.holds = TRUE] ELSE buffers[i]]

Upload ==
  /\ At("upload")
  /\ buffers' = Filled({Which})
  /\ Continue \/ (todo' = <<<<"abandon", 0>>>> /\ UNCHANGED <<need, used>>)
  /\ UNCHANGED <<delivered, freed>>

Kernel ==
  /\ At("kernel")
  /\ buffers' = Filled(ToSet(Out))
  /\ Continue \/ (todo' = <<<<"abandon", 0>>>> /\ UNCHANGED <<need, used>>)
  /\ UNCHANGED <<delivered, freed>>

\* A copy to host memory of the library's own, or its failure, or the item's own
\* status when a public key is exported.
Download ==
  /\ At("download")
  /\ Continue \/ (todo' = <<<<"abandon", 0>>>> /\ UNCHANGED <<need, used>>)
  /\ UNCHANGED <<buffers, delivered, freed>>

\* clean.clear(): the batch fails unless every buffer was cleared.
Clear ==
  /\ At("clear")
  /\ \E refused \in SUBSET {i \in Buffers : Clearable(i)} :
       /\ buffers' = Cleared(refused)
       /\ IF refused = {} THEN Continue
          ELSE todo' = <<<<"abandon", 0>>>> /\ UNCHANGED <<need, used>>
  /\ UNCHANGED <<delivered, freed>>

Deliver ==
  /\ At("deliver")
  /\ delivered' = TRUE
  /\ Continue
  /\ UNCHANGED <<buffers, freed>>

Next ==
  \/ \E kind \in Kinds, size \in 1 .. MaxSize : Begin(kind, size)
  \/ Keep \/ Grow \/ GrowFails
  \/ Upload \/ Kernel \/ Download \/ Clear \/ Deliver
  \/ At("abandon") /\ Abandon

Spec == Init /\ [][Next]_vars

-------------------------------------------------------------------------------
\* One type invariant: a buffer that is not there holds nothing and has no size,
\* so that reserved() counts what is allocated, and no buffer is larger than the
\* largest batch.
TypeOK ==
  \A i \in Buffers : /\ buffers[i].size \in 0 .. MaxSize
                     /\ buffers[i].there <=> buffers[i].size > 0
                     /\ buffers[i].holds => buffers[i].there

\* When a batch has handed out its results, no buffer of the context holds keys
\* or data any more: not of this batch, and not what an earlier batch that could
\* not clear left behind in a buffer this one does not use.
OutputsAfterClear == delivered => \A i \in Buffers : ~buffers[i].holds

\* No memory goes back to the device with data in it when a buffer grows, though
\* the batch before may have failed to clear it.
FreedIsClear == ~freed

\* When a kernel runs, every buffer of its batch is there and large enough,
\* whatever allocations failed in the batches before.
KernelFits ==
  todo # <<>> /\ ~At("alloc") /\ ~At("abandon") => \A i \in used : buffers[i].there /\ buffers[i].size >= need
===============================================================================
