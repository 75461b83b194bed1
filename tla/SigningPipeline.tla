---------------------------- MODULE SigningPipeline ----------------------------
(***************************************************************************)
(* The signing pipeline (run in src/benchmarks/native/pipeline.cpp) with   *)
(* the thread that owns the GPU (struct Gpu in pipeline_crypto.hpp).  main *)
(* offers requests to a bounded queue for each key; workers take batches,  *)
(* sign them on the CPU or hand them to the owner, and verify every        *)
(* signature.  A step is a region under one of the two mutexes or what a   *)
(* thread does between two of them.                                        *)
(*                                                                         *)
(* A request is its number, in the order of arrival.  Time is what the     *)
(* code compares it with: how many requests have waited for wait_ms, and   *)
(* how many are older than slo_ms.                                         *)
(***************************************************************************)
EXTENDS Integers, Sequences, SequencesExt, FiniteSets

CONSTANTS
  Workers,      \* 1 to 64 of them
  Offered,      \* bound: requests of a run
  BatchSize,    \* batch
  Minimum,      \* gpu_min, at most BatchSize
  Capacity,     \* capacity of the queues together
  Options       \* a mode, a dispatch and a number of keys for each run

VARIABLES
  option,          \* the options of the run
  queues, queued,  \* the requests that wait for a worker, and their number
  next,            \* the next request main offers
  done, fault,
  waited, old,     \* requests below them have waited for wait_ms, or for slo_ms
  main,            \* what main does
  at,              \* what each worker does
  batch,           \* the requests each worker has taken
  pending, owner,  \* tasks for the owner, by their worker, and what it does
  stopping, failure,
  rejected, verified, expired, failed  \* how requests ended

time     == <<waited, old>>
ends     == <<rejected, verified, expired, failed>>
gpu      == <<pending, owner, stopping, failure>>
arrivals == <<queues, queued, next, done, main>>
vars     == <<option, arrivals, time, fault, at, batch, gpu, ends>>

\* "cpu", "gpu" or "hybrid"; signing on the GPU by the "caller" or by an "owner".
mode     == option.mode
dispatch == option.dispatch
Tenants  == 0 .. option.keys - 1
Requests == 0 .. Offered - 1

\* Workers: unstarted, asleep in wait(), dozing in wait_until(), looking for
\* work, with a batch taken, about to sign it on the CPU or the GPU, promised a
\* result by the owner, with signatures that verify, or with one that does not
\* or an exception; returned.
Signing == {"taken", "cpu", "gpu", "promised", "good", "bad"}
Places  == {"unstarted", "asleep", "dozing", "looking", "returned"} \cup Signing

Init ==
  /\ option \in Options
  /\ queues = [k \in Tenants |-> <<>>] /\ queued = 0 /\ next = 0
  /\ done = FALSE /\ fault = FALSE
  /\ waited = 0 /\ old = 0
  /\ main = "starting"
  /\ at = [w \in Workers |-> "unstarted"]
  /\ batch = [w \in Workers |-> {}]
  /\ pending = <<>> /\ stopping = FALSE /\ failure = FALSE
  /\ owner = IF mode # "cpu" /\ dispatch = "owner" THEN "looking" ELSE "none"
  /\ rejected = {} /\ verified = {} /\ expired = {} /\ failed = {}

-------------------------------------------------------------------------------
\* cv.notify_all().
Notified(places) ==
  [w \in Workers |-> IF places[w] \in {"asleep", "dozing"} THEN "looking" ELSE places[w]]

Start ==
  /\ main = "starting"
  /\ main' = "offering"
  /\ at' = [w \in Workers |-> "looking"]
  /\ UNCHANGED <<option, queues, queued, next, done, time, fault, batch, gpu, ends>>

\* Mutant: the bound is compared after the insertion.
Full_OneMore == queued > Capacity

Full == queued >= Capacity

Offer ==
  /\ main = "offering" /\ next < Offered
  /\ next' = next + 1
  /\ IF Full
     THEN rejected' = rejected \cup {next} /\ UNCHANGED <<queues, queued>>
     ELSE /\ queues' = [queues EXCEPT ![next % option.keys] = Append(@, next)]
          /\ queued' = queued + 1
          /\ UNCHANGED rejected
  /\ at' = Notified(at)
  /\ UNCHANGED <<option, main, done, time, fault, batch, gpu, verified, expired, failed>>

\* Mutant: one worker is told that all requests were offered.
Dismissed_One(places) ==
  IF \E w \in Workers : places[w] \in {"asleep", "dozing"}
  THEN [places EXCEPT ![CHOOSE w \in Workers : places[w] \in {"asleep", "dozing"}] = "looking"]
  ELSE places

Dismissed(places) == Notified(places)

Finish ==
  /\ main = "offering" /\ next = Offered
  /\ main' = "joining" /\ done' = TRUE
  /\ at' = Dismissed(at)
  /\ UNCHANGED <<option, queues, queued, next, time, fault, batch, gpu, ends>>

\* The workers are joined, and ~Gpu tells the owner to stop and joins it.
Join ==
  /\ \/ /\ main = "joining" /\ \A w \in Workers : at[w] = "returned"
        /\ main' = "leaving" /\ stopping' = TRUE
        /\ owner' = IF owner = "asleep" THEN "looking" ELSE owner
     \/ /\ main = "leaving" /\ owner \in {"none", "returned"}
        /\ main' = "over"
        /\ UNCHANGED <<stopping, owner>>
  /\ UNCHANGED <<option, queues, queued, next, done, time, fault, at, batch, pending,
                 failure, ends>>

-------------------------------------------------------------------------------
\* The key whose first request is the oldest.
Fronts == {k \in Tenants : queues[k] # <<>>}
Oldest == CHOOSE k \in Fronts : \A other \in Fronts : Head(queues[k]) <= Head(queues[other])

\* Mutant: the last requests are not given to a worker before their batch is full.
Ripe_WhenFull == mode = "cpu" \/ Len(queues[Oldest]) >= BatchSize

Ripe == \/ mode = "cpu" \/ done \/ Len(queues[Oldest]) >= BatchSize
        \/ Head(queues[Oldest]) < waited

Size == IF Len(queues[Oldest]) < BatchSize THEN Len(queues[Oldest]) ELSE BatchSize

\* Mutant: the counter goes down once for a batch.
Left_OneLess == queued - 1

Left == queued - Size

\* The region in which a worker finds work, or waits for it.  fault is set outside
\* the mutex: a worker may have read it just before, and dozes.
Look(w) ==
  /\ at[w] = "looking"
  /\ \/ /\ queued = 0
        /\ at' = [at EXCEPT ![w] = IF done THEN "returned" ELSE "asleep"]
        /\ UNCHANGED <<queues, queued, batch>>
     \/ /\ queued > 0 /\ ~Ripe
        /\ at' = [at EXCEPT ![w] = "dozing"]
        /\ UNCHANGED <<queues, queued, batch>>
     \/ /\ queued > 0 /\ (Ripe \/ fault)
        /\ at' = [at EXCEPT ![w] = "taken"]
        /\ batch' = [batch EXCEPT ![w] = ToSet(SubSeq(queues[Oldest], 1, Size))]
        /\ queues' = [queues EXCEPT ![Oldest] = SubSeq(@, Size + 1, Len(@))]
        /\ queued' = Left
  /\ UNCHANGED <<option, next, done, main, time, fault, gpu, ends>>

\* The time of a wait is over; or any wait ends early, as the standard allows.
Wake(w) ==
  /\ at[w] \in {"dozing", "asleep"}
  /\ at' = [at EXCEPT ![w] = "looking"]
  /\ UNCHANGED <<option, arrivals, time, fault, batch, gpu, ends>>

UsesGpu(size) == mode = "gpu" \/ (mode = "hybrid" /\ size >= Minimum)

Current(w) == {r \in batch[w] : r >= old}

\* Mutant: what expired stays in the batch.
Kept_All(w) == batch[w]

Kept(w) == Current(w)

\* Requests past their deadline are dropped, all others too after a fault.
Sort(w) ==
  /\ at[w] = "taken"
  /\ expired' = expired \cup (batch[w] \ Current(w))
  /\ LET kept == Kept(w)
         on   == kept # {} /\ ~fault
     IN /\ failed' = IF kept # {} /\ fault THEN failed \cup kept ELSE failed
        /\ batch' = [batch EXCEPT ![w] = IF on THEN kept ELSE {}]
        /\ at' = [at EXCEPT ![w] = IF ~on THEN "looking"
                                   ELSE IF UsesGpu(Cardinality(kept)) THEN "gpu" ELSE "cpu"]
  /\ UNCHANGED <<option, arrivals, time, fault, gpu, rejected, verified>>

\* c.sign(), or execute() by the worker itself, and the verification.
Sign(w) ==
  /\ at[w] = "cpu" \/ (at[w] = "gpu" /\ dispatch = "caller")
  /\ \E result \in {"good", "bad"} : at' = [at EXCEPT ![w] = result]
  /\ UNCHANGED <<option, arrivals, time, fault, batch, gpu, ends>>

DispatchRoom == 64

\* Gpu::sign for the owner.
Submit(w) ==
  /\ at[w] = "gpu" /\ dispatch = "owner"
  /\ IF ~stopping /\ Len(pending) < DispatchRoom
     THEN /\ pending' = Append(pending, w)
          /\ at' = [at EXCEPT ![w] = "promised"]
          /\ owner' = IF owner = "asleep" THEN "looking" ELSE owner
     ELSE at' = [at EXCEPT ![w] = "bad"] /\ UNCHANGED <<pending, owner>>
  /\ UNCHANGED <<option, arrivals, time, fault, batch, stopping, failure, ends>>

-------------------------------------------------------------------------------
\* Whoever waits for the owner; all but one of them still in its queue.
Promised == {w \in Workers : at[w] = "promised"}

\* The owner takes a task, or waits for one.
OwnerLooks ==
  /\ owner = "looking"
  /\ owner' = IF pending # <<>> THEN "executing"
              ELSE IF stopping THEN "returned" ELSE "asleep"
  /\ pending' = IF pending # <<>> THEN Tail(pending) ELSE pending
  /\ UNCHANGED <<option, arrivals, time, fault, at, batch, stopping, failure, ends>>

\* Mutant: a failure ends the owner's loop.
AfterTask_Gives(threw) == IF threw THEN "returned" ELSE "looking"

AfterTask(threw) == "looking"

\* After a first failure every task gets it; the worker is told by its promise.
Execute ==
  /\ owner = "executing"
  /\ \E w \in Promised \ ToSet(pending), result \in {"good", "bad"}, threw \in BOOLEAN :
       /\ failure => threw
       /\ threw => result = "bad"
       /\ failure' = threw
       /\ at' = [at EXCEPT ![w] = result]
       /\ owner' = AfterTask(threw)
  /\ UNCHANGED <<option, arrivals, time, fault, batch, pending, stopping, ends>>

-------------------------------------------------------------------------------
Recorded(w) == batch[w]

\* Every signature of the batch was verified.
Complete(w) ==
  /\ at[w] = "good"
  /\ verified' = verified \cup Recorded(w)
  /\ at' = [at EXCEPT ![w] = "looking"]
  /\ batch' = [batch EXCEPT ![w] = {}]
  /\ UNCHANGED <<option, arrivals, time, fault, gpu, rejected, expired, failed>>

\* catch (...): the batch failed, and everybody is told.
Fail(w) ==
  /\ at[w] = "bad"
  /\ failed' = failed \cup Recorded(w)
  /\ fault' = TRUE
  /\ at' = Notified([at EXCEPT ![w] = "looking"])
  /\ batch' = [batch EXCEPT ![w] = {}]
  /\ UNCHANGED <<option, arrivals, time, gpu, rejected, verified, expired>>

\* Time passes, also for requests that main is late to offer.
Age ==
  /\ \/ waited < Offered /\ waited' = waited + 1 /\ UNCHANGED old
     \/ old < Offered /\ old' = old + 1 /\ UNCHANGED waited
  /\ UNCHANGED <<option, arrivals, fault, at, batch, gpu, ends>>

Next ==
  \/ Start \/ Offer \/ Finish \/ Join
  \/ \E w \in Workers :
       Look(w) \/ Wake(w) \/ Sort(w) \/ Sign(w) \/ Submit(w) \/ Complete(w) \/ Fail(w)
  \/ OwnerLooks \/ Execute
  \/ Age

\* Every thread runs on, and a wait with a time limit ends; a wait without one
\* ends only by being told.
Fairness ==
  /\ WF_vars(Start \/ Offer \/ Finish \/ Join)
  /\ WF_vars(OwnerLooks \/ Execute)
  /\ \A w \in Workers :
       /\ WF_vars(Look(w) \/ Sort(w) \/ Sign(w) \/ Submit(w) \/ Complete(w) \/ Fail(w))
       /\ WF_vars(at[w] = "dozing" /\ Wake(w))
  /\ WF_vars(waited < Offered /\ Age /\ UNCHANGED old)

Spec == Init /\ [][Next]_vars /\ Fairness

-------------------------------------------------------------------------------
TypeOK ==
  /\ at \in [Workers -> Places]
  /\ owner \in {"none", "asleep", "looking", "executing", "returned"}
  /\ main \in {"starting", "offering", "joining", "leaving", "over"}
  /\ \A w \in Workers : Cardinality(batch[w]) <= BatchSize /\ (batch[w] # {} <=> at[w] \in Signing)

\* "request accounting": whoever takes, drops or fails what, every request that
\* was offered is in one place, and at the end it was rejected, verified, expired
\* or failed, and only one of these.
Accounting ==
  LET Held == {r \in Requests : \E w \in Workers : r \in batch[w]}
      Wait == {r \in Requests : \E k \in Tenants : r \in ToSet(queues[k])}
      Sum  == Cardinality(rejected) + Cardinality(verified) + Cardinality(expired)
                + Cardinality(failed)
  IN /\ rejected \cup verified \cup expired \cup failed \cup Held \cup Wait = 0 .. next - 1
     /\ Sum + Cardinality(Held) + Cardinality(Wait) = next
     /\ queued = Cardinality(Wait)
     /\ main \in {"leaving", "over"} => Sum = Offered

\* The queues keep to the capacity together.
Bounded == queued <= Capacity

\* "At most one outstanding task per bounded CPU worker": the owner works for one
\* worker, the others that wait are queued once each, and all of them keep the
\* batch that it reads.
OwnerServes ==
  /\ ToSet(pending) \subseteq Promised
  /\ Cardinality(Promised) = Len(pending) + (IF owner = "executing" THEN 1 ELSE 0)

\* Every request is accounted for, and the queues keep to their bounds.
RequestsAccounted == TypeOK /\ Accounting /\ Bounded /\ OwnerServes

\* A run comes to its end: every worker and the owner return, whatever failed.
PipelineEnds == <>(main = "over")
===============================================================================
