------------------------------- MODULE ThreadsMC -------------------------------
(***************************************************************************)
(* Small instances of the parts that are threads under locks of their own, *)
(* each run from an initial state of its own; the others have ended, and   *)
(* stay so.                                                                *)
(***************************************************************************)
EXTENDS ConnectionPool

VARIABLES
  part,                                                          \* the part that runs
  option, queues, queued, next, done, fault, waited, old, main,
  at, batch, pending, owner, stopping, failure,
  rejected, verified, expired, failed,                           \* of SigningPipeline
  generation, remaining, halt, error, seen, place, caller, ran, threw  \* of WavePool

CONSTANTS
  Parts,
  b1, b2, b3, c1, c2, c3, w1, w2, w3,
  Signers, Offered, BatchSize, Minimum, Capacity, Options,
  Crew, MaxJobs

\* There are finitely many threads, at least one worker of the pipeline, and at
\* least one request to a batch and one key.
ASSUME ThreadsAssumption ==
  /\ IsFiniteSet(Crew) /\ MaxJobs \in Nat
  /\ IsFiniteSet(Signers) /\ Signers # {}
  /\ Offered \in Nat /\ BatchSize \in Nat \ {0} /\ Capacity \in Nat
  /\ \A o \in Options : o.keys \in Nat \ {0}

\* Every mode and both ways to the GPU; batches fill with one key only.
MCOptions == {[mode |-> "cpu", dispatch |-> "caller", keys |-> 2],
              [mode |-> "gpu", dispatch |-> "owner", keys |-> 2],
              [mode |-> "hybrid", dispatch |-> "owner", keys |-> 1],
              [mode |-> "hybrid", dispatch |-> "caller", keys |-> 1]}

P == INSTANCE SigningPipeline WITH Workers <- Signers
W == INSTANCE WavePool WITH Workers <- Crew, stopping <- halt, failure <- error,
                            at <- place, main <- caller

poolVars     == <<size, idle, active, closed, open, pc, late, lease, shut>>
pipelineVars == <<option, queues, queued, next, done, fault, waited, old, main, at, batch,
                  pending, owner, stopping, failure, rejected, verified, expired, failed>>
waveVars     == <<generation, remaining, halt, error, seen, place, caller, ran, threw>>

-------------------------------------------------------------------------------
\* A closed pool, with nobody who calls it.
PoolOver ==
  /\ size = 0 /\ idle = {} /\ open = {} /\ active = 0 /\ closed = TRUE /\ shut = TRUE
  /\ pc = [b \in Borrowers |-> "out"] /\ late = {} /\ lease = [b \in Borrowers |-> NoDb]

\* A run that rejected everything it was offered.
PipelineOver ==
  /\ option = [mode |-> "cpu", dispatch |-> "caller", keys |-> 2]
  /\ queues = [k \in P!Tenants |-> <<>>] /\ queued = 0 /\ next = Offered
  /\ done = TRUE /\ fault = FALSE /\ waited = Offered /\ old = Offered
  /\ main = "over"
  /\ at = [w \in Signers |-> "returned"] /\ batch = [w \in Signers |-> {}]
  /\ pending = <<>> /\ stopping = TRUE /\ failure = FALSE /\ owner = "none"
  /\ rejected = P!Requests /\ verified = {} /\ expired = {} /\ failed = {}

\* A pool of workers without a job.
WavesOver ==
  /\ generation = 0 /\ remaining = 0 /\ halt = TRUE /\ error = FALSE
  /\ seen = [w \in Crew |-> 0] /\ place = [w \in Crew |-> "returned"]
  /\ caller = "over"
  /\ ran = [w \in Crew |-> 0] /\ threw = FALSE

MCInit ==
  /\ part \in Parts
  /\ IF part = "connections" THEN Init ELSE PoolOver
  /\ IF part = "pipeline" THEN P!Init ELSE PipelineOver
  /\ IF part = "waves" THEN W!Init ELSE WavesOver

MCNext ==
  /\ UNCHANGED part
  /\ \/ part = "connections" /\ Next /\ UNCHANGED <<pipelineVars, waveVars>>
     \/ part = "pipeline" /\ P!Next /\ UNCHANGED <<poolVars, waveVars>>
     \/ part = "waves" /\ W!Next /\ UNCHANGED <<poolVars, pipelineVars>>

\* The part that runs is fair; nothing fair is enabled in one that has ended.
MCSpec ==
  /\ MCInit /\ [][MCNext]_<<part, poolVars, pipelineVars, waveVars>>
  /\ Fairness /\ P!Fairness /\ W!Fairness

-------------------------------------------------------------------------------
\* No work of the benchmarks is lost or done twice: requests that the pipeline was
\* offered are accounted for, waves are done by every worker.
NoWorkLost == P!RequestsAccounted /\ W!WavesAreWhole

\* Nothing of the threads waits for ever: every call for a connection ends, and so
\* do the pipeline and the pool of workers, whatever failed.
EveryThreadEnds == EveryCallEnds /\ P!PipelineEnds /\ W!WavesEnd
===============================================================================
