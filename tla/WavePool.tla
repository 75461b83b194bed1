------------------------------- MODULE WavePool -------------------------------
(***************************************************************************)
(* The pool of workers that prepares, signs and verifies one wave of       *)
(* requests after the other (class Pool in                                 *)
(* src/benchmarks/native/ready_wave.cpp).  main hands all workers one job  *)
(* with run() and waits until each of them did its share; an exception of  *)
(* any of them comes out of run(), and ends the program.  A step is a      *)
(* region under the mutex or what a thread does between two of them.       *)
(***************************************************************************)
EXTENDS Naturals, FiniteSets

CONSTANTS
  Workers,
  MaxJobs   \* bound: calls of run()

VARIABLES
  generation, remaining, stopping, failure,
  seen,   \* the generation each worker has seen
  at,     \* what each worker does
  main,   \* what main does
  ran,    \* history: how many jobs each worker has run
  threw   \* history: the job that runs, or ran last, threw

vars == <<generation, remaining, stopping, failure, seen, at, main, ran, threw>>

\* looking: about to take the mutex and look at the predicate of ready.wait;
\* failed: about to note its exception.
Places == {"looking", "asleep", "working", "failed", "finishing", "returned"}

Init ==
  /\ generation = 0 /\ remaining = 0 /\ stopping = FALSE /\ failure = FALSE
  /\ seen = [w \in Workers |-> 0]
  /\ at = [w \in Workers |-> "looking"]
  /\ main = "between"
  /\ ran = [w \in Workers |-> 0] /\ threw = FALSE

\* ready.notify_all().
Notified == [w \in Workers |-> IF at[w] = "asleep" THEN "looking" ELSE at[w]]

-------------------------------------------------------------------------------
\* run(), up to its wait.
Run ==
  /\ main = "between" /\ generation < MaxJobs
  /\ failure' = FALSE /\ threw' = FALSE
  /\ remaining' = Cardinality(Workers)
  /\ generation' = generation + 1
  /\ at' = Notified
  /\ main' = "waiting"
  /\ UNCHANGED <<stopping, seen, ran>>

\* complete.wait() is over: run() returns, or throws what a worker threw.
RunReturns ==
  /\ main = "awake"
  /\ main' = IF remaining # 0 THEN "waiting" ELSE IF failure THEN "thrown" ELSE "between"
  /\ UNCHANGED <<generation, remaining, stopping, failure, seen, at, ran, threw>>

\* ~Pool, after the waves or with the exception.
Stop ==
  /\ main \in {"between", "thrown"}
  /\ stopping' = TRUE
  /\ at' = Notified
  /\ main' = "joining"
  /\ UNCHANGED <<generation, remaining, failure, seen, ran, threw>>

Join ==
  /\ main = "joining" /\ \A w \in Workers : at[w] = "returned"
  /\ main' = "over"
  /\ UNCHANGED <<generation, remaining, stopping, failure, seen, at, ran, threw>>

-------------------------------------------------------------------------------
\* Mutant: a worker looks whether there is a job, not whether it is a new one.
Fresh_Any(w) == generation # 0

Fresh(w) == generation # seen[w]

Look(w) ==
  /\ at[w] = "looking"
  /\ IF stopping THEN at' = [at EXCEPT ![w] = "returned"] /\ UNCHANGED seen
     ELSE IF Fresh(w) THEN /\ at' = [at EXCEPT ![w] = "working"]
                           /\ seen' = [seen EXCEPT ![w] = generation]
     ELSE at' = [at EXCEPT ![w] = "asleep"] /\ UNCHANGED seen
  /\ UNCHANGED <<generation, remaining, stopping, failure, main, ran, threw>>

\* A wait ends early, as the standard allows.
Wake(w) ==
  /\ at[w] = "asleep"
  /\ at' = [at EXCEPT ![w] = "looking"]
  /\ UNCHANGED <<generation, remaining, stopping, failure, seen, main, ran, threw>>

MainWakes ==
  /\ main = "waiting"
  /\ main' = "awake"
  /\ UNCHANGED <<generation, remaining, stopping, failure, seen, at, ran, threw>>

Work(w) ==
  /\ at[w] = "working"
  /\ ran' = [ran EXCEPT ![w] = @ + 1]
  /\ \/ at' = [at EXCEPT ![w] = "finishing"] /\ UNCHANGED threw
     \/ at' = [at EXCEPT ![w] = "failed"] /\ threw' = TRUE
  /\ UNCHANGED <<generation, remaining, stopping, failure, seen, main>>

Throw(w) ==
  /\ at[w] = "failed"
  /\ failure' = TRUE
  /\ at' = [at EXCEPT ![w] = "finishing"]
  /\ UNCHANGED <<generation, remaining, stopping, seen, main, ran, threw>>

\* Mutant: the worker that throws does not count itself down.
Counted_NotFailed(w) == IF failure THEN remaining ELSE remaining - 1

Counted(w) == remaining - 1

\* The last worker wakes main.
Done(w) ==
  /\ at[w] = "finishing"
  /\ remaining' = Counted(w)
  /\ main' = IF remaining' = 0 THEN "awake" ELSE main
  /\ at' = [at EXCEPT ![w] = "looking"]
  /\ UNCHANGED <<generation, stopping, failure, seen, ran, threw>>

Next ==
  \/ Run \/ MainWakes \/ RunReturns \/ Stop \/ Join
  \/ \E w \in Workers : Look(w) \/ Wake(w) \/ Work(w) \/ Throw(w) \/ Done(w)

\* Every thread runs on; main need not start another job.
Fairness ==
  /\ WF_vars(RunReturns) /\ WF_vars(Stop \/ Join)
  /\ \A w \in Workers : WF_vars(Look(w) \/ Work(w) \/ Throw(w) \/ Done(w))

Spec == Init /\ [][Next]_vars /\ Fairness

-------------------------------------------------------------------------------
TypeOK ==
  /\ generation \in 0 .. MaxJobs /\ remaining \in 0 .. Cardinality(Workers)
  /\ at \in [Workers -> Places] /\ seen \in [Workers -> 0 .. MaxJobs]
  /\ main \in {"between", "waiting", "awake", "thrown", "joining", "over"}

\* remaining counts the workers that have not done with the current job; so when
\* run() returns each of them has done it, once, though they wake in any order
\* and a fast one looks again before a slow one woke.
JobsAreWhole ==
  /\ \A w \in Workers : ran[w] \in {generation - 1, generation}
  /\ main \in {"between", "thrown", "joining", "over"} => \A w \in Workers : ran[w] = generation
  /\ remaining = Cardinality({w \in Workers : seen[w] # generation \/ at[w] \in {"working", "failed", "finishing"}})

\* An exception of a worker comes out of the run() it was thrown in.
ThrownIsThrown ==
  /\ main = "between" => ~threw
  /\ main = "thrown" => threw

\* Every job is done by every worker, once, and no exception is lost.
WavesAreWhole == TypeOK /\ JobsAreWhole /\ ThrownIsThrown

\* run() returns, and the program ends.
WavesEnd == <>(main = "over")
===============================================================================
