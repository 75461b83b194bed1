---------------------------- MODULE ConnectionPool ----------------------------
(***************************************************************************)
(* The connections of the HTTP ledger (Ledger._checkout, connection and    *)
(* close in src/examples/http_access/ledger.py): a bounded pool, or with   *)
(* pool_size 0 a connection opened for each call.  A step is a region      *)
(* under the condition's lock or what a thread does between two of them.   *)
(* What a borrower does with its connection is not looked at, except that  *)
(* it may leave a transaction open and that the ROLLBACK of that may fail. *)
(***************************************************************************)
EXTENDS Naturals, FiniteSets

CONSTANTS
  Borrowers,   \* handler threads
  Connections, \* as many as are ever open at once
  PoolSizes,   \* the pool_size a ledger is made with
  NoDb

ASSUME ConnectionPoolAssumption ==
  /\ IsFiniteSet(Borrowers) /\ IsFiniteSet(Connections)
  /\ PoolSizes \subseteq 0 .. Cardinality(Connections)
  /\ Cardinality(Borrowers) <= Cardinality(Connections)
  /\ NoDb \notin Connections

VARIABLES
  size,   \* pool_size
  idle,   \* _available
  active, \* _active
  closed, \* _closed
  open,   \* connections SQLite has open
  pc,     \* where each thread is
  late,   \* threads whose deadline has passed
  lease,  \* the db of each thread
  shut    \* history: the owner's close() returned

vars == <<size, idle, active, closed, open, pc, late, lease, shut>>

\* out: no call in progress; asleep: in wait(); awake: about to look again;
\* opening: pool_size is 0; using: inside the with body; back and broken: rolled
\* back, or not, and about to return.
Places == {"out", "asleep", "awake", "opening", "using", "back", "broken"}

Pooled == size > 0

-------------------------------------------------------------------------------
Init ==
  /\ size \in PoolSizes
  /\ idle \in SUBSET Connections /\ Cardinality(idle) = size
  /\ open = idle
  /\ active = 0 /\ closed = FALSE /\ shut = FALSE
  /\ pc = [b \in Borrowers |-> "out"]
  /\ late = {}
  /\ lease = [b \in Borrowers |-> NoDb]

Woken(places) == [b \in Borrowers |-> IF places[b] = "asleep" THEN "awake" ELSE places[b]]

\* Mutant: the connection is used where it lies, at the end of the list.
Taken_Left(db) == idle

Taken(db) == idle \ {db}

\* Mutant: the deadline is not looked at.
GivesUp_Never(b) == FALSE

GivesUp(b) == b \in late

\* The loop of _checkout, from its start or after a wait.
Look(b) ==
  /\ pc[b] \in {"out", "awake"}
  /\ \/ /\ Pooled /\ idle = {} /\ ~closed
        /\ pc' = [pc EXCEPT ![b] = IF GivesUp(b) THEN "out" ELSE "asleep"]
        /\ UNCHANGED <<idle, active, lease>>
     \/ /\ closed
        /\ pc' = [pc EXCEPT ![b] = "out"]
        /\ UNCHANGED <<idle, active, lease>>
     \/ /\ Pooled /\ ~closed
        /\ \E db \in idle : /\ idle' = Taken(db)
                            /\ lease' = [lease EXCEPT ![b] = db]
        /\ active' = active + 1
        /\ pc' = [pc EXCEPT ![b] = "using"]
     \/ /\ ~Pooled /\ ~closed
        /\ active' = active + 1
        /\ pc' = [pc EXCEPT ![b] = "opening"]
        /\ UNCHANGED <<idle, lease>>
  /\ late' = IF pc'[b] = "asleep" THEN late ELSE late \ {b}
  /\ UNCHANGED <<size, closed, open, shut>>

\* The deadline of a thread in the loop passes, and ends its wait.
Late(b) ==
  /\ pc[b] \in {"asleep", "awake"} /\ b \notin late
  /\ late' = late \cup {b}
  /\ pc' = [pc EXCEPT ![b] = "awake"]
  /\ UNCHANGED <<size, idle, active, closed, open, lease, shut>>

\* Mutant: a failed open leaves the count as it is.
ActiveAfterFailure_Kept == active

ActiveAfterFailure == active - 1

OpenFails(b) ==
  /\ pc[b] = "opening"
  /\ active' = ActiveAfterFailure
  /\ pc' = Woken([pc EXCEPT ![b] = "out"])
  /\ UNCHANGED <<size, idle, closed, open, late, lease, shut>>

Open(b) ==
  /\ pc[b] = "opening"
  /\ \E db \in Connections \ open :
       /\ open' = open \cup {db}
       /\ lease' = [lease EXCEPT ![b] = db]
  /\ pc' = [pc EXCEPT ![b] = "using"]
  /\ UNCHANGED <<size, idle, active, closed, late, shut>>

\* The body ends, the transaction is committed or rolled back, or the rollback
\* fails; a connection that cannot be used again is closed.
Finish(b) ==
  /\ pc[b] = "using"
  /\ \E place \in {"back", "broken"} :
       /\ pc' = [pc EXCEPT ![b] = place]
       /\ IF Pooled /\ place = "back"
          THEN UNCHANGED <<open, lease>>
          ELSE open' = open \ {lease[b]} /\ lease' = [lease EXCEPT ![b] = NoDb]
  /\ UNCHANGED <<size, idle, active, closed, late, shut>>

\* Mutant: waiters are only told of a connection.
Notified_OnAppend(places, appended) == IF appended THEN Woken(places) ELSE places

Notified(places, appended) == Woken(places)

\* Mutant: a connection goes back to a pool that was closed meanwhile.
Keeps_Always(b) == Pooled /\ pc[b] = "back"

Keeps(b) == Pooled /\ pc[b] = "back" /\ ~closed

\* A pool that may hold a connection in an unknown state is closed, the idle
\* connections with it.
Return(b) ==
  /\ pc[b] \in {"back", "broken"}
  /\ active' = active - 1
  /\ IF pc[b] = "broken"
     THEN /\ closed' = TRUE
          /\ idle' = {} /\ open' = open \ idle
     ELSE /\ idle' = IF Keeps(b) THEN idle \cup {lease[b]} ELSE idle
          /\ open' = IF Keeps(b) THEN open ELSE open \ {lease[b]}
          /\ UNCHANGED closed
  /\ lease' = [lease EXCEPT ![b] = NoDb]
  /\ pc' = Notified([pc EXCEPT ![b] = "out"], Keeps(b))
  /\ UNCHANGED <<size, late, shut>>

\* Mutant: close() does not look at the leases.
MayClose_Always == active \in Nat

MayClose == active = 0

\* close() by the owner, refused while a connection is leased.
Close ==
  /\ MayClose
  /\ closed' = TRUE /\ shut' = TRUE
  /\ open' = open \ idle
  /\ idle' = {}
  /\ pc' = Woken(pc)
  /\ UNCHANGED <<size, active, late, lease>>

Next ==
  \/ \E b \in Borrowers : Look(b) \/ Late(b) \/ OpenFails(b) \/ Open(b) \/ Finish(b) \/ Return(b)
  \/ Close

\* A thread inside a call runs on, its deadline comes, and its body ends; no
\* thread has to start a call, nor the owner to close.
Fairness ==
  \A b \in Borrowers :
    /\ WF_vars(pc[b] # "out" /\ Look(b))
    /\ WF_vars(Late(b))
    /\ WF_vars(OpenFails(b) \/ Open(b))
    /\ WF_vars(Finish(b) \/ Return(b))

Spec == Init /\ [][Next]_vars /\ Fairness

-------------------------------------------------------------------------------
Holding(b) == pc[b] \in {"opening", "using", "back", "broken"}
Leased     == {lease[b] : b \in Borrowers} \ {NoDb}

TypeOK ==
  /\ idle \subseteq open /\ open \subseteq Connections
  /\ active \in 0 .. Cardinality(Borrowers)
  /\ closed \in BOOLEAN /\ shut \in BOOLEAN
  /\ pc \in [Borrowers -> Places] /\ late \subseteq Borrowers
  /\ lease \in [Borrowers -> Connections \cup {NoDb}]

\* "Each connection has one exclusive borrower": never two, and never one that
\* another thread may take from the pool.
ExclusiveBorrower ==
  /\ \A b, c \in Borrowers : lease[b] = lease[c] /\ lease[b] # NoDb => b = c
  /\ Leased \cap idle = {}

\* _active counts the calls that hold or open a connection, through failed opens
\* and failed rollbacks; so close() is refused exactly while there is one.
ActiveCounts == active = Cardinality({b \in Borrowers : Holding(b)})

\* No connection leaks: the ones open are idle or in use, a pool in service has
\* all of its own, and a closed one without borrowers has none.
NoConnectionLost ==
  /\ open \subseteq idle \cup Leased
  /\ Pooled /\ ~closed => \/ Cardinality(idle \cup Leased) = size
                          \/ \E b \in Borrowers : pc[b] = "broken"
  /\ closed => idle = {}
  /\ closed /\ active = 0 => open = {}

\* A thread sleeps only while there is nothing for it to do: no connection to
\* take and no closed pool to report.
NoMissedWakeup == \A b \in Borrowers : pc[b] = "asleep" => idle = {} /\ ~closed

\* Once the owner's close() has returned nothing runs on the database.
ShutMeansQuiet == shut => open = {} /\ \A b \in Borrowers : ~Holding(b)

\* Every call that was begun ends, with a connection or with an error, however
\* the others behave.
EveryCallEnds == \A b \in Borrowers : pc[b] # "out" ~> pc[b] = "out"

\* Every connection is accounted for, and has one borrower at most.
ConnectionsAccounted ==
  TypeOK /\ ExclusiveBorrower /\ ActiveCounts /\ NoConnectionLost /\ ShutMeansQuiet
===============================================================================
