----------------------------- MODULE ThreadsProofs -----------------------------
(***************************************************************************)
(* Proofs about the parts that are threads under locks of their own, for   *)
(* any numbers of threads and of what they share: the pool of connections, *)
(* the pool of workers and the signing pipeline, each with its             *)
(* specification, and at the end for the runs of all three.                *)
(***************************************************************************)
EXTENDS ThreadsMC, TotalsProofs, SequenceTheorems

Holders == {b \in Borrowers : Holding(b)}

Types ==
  /\ size \in Nat
  /\ idle \subseteq open /\ open \subseteq Connections
  /\ active \in Nat
  /\ closed \in BOOLEAN /\ shut \in BOOLEAN
  /\ pc \in [Borrowers -> Places] /\ late \subseteq Borrowers
  /\ lease \in [Borrowers -> Connections \cup {NoDb}]

\* A thread has a connection exactly in the body of its call, and, of a pool, until
\* it returned it; it opens one only where there is no pool.
LeaseWhileUsed ==
  \A b \in Borrowers :
    /\ lease[b] # NoDb <=> pc[b] = "using" \/ (Pooled /\ pc[b] = "back")
    /\ pc[b] = "opening" => ~Pooled

\* What is leased is open.
LeasedOpen == \A b \in Borrowers : lease[b] # NoDb => lease[b] \in open

PoolKeeps ==
  /\ open \subseteq idle \cup Leased
  /\ Pooled /\ ~closed => \/ Cardinality(idle \cup Leased) = size
                          \/ \E b \in Borrowers : pc[b] = "broken"
  /\ closed => idle = {}
  /\ ~Pooled => idle = {}

ShutIsIdle == shut => closed /\ \A b \in Borrowers : ~Holding(b)

IInv ==
  /\ Types /\ LeaseWhileUsed /\ LeasedOpen /\ ExclusiveBorrower
  /\ ActiveCounts /\ PoolKeeps /\ ShutIsIdle /\ NoMissedWakeup

-------------------------------------------------------------------------------
\* Leasing a connection adds it to the leased ones.
LEMMA LeaseAdds ==
  ASSUME Types, NEW b \in Borrowers, lease[b] = NoDb, NEW db \in Connections,
         lease' = [lease EXCEPT ![b] = db]
  PROVE  /\ Leased' = Leased \cup {db}
         /\ lease' \in [Borrowers -> Connections \cup {NoDb}]
         /\ lease'[b] = db
         /\ \A c \in Borrowers : c # b => lease'[c] = lease[c]
BY ConnectionPoolAssumption DEF Types, Leased

\* Giving back the connection of its one borrower takes it from the leased ones.
LEMMA LeaseRemoves ==
  ASSUME Types, ExclusiveBorrower, NEW b \in Borrowers,
         lease' = [lease EXCEPT ![b] = NoDb]
  PROVE  /\ Leased' = Leased \ {lease[b]}
         /\ lease' \in [Borrowers -> Connections \cup {NoDb}]
         /\ lease'[b] = NoDb
         /\ \A c \in Borrowers : c # b => lease'[c] = lease[c]
<1>1. /\ lease' \in [Borrowers -> Connections \cup {NoDb}]
      /\ lease'[b] = NoDb
      /\ \A c \in Borrowers : c # b => lease'[c] = lease[c]
  BY DEF Types
<1>2. Leased' = Leased \ {lease[b]}
  BY <1>1 DEF Leased, ExclusiveBorrower
<1> QED
  BY <1>1, <1>2

\* The threads that hold a connection are finitely many.
LEMMA HoldersFinite == /\ IsFiniteSet(Holders)
                       /\ Cardinality(Holders) \in 0 .. Cardinality(Borrowers)
<1>1. Holders \in SUBSET Borrowers
  BY DEF Holders
<1> QED
  BY <1>1, ConnectionPoolAssumption, FS_Subset, FS_CardinalityType

\* A thread that begins to hold a connection is one more, and one that ends is one less.
LEMMA HoldersMove ==
  ASSUME Types, ActiveCounts, NEW b \in Borrowers,
         \A c \in Borrowers : c # b => (Holding(c)' <=> Holding(c))
  PROVE  /\ ~Holding(b) /\ Holding(b)' => Cardinality(Holders') = active + 1
         /\ Holding(b) /\ ~Holding(b)' =>
              Cardinality(Holders') = active - 1 /\ active - 1 \in Nat
         /\ (Holding(b) <=> Holding(b)') => Cardinality(Holders') = active
<1>1. active = Cardinality(Holders)
  BY DEF ActiveCounts, Holders
<1>2. ASSUME ~Holding(b), Holding(b)'
      PROVE  Cardinality(Holders') = active + 1
  <2>1. Holders' = Holders \cup {b} /\ b \notin Holders
    BY <1>2 DEF Holders
  <2> QED
    BY <2>1, <1>1, HoldersFinite, FS_AddElement
<1>3. ASSUME Holding(b), ~Holding(b)'
      PROVE  Cardinality(Holders') = active - 1 /\ active - 1 \in Nat
  <2>1. Holders' = Holders \ {b} /\ b \in Holders
    BY <1>3 DEF Holders
  <2>2. Cardinality(Holders \ {b}) = Cardinality(Holders) - 1 /\ IsFiniteSet(Holders \ {b})
    BY <2>1, HoldersFinite, FS_RemoveElement
  <2>3. Cardinality(Holders \ {b}) \in Nat
    BY <2>2, FS_CardinalityType
  <2> QED
    BY <2>1, <2>2, <2>3, <1>1
<1>4. ASSUME Holding(b) <=> Holding(b)'
      PROVE  Cardinality(Holders') = active
  <2>1. Holders' = Holders
    BY <1>4 DEF Holders
  <2> QED
    BY <2>1, <1>1
<1> QED
  BY <1>2, <1>3, <1>4

\* Waking threads changes no thread but the sleepers.
LEMMA WokenIs ==
  ASSUME NEW places \in [Borrowers -> Places]
  PROVE  /\ Woken(places) \in [Borrowers -> Places]
         /\ \A b \in Borrowers :
              Woken(places)[b] = IF places[b] = "asleep" THEN "awake" ELSE places[b]
BY DEF Woken, Places

\* With no thread holding anything no connection is leased.
LEMMA NoneActive ==
  ASSUME IInv, active = 0
  PROVE  Leased = {} /\ \A b \in Borrowers : ~Holding(b)
<1>1. Holders = {}
  BY HoldersFinite, FS_EmptySet DEF IInv, ActiveCounts, Holders
<1>2. \A b \in Borrowers : ~Holding(b)
  BY <1>1 DEF Holders
<1>3. \A b \in Borrowers : lease[b] = NoDb
  BY <1>2 DEF IInv, LeaseWhileUsed, Holding
<1> QED
  BY <1>2, <1>3 DEF Leased

\* A pool begins with nobody who holds or waits for a connection.
LEMMA PoolInit == Init => IInv
<1> SUFFICES ASSUME Init PROVE IInv
  OBVIOUS
<1>0. /\ size \in Nat
      /\ idle \subseteq Connections /\ open = idle /\ active = 0 /\ ~closed /\ ~shut
      /\ closed \in BOOLEAN /\ shut \in BOOLEAN
      /\ pc \in [Borrowers -> Places] /\ late = {}
      /\ lease \in [Borrowers -> Connections \cup {NoDb}]
      /\ \A b \in Borrowers : pc[b] = "out" /\ lease[b] = NoDb
  <2>1. size \in Nat
    BY ConnectionPoolAssumption, FS_CardinalityType DEF Init
  <2> QED
    BY <2>1 DEF Init, Places
<1>1. /\ Types /\ LeaseWhileUsed /\ LeasedOpen /\ ExclusiveBorrower /\ ShutIsIdle /\ NoMissedWakeup
      /\ Leased = {}
  BY <1>0 DEF Types, LeaseWhileUsed, LeasedOpen, ExclusiveBorrower,
     ShutIsIdle, NoMissedWakeup, Leased
<1>2. ActiveCounts
  <2>1. {b \in Borrowers : Holding(b)} = {}
    BY DEF Init, Holding
  <2> QED
    BY <2>1, FS_EmptySet DEF ActiveCounts, Init
<1>3. PoolKeeps
  <2>1. idle \cup Leased = idle
    BY <1>1
  <2>2. IsFiniteSet(idle)
    BY ConnectionPoolAssumption, FS_Subset DEF Init
  <2>3. ~Pooled => idle = {}
    BY <2>2, FS_EmptySet, <1>1 DEF Init, Pooled, Types
  <2> QED
    BY <1>1, <2>1, <2>3 DEF Init, PoolKeeps
<1> QED
  BY <1>1, <1>2, <1>3 DEF IInv

-------------------------------------------------------------------------------
\* A look that finds nothing, or a closed pool, and a deadline touch no connection.
LEMMA NothingTaken ==
  ASSUME IInv, NEW b \in Borrowers, pc[b] \in {"out", "asleep", "awake"},
         NEW where \in {"out", "asleep", "awake"}, pc' = [pc EXCEPT ![b] = where],
         where = "asleep" => idle = {} /\ ~closed, late' \subseteq Borrowers,
         UNCHANGED <<size, idle, active, closed, open, lease, shut>>
  PROVE  IInv'
<1> USE DEF IInv
<1>1. /\ pc' \in [Borrowers -> Places] /\ pc'[b] = where
      /\ \A c \in Borrowers : c # b => pc'[c] = pc[c]
  BY DEF Types, Places
<1>2. Types'
  BY <1>1 DEF Types
<1>3. \A c \in Borrowers : Holding(c)' <=> Holding(c)
  BY <1>1 DEF Holding
<1>4. ActiveCounts'
  BY <1>3, HoldersMove DEF ActiveCounts, Holders
<1>5. Leased' = Leased /\ (Pooled' <=> Pooled)
  BY DEF Leased, Pooled
<1>6. LeaseWhileUsed' /\ LeasedOpen' /\ ExclusiveBorrower'
  BY <1>1, <1>5 DEF LeaseWhileUsed, LeasedOpen, ExclusiveBorrower
<1>7. PoolKeeps'
  BY <1>1, <1>5 DEF PoolKeeps
<1>8. ShutIsIdle' /\ NoMissedWakeup'
  BY <1>1, <1>3 DEF ShutIsIdle, NoMissedWakeup
<1> QED
  BY <1>2, <1>4, <1>6, <1>7, <1>8

\* A connection that is taken moves from the idle ones to the leased ones.
LEMMA OneTaken ==
  ASSUME IInv, NEW b \in Borrowers, pc[b] \in {"out", "awake"}, Pooled, ~closed,
         NEW db \in idle, idle' = idle \ {db}, lease' = [lease EXCEPT ![b] = db],
         active' = active + 1, pc' = [pc EXCEPT ![b] = "using"], late' \subseteq Borrowers,
         UNCHANGED <<size, closed, open, shut>>
  PROVE  IInv'
<1> USE DEF IInv
<1>1. /\ pc' \in [Borrowers -> Places] /\ pc'[b] = "using"
      /\ \A c \in Borrowers : c # b => pc'[c] = pc[c]
  BY DEF Types, Places
<1>2. lease[b] = NoDb /\ db \in Connections /\ db # NoDb
  BY ConnectionPoolAssumption DEF LeaseWhileUsed, Types
<1>3. /\ Leased' = Leased \cup {db}
      /\ lease' \in [Borrowers -> Connections \cup {NoDb}]
      /\ lease'[b] = db
      /\ \A c \in Borrowers : c # b => lease'[c] = lease[c]
  BY <1>2, LeaseAdds
<1>4. Types'
  BY <1>1, <1>3 DEF Types
<1>5. ActiveCounts'
  <2>1. \A c \in Borrowers : c # b => (Holding(c)' <=> Holding(c))
    BY <1>1 DEF Holding
  <2>2. ~Holding(b) /\ Holding(b)'
    BY <1>1 DEF Holding
  <2> QED
    BY <2>1, <2>2, HoldersMove DEF ActiveCounts, Holders
<1>6. Pooled' <=> Pooled
  BY DEF Pooled
<1>7. LeaseWhileUsed' /\ LeasedOpen'
  BY <1>1, <1>2, <1>3, <1>6 DEF LeaseWhileUsed, LeasedOpen, Types
<1>8. ExclusiveBorrower'
  <2>1. \A c \in Borrowers : lease[c] # db
    BY <1>2 DEF ExclusiveBorrower, Leased
  <2> QED
    BY <2>1, <1>3 DEF ExclusiveBorrower
<1>9. PoolKeeps'
  <2>1. (idle \cup Leased)' = idle \cup Leased
    BY <1>3
  <2> QED
    BY <2>1, <1>1, <1>6 DEF PoolKeeps
<1>10. ShutIsIdle' /\ NoMissedWakeup'
  BY <1>1 DEF ShutIsIdle, NoMissedWakeup
<1> QED
  BY <1>4, <1>5, <1>7, <1>8, <1>9, <1>10

\* A thread that may open a connection of its own counts as holding one.
LEMMA OpeningBegun ==
  ASSUME IInv, NEW b \in Borrowers, pc[b] \in {"out", "awake"}, ~Pooled, ~closed,
         active' = active + 1, pc' = [pc EXCEPT ![b] = "opening"], late' \subseteq Borrowers,
         UNCHANGED <<size, idle, closed, open, lease, shut>>
  PROVE  IInv'
<1> USE DEF IInv
<1>1. /\ pc' \in [Borrowers -> Places] /\ pc'[b] = "opening"
      /\ \A c \in Borrowers : c # b => pc'[c] = pc[c]
  BY DEF Types, Places
<1>2. Types'
  BY <1>1 DEF Types
<1>3. ActiveCounts'
  <2>1. \A c \in Borrowers : c # b => (Holding(c)' <=> Holding(c))
    BY <1>1 DEF Holding
  <2>2. ~Holding(b) /\ Holding(b)'
    BY <1>1 DEF Holding
  <2> QED
    BY <2>1, <2>2, HoldersMove DEF ActiveCounts, Holders
<1>4. Leased' = Leased /\ (Pooled' <=> Pooled)
  BY DEF Leased, Pooled
<1>5. LeaseWhileUsed' /\ LeasedOpen' /\ ExclusiveBorrower'
  BY <1>1, <1>4 DEF LeaseWhileUsed, LeasedOpen, ExclusiveBorrower
<1>6. PoolKeeps' /\ ShutIsIdle' /\ NoMissedWakeup'
  BY <1>1, <1>4 DEF PoolKeeps, ShutIsIdle, NoMissedWakeup
<1> QED
  BY <1>2, <1>3, <1>5, <1>6

\* A borrower takes what is idle, opens where it may, or waits.
LEMMA PoolLook ==
  ASSUME IInv, NEW b \in Borrowers, Look(b)
  PROVE  IInv'
<1>1. late' \subseteq Borrowers
  BY DEF IInv, Types, Look
<1>2. CASE Pooled /\ idle = {} /\ ~closed
  BY <1>1, <1>2, NothingTaken DEF Look
<1>3. CASE closed
  BY <1>1, <1>3, NothingTaken DEF Look
<1>4. CASE Pooled /\ ~closed /\ idle # {}
  <2>1. PICK db \in idle : idle' = idle \ {db} /\ lease' = [lease EXCEPT ![b] = db]
    BY <1>4 DEF Look, Taken
  <2> QED
    BY <1>1, <1>4, <2>1, OneTaken DEF Look
<1>5. CASE ~Pooled /\ ~closed
  BY <1>1, <1>5, OpeningBegun DEF Look
<1> QED
  BY <1>2, <1>3, <1>4, <1>5

\* The time of a wait is over.
LEMMA PoolLate ==
  ASSUME IInv, NEW b \in Borrowers, Late(b)
  PROVE  IInv'
BY NothingTaken DEF Late, IInv, Types

\* A connection does not open: the borrower gives up its place.
LEMMA PoolOpenFails ==
  ASSUME IInv, NEW b \in Borrowers, OpenFails(b)
  PROVE  IInv'
<1> USE DEF IInv
<1>1. /\ pc' \in [Borrowers -> Places] /\ pc'[b] = "out"
      /\ \A c \in Borrowers :
           c # b => pc'[c] = IF pc[c] = "asleep" THEN "awake" ELSE pc[c]
  <2>1. [pc EXCEPT ![b] = "out"] \in [Borrowers -> Places]
    BY DEF Types, Places
  <2> QED
    BY <2>1, WokenIs DEF OpenFails, Types
<1>2. ActiveCounts' /\ active' \in Nat
  <2>1. \A c \in Borrowers : c # b => (Holding(c)' <=> Holding(c))
    BY <1>1 DEF Holding
  <2>2. Holding(b) /\ ~Holding(b)'
    BY <1>1 DEF Holding, OpenFails
  <2> QED
    BY <2>1, <2>2, HoldersMove DEF ActiveCounts, Holders, OpenFails, ActiveAfterFailure
<1>3. Types'
  BY <1>1, <1>2 DEF Types, OpenFails
<1>4. Leased' = Leased /\ (Pooled' <=> Pooled)
  BY DEF Leased, Pooled, OpenFails
<1>5. LeaseWhileUsed' /\ LeasedOpen' /\ ExclusiveBorrower'
  BY <1>1, <1>4 DEF LeaseWhileUsed, LeasedOpen, ExclusiveBorrower, OpenFails
<1>6. PoolKeeps' /\ NoMissedWakeup'
  BY <1>1, <1>4 DEF PoolKeeps, NoMissedWakeup, OpenFails
<1>7. ShutIsIdle'
  BY <1>1 DEF ShutIsIdle, OpenFails, Holding
<1> QED
  BY <1>2, <1>3, <1>5, <1>6, <1>7

\* A connection opens, and is leased to the borrower that opened it.
LEMMA PoolOpen ==
  ASSUME IInv, NEW b \in Borrowers, Open(b)
  PROVE  IInv'
<1> USE DEF IInv
<1>1. PICK db \in Connections \ open : /\ open' = open \cup {db}
                                       /\ lease' = [lease EXCEPT ![b] = db]
  BY DEF Open
<1>2. /\ pc' \in [Borrowers -> Places] /\ pc'[b] = "using"
      /\ \A c \in Borrowers : c # b => pc'[c] = pc[c]
  BY DEF Types, Places, Open
<1>3. lease[b] = NoDb /\ db # NoDb /\ ~Pooled
  BY ConnectionPoolAssumption DEF LeaseWhileUsed, Open
<1>4. /\ Leased' = Leased \cup {db}
      /\ lease' \in [Borrowers -> Connections \cup {NoDb}]
      /\ lease'[b] = db
      /\ \A c \in Borrowers : c # b => lease'[c] = lease[c]
  BY <1>1, <1>3, LeaseAdds
<1>5. Types'
  BY <1>1, <1>2, <1>4 DEF Types, Open
<1>6. ActiveCounts'
  <2>1. \A c \in Borrowers : Holding(c)' <=> Holding(c)
    BY <1>2 DEF Holding, Open
  <2> QED
    BY <2>1, HoldersMove DEF ActiveCounts, Holders, Open
<1>7. Pooled' <=> Pooled
  BY DEF Pooled, Open
<1>8. LeaseWhileUsed' /\ LeasedOpen'
  BY <1>1, <1>2, <1>3, <1>4, <1>7 DEF LeaseWhileUsed, LeasedOpen
<1>9. ExclusiveBorrower'
  <2>1. \A c \in Borrowers : lease[c] # db
    BY <1>1, <1>3 DEF LeasedOpen
  <2>2. db \notin idle
    BY <1>1 DEF Types
  <2> QED
    BY <2>1, <2>2, <1>4 DEF ExclusiveBorrower, Open
<1>10. PoolKeeps'
  BY <1>1, <1>3, <1>4, <1>7 DEF PoolKeeps, Open
<1>11. ShutIsIdle' /\ NoMissedWakeup'
  BY <1>2 DEF ShutIsIdle, NoMissedWakeup, Open, Holding
<1> QED
  BY <1>5, <1>6, <1>8, <1>9, <1>10, <1>11

\* The body of a call ends, with a connection to return or one to close.
LEMMA PoolFinish ==
  ASSUME IInv, NEW b \in Borrowers, Finish(b)
  PROVE  IInv'
<1> USE DEF IInv
<1>1. PICK where \in {"back", "broken"} :
        /\ pc' = [pc EXCEPT ![b] = where]
        /\ IF Pooled /\ where = "back"
           THEN UNCHANGED <<open, lease>>
           ELSE open' = open \ {lease[b]} /\ lease' = [lease EXCEPT ![b] = NoDb]
  BY DEF Finish
<1>2. /\ pc' \in [Borrowers -> Places] /\ pc'[b] = where
      /\ \A c \in Borrowers : c # b => pc'[c] = pc[c]
  BY <1>1 DEF Types, Places
<1>3. ActiveCounts'
  <2>1. \A c \in Borrowers : Holding(c)' <=> Holding(c)
    BY <1>2 DEF Holding, Finish
  <2> QED
    BY <2>1, HoldersMove DEF ActiveCounts, Holders, Finish
<1>4. Pooled' <=> Pooled
  BY DEF Pooled, Finish
<1>5. ShutIsIdle' /\ NoMissedWakeup'
  BY <1>2 DEF ShutIsIdle, NoMissedWakeup, Finish, Holding
<1>6. CASE Pooled /\ where = "back"
  <2>1. Leased' = Leased
    BY <1>1, <1>6 DEF Leased
  <2>2. Types' /\ LeasedOpen' /\ ExclusiveBorrower'
    BY <1>1, <1>2, <1>6, <2>1 DEF Types, LeasedOpen, ExclusiveBorrower, Finish
  <2>3. LeaseWhileUsed'
    BY <1>1, <1>2, <1>4, <1>6 DEF LeaseWhileUsed, Finish
  <2>4. PoolKeeps'
    BY <1>1, <1>2, <1>4, <1>6, <2>1 DEF PoolKeeps, Finish
  <2> QED
    BY <1>3, <1>5, <2>2, <2>3, <2>4
<1>7. CASE ~(Pooled /\ where = "back")
  <2>1. /\ Leased' = Leased \ {lease[b]}
        /\ lease' \in [Borrowers -> Connections \cup {NoDb}]
        /\ lease'[b] = NoDb
        /\ \A c \in Borrowers : c # b => lease'[c] = lease[c]
    BY <1>1, <1>7, LeaseRemoves
  <2>2. lease[b] # NoDb /\ lease[b] \in Leased
    BY DEF LeaseWhileUsed, Finish, Leased
  <2>3. open' = open \ {lease[b]}
    BY <1>1, <1>7
  <2>4. lease[b] \notin idle
    BY <2>2 DEF ExclusiveBorrower
  <2>5. Types'
    BY <1>2, <2>1, <2>3, <2>4 DEF Types, Finish
  <2>6. LeasedOpen' /\ ExclusiveBorrower'
    BY <2>1, <2>2, <2>3 DEF LeasedOpen, ExclusiveBorrower, Finish
  <2>7. LeaseWhileUsed'
    BY <1>2, <1>4, <1>7, <2>1 DEF LeaseWhileUsed, Finish
  <2>8. PoolKeeps'
    BY <1>2, <1>4, <1>7, <2>1, <2>3 DEF PoolKeeps, Finish
  <2> QED
    BY <1>3, <1>5, <2>5, <2>6, <2>7, <2>8
<1> QED
  BY <1>6, <1>7

\* A connection comes back to the pool, or is closed, or closes the pool.
LEMMA PoolReturn ==
  ASSUME IInv, NEW b \in Borrowers, Return(b)
  PROVE  IInv'
<1> USE DEF IInv
<1>1. /\ pc' \in [Borrowers -> Places] /\ pc'[b] = "out"
      /\ \A c \in Borrowers :
           c # b => pc'[c] = IF pc[c] = "asleep" THEN "awake" ELSE pc[c]
  <2>1. [pc EXCEPT ![b] = "out"] \in [Borrowers -> Places]
    BY DEF Types, Places
  <2> QED
    BY <2>1, WokenIs DEF Return, Notified, Types
<1>2. /\ Leased' = Leased \ {lease[b]}
      /\ lease' \in [Borrowers -> Connections \cup {NoDb}]
      /\ lease'[b] = NoDb
      /\ \A c \in Borrowers : c # b => lease'[c] = lease[c]
  BY LeaseRemoves DEF Return
<1>3. ActiveCounts' /\ active' \in Nat
  <2>1. \A c \in Borrowers : c # b => (Holding(c)' <=> Holding(c))
    BY <1>1 DEF Holding
  <2>2. Holding(b) /\ ~Holding(b)'
    BY <1>1 DEF Holding, Return
  <2> QED
    BY <2>1, <2>2, HoldersMove DEF ActiveCounts, Holders, Return
<1>4. Pooled' <=> Pooled
  BY DEF Pooled, Return
<1>5. LeaseWhileUsed'
  BY <1>1, <1>2, <1>4 DEF LeaseWhileUsed
<1>6. NoMissedWakeup'
  BY <1>1 DEF NoMissedWakeup
<1>7. ShutIsIdle'
  BY <1>1 DEF ShutIsIdle, Return, Holding
<1>8. CASE pc[b] = "broken"
  <2>1. lease[b] = NoDb
    BY <1>8 DEF LeaseWhileUsed
  <2>2. Leased' = Leased /\ idle' = {} /\ open' = open \ idle /\ closed'
    BY <1>2, <1>8, <2>1 DEF Leased, Return
  <2>3. Types'
    BY <1>1, <1>2, <1>3, <2>2, <1>8 DEF Types, Return
  <2>4. LeasedOpen' /\ ExclusiveBorrower'
    BY <1>2, <2>1, <2>2 DEF LeasedOpen, ExclusiveBorrower, Leased
  <2>5. PoolKeeps'
    BY <2>2 DEF PoolKeeps
  <2> QED
    BY <1>3, <1>5, <1>6, <1>7, <2>3, <2>4, <2>5
<1>9. CASE pc[b] = "back" /\ Keeps(b)
  <2>1. lease[b] # NoDb /\ lease[b] \in Leased /\ lease[b] \in open
    BY <1>9 DEF LeaseWhileUsed, Leased, LeasedOpen, Keeps
  <2>2. idle' = idle \cup {lease[b]} /\ open' = open /\ ~closed /\ ~closed' /\ Pooled
    BY <1>9 DEF Return, Keeps
  <2>3. Types'
    BY <1>1, <1>2, <1>3, <2>1, <2>2 DEF Types, Return
  <2>4. LeasedOpen' /\ ExclusiveBorrower'
    BY <1>2, <2>2 DEF LeasedOpen, ExclusiveBorrower
  <2>5. (idle \cup Leased)' = idle \cup Leased
    BY <1>2, <2>1, <2>2
  <2>6. size' = size
    BY DEF Return
  <2>7. PoolKeeps'
    BY <1>1, <1>4, <1>9, <2>2, <2>5, <2>6 DEF PoolKeeps
  <2> QED
    BY <1>3, <1>5, <1>6, <1>7, <2>3, <2>4, <2>7
<1>10. CASE pc[b] = "back" /\ ~Keeps(b)
  <2>1. idle' = idle /\ open' = open \ {lease[b]} /\ closed' = closed /\ idle = {}
    BY <1>10 DEF Return, Keeps, PoolKeeps
  <2>2. Types'
    BY <1>1, <1>2, <1>3, <2>1 DEF Types, Return
  <2>3. LeasedOpen' /\ ExclusiveBorrower'
    BY <1>2, <2>1 DEF LeasedOpen, ExclusiveBorrower
  <2>4. Pooled => closed
    BY <1>10 DEF Keeps
  <2>5. PoolKeeps'
    BY <1>2, <1>4, <2>1, <2>4 DEF PoolKeeps
  <2> QED
    BY <1>3, <1>5, <1>6, <1>7, <2>2, <2>3, <2>5
<1> QED
  BY <1>8, <1>9, <1>10 DEF Return

\* The owner closes the pool, while nobody holds a connection.
LEMMA PoolClose ==
  ASSUME IInv, Close
  PROVE  IInv'
<1> USE DEF IInv
<1>1. Leased = {} /\ \A b \in Borrowers : ~Holding(b)
  BY NoneActive DEF Close, MayClose
<1>2. /\ pc' \in [Borrowers -> Places]
      /\ \A c \in Borrowers : pc'[c] = IF pc[c] = "asleep" THEN "awake" ELSE pc[c]
  BY WokenIs DEF Close, Types
<1>3. Leased' = Leased /\ (Pooled' <=> Pooled)
  BY DEF Leased, Pooled, Close
<1>4. \A b \in Borrowers : ~Holding(b)'
  BY <1>1, <1>2 DEF Holding
<1>5. Types'
  BY <1>2 DEF Types, Close
<1>6. ActiveCounts'
  <2>1. Holders' = Holders
    BY <1>1, <1>4 DEF Holders
  <2> QED
    BY <2>1 DEF ActiveCounts, Holders, Close
<1>7. LeaseWhileUsed'
  BY <1>2, <1>3 DEF LeaseWhileUsed, Close
<1>8. LeasedOpen' /\ ExclusiveBorrower'
  BY <1>1, <1>3 DEF LeasedOpen, ExclusiveBorrower, Leased, Close
<1>9. PoolKeeps'
  BY <1>3 DEF PoolKeeps, Close
<1>10. ShutIsIdle' /\ NoMissedWakeup'
  BY <1>2, <1>4 DEF ShutIsIdle, NoMissedWakeup, Close
<1> QED
  BY <1>5, <1>6, <1>7, <1>8, <1>9, <1>10

\* Every step of the pool preserves its invariant.
LEMMA PoolStep == IInv /\ [Next]_vars => IInv'
<1> SUFFICES ASSUME IInv, [Next]_vars PROVE IInv'
  OBVIOUS
<1>1. CASE \E b \in Borrowers : \/ Look(b) \/ Late(b) \/ OpenFails(b) \/ Open(b)
                               \/ Finish(b) \/ Return(b)
  BY <1>1, PoolLook, PoolLate, PoolOpenFails, PoolOpen, PoolFinish, PoolReturn
<1>2. CASE Close
  BY <1>2, PoolClose
<1>3. CASE UNCHANGED vars
  BY <1>3 DEF vars, IInv, Types, LeaseWhileUsed, LeasedOpen, ExclusiveBorrower, ActiveCounts,
              PoolKeeps, ShutIsIdle, NoMissedWakeup, Leased, Pooled, Holding
<1> QED
  BY <1>1, <1>2, <1>3 DEF Next

-------------------------------------------------------------------------------
\* The invariant holds of a pool, or of a ledger without one, for its whole life.
THEOREM PoolSafe == Spec => []IInv
BY PoolInit, PoolStep, PTL DEF Spec

\* For any threads, connections and pool sizes, through failed opens, failed
\* rollbacks and close(): a connection has one borrower at most, the count of
\* leases is exact, a pool in service has all its connections, and a closed one
\* that nobody uses has none.
THEOREM PoolAccounted == Spec => []ConnectionsAccounted
<1>1. IInv => ConnectionsAccounted
  <2> SUFFICES ASSUME IInv PROVE ConnectionsAccounted
    OBVIOUS
  <2> USE DEF IInv
  <2>1. active \in 0 .. Cardinality(Borrowers)
    BY HoldersFinite DEF ActiveCounts, Holders
  <2>2. TypeOK
    BY <2>1 DEF TypeOK, Types
  <2>3. closed /\ active = 0 => open = {}
    BY NoneActive DEF PoolKeeps
  <2>4. NoConnectionLost
    BY <2>3 DEF NoConnectionLost, PoolKeeps
  <2>5. \A b \in Borrowers : ~Holding(b) => lease[b] = NoDb
    BY DEF LeaseWhileUsed, Holding
  <2>6. ShutMeansQuiet
    BY <2>5 DEF ShutMeansQuiet, ShutIsIdle, PoolKeeps, Leased
  <2> QED
    BY <2>2, <2>4, <2>6 DEF ConnectionsAccounted
<1> QED
  BY <1>1, PoolSafe, PTL

\* For any threads and connections: a thread sleeps only while there is no
\* connection to take and no closed pool to report.
THEOREM PoolWakes == Spec => []NoMissedWakeup
<1>1. IInv => NoMissedWakeup
  BY DEF IInv
<1> QED
  BY <1>1, PoolSafe, PTL
-------------------------------------------------------------------------------
(* The pool of workers. *)

WavesTyped ==
  /\ generation \in 0 .. MaxJobs /\ remaining \in Nat
  /\ halt \in BOOLEAN /\ error \in BOOLEAN /\ threw \in BOOLEAN
  /\ place \in [Crew -> W!Places] /\ seen \in [Crew -> 0 .. MaxJobs]
  /\ ran \in [Crew -> Nat]
  /\ caller \in {"between", "waiting", "awake", "thrown", "joining", "over"}

AtWork(w) == place[w] \in {"working", "failed", "finishing"}

\* The workers that main waits for.
NotDone == {w \in Crew : seen[w] # generation \/ AtWork(w)}

\* A worker has run each job it has seen, but for the one it is at.
WorkerKeepsUp ==
  \A w \in Crew :
    /\ seen[w] \in {generation - 1, generation}
    /\ AtWork(w) => seen[w] = generation
    /\ ran[w] = IF place[w] = "working" THEN seen[w] - 1 ELSE seen[w]

WavesCounted == remaining = Cardinality(NotDone)

MainWaits ==
  /\ caller \notin {"waiting", "awake"} => remaining = 0
  /\ halt <=> caller \in {"joining", "over"}

\* An exception is noted, or its worker is about to note it.
FailureNoted ==
  /\ threw <=> error \/ \E w \in Crew : place[w] = "failed"
  /\ caller = "between" => ~error
  /\ caller = "thrown" => error

WavesInv == WavesTyped /\ WorkerKeepsUp /\ WavesCounted /\ MainWaits /\ FailureNoted

-------------------------------------------------------------------------------
\* The operator is the same one through every instance.
LEMMA WaveCardinality == \A S : W!Cardinality(S) = Cardinality(S)
BY DEF W!Cardinality, Cardinality

\* The workers that main waits for are finitely many.
LEMMA NotDoneFinite ==
  /\ IsFiniteSet(NotDone) /\ Cardinality(NotDone) \in 0 .. Cardinality(Crew)
  /\ Cardinality(Crew) \in Nat
  /\ Cardinality(NotDone) = 0 => NotDone = {}
<1>1. NotDone \in SUBSET Crew
  BY DEF NotDone
<1> QED
  BY <1>1, ThreadsAssumption, FS_Subset, FS_CardinalityType, FS_EmptySet

\* Before the first job, and when main waits for nobody, everybody has done it all.
LEMMA NobodyPending ==
  ASSUME WavesInv, remaining = 0
  PROVE  \A w \in Crew : seen[w] = generation /\ ~AtWork(w) /\ ran[w] = generation
<1>1. NotDone = {}
  BY NotDoneFinite DEF WavesInv, WavesCounted
<1> QED
  BY <1>1 DEF NotDone, AtWork, WavesInv, WorkerKeepsUp

\* Waking sleepers makes nobody busy or idle.
LEMMA NotifiedIs ==
  ASSUME WavesTyped
  PROVE  /\ W!Notified \in [Crew -> W!Places]
         /\ \A w \in Crew : W!Notified[w] = IF place[w] = "asleep" THEN "looking" ELSE place[w]
BY DEF WavesTyped, W!Notified, W!Places

\* A pool of workers begins with no job and nothing to wait for.
LEMMA WavesInit ==
  ASSUME W!Init
  PROVE  WavesInv
<1>0. /\ place \in [Crew -> W!Places] /\ seen \in [Crew -> 0 .. MaxJobs]
      /\ ran \in [Crew -> Nat]
      /\ \A w \in Crew : place[w] = "looking" /\ seen[w] = 0 /\ ran[w] = 0
  <2>1. 0 \in 0 .. MaxJobs /\ "looking" \in W!Places
    BY ThreadsAssumption DEF W!Places
  <2> QED
    BY <2>1 DEF W!Init
<1>1. /\ WavesTyped /\ WorkerKeepsUp /\ MainWaits /\ FailureNoted
  <2>1. WavesTyped
    <3>1. generation \in 0 .. MaxJobs /\ remaining \in Nat
      BY ThreadsAssumption DEF W!Init
    <3>2. /\ halt \in BOOLEAN /\ error \in BOOLEAN /\ threw \in BOOLEAN
          /\ caller \in {"between", "waiting", "awake", "thrown", "joining", "over"}
      BY DEF W!Init
    <3> QED
      BY <1>0, <3>1, <3>2 DEF WavesTyped
  <2>2. WorkerKeepsUp
    BY <1>0 DEF W!Init, WorkerKeepsUp, AtWork
  <2> QED
    BY <2>1, <2>2, <1>0 DEF W!Init, MainWaits, FailureNoted
<1>2. NotDone = {}
  BY DEF W!Init, NotDone, AtWork
<1> QED
  BY <1>1, <1>2, FS_EmptySet DEF WavesInv, WavesCounted, W!Init

\* run() makes a new job, which no worker has seen.
LEMMA WavesRun ==
  ASSUME WavesInv, W!Run
  PROVE  WavesInv'
<1> USE DEF WavesInv
<1>1. \A w \in Crew : seen[w] = generation /\ ~AtWork(w) /\ ran[w] = generation
  BY NobodyPending DEF MainWaits, W!Run
<1>2. /\ place' \in [Crew -> W!Places]
      /\ \A w \in Crew : place'[w] = IF place[w] = "asleep" THEN "looking" ELSE place[w]
  BY NotifiedIs DEF W!Run
<1>3. WavesTyped'
  <2>1. remaining' \in Nat /\ generation' \in 0 .. MaxJobs
    BY NotDoneFinite, WaveCardinality, ThreadsAssumption DEF WavesTyped, W!Run
  <2> QED
    BY <1>2, <2>1 DEF WavesTyped, W!Run
<1>4. WorkerKeepsUp'
  BY <1>1, <1>2 DEF WorkerKeepsUp, AtWork, W!Run, WavesTyped
<1>5. WavesCounted'
  <2>1. NotDone' = Crew
    BY <1>1 DEF NotDone, W!Run, WavesTyped
  <2> QED
    BY <2>1, WaveCardinality DEF WavesCounted, W!Run
<1>6. MainWaits' /\ FailureNoted'
  BY <1>1, <1>2 DEF MainWaits, FailureNoted, W!Run, AtWork
<1> QED
  BY <1>3, <1>4, <1>5, <1>6

\* What main does besides handing out a job changes no worker's share.
LEMMA WavesMain ==
  ASSUME WavesInv, W!MainWakes \/ W!RunReturns \/ W!Stop \/ W!Join
  PROVE  WavesInv'
<1> USE DEF WavesInv
<1>1. /\ UNCHANGED <<generation, remaining, seen, ran, error, threw>>
      /\ place' \in [Crew -> W!Places]
      /\ \A w \in Crew : place'[w] = IF place[w] = "asleep" THEN place'[w] ELSE place[w]
      /\ \A w \in Crew : place[w] = "asleep" => place'[w] \in {"asleep", "looking"}
  BY NotifiedIs DEF W!MainWakes, W!RunReturns, W!Stop, W!Join, WavesTyped
<1>2. \A w \in Crew : AtWork(w)' <=> AtWork(w)
  BY <1>1 DEF AtWork
<1>3. WavesTyped'
  BY <1>1 DEF WavesTyped, W!MainWakes, W!RunReturns, W!Stop, W!Join
<1>4. WorkerKeepsUp'
  BY <1>1, <1>2 DEF WorkerKeepsUp
<1>5. WavesCounted'
  <2>1. NotDone' = NotDone
    BY <1>1, <1>2 DEF NotDone
  <2> QED
    BY <1>1, <2>1 DEF WavesCounted
<1>6. MainWaits' /\ FailureNoted'
  BY <1>1 DEF MainWaits, FailureNoted, W!MainWakes, W!RunReturns, W!Stop, W!Join, WavesTyped
<1> QED
  BY <1>3, <1>4, <1>5, <1>6

\* The steps of a worker that leave its share as it is.
LEMMA WavesIdle ==
  ASSUME WavesInv, NEW w \in Crew, W!Wake(w) \/ (W!Look(w) /\ place'[w] # "working")
  PROVE  WavesInv'
<1> USE DEF WavesInv
<1>1. /\ UNCHANGED <<generation, remaining, halt, error, seen, caller, ran, threw>>
      /\ place' \in [Crew -> W!Places]
      /\ place[w] \in {"looking", "asleep"} /\ place'[w] \in {"looking", "asleep", "returned"}
      /\ \A v \in Crew : v # w => place'[v] = place[v]
  BY DEF W!Wake, W!Look, WavesTyped, W!Places
<1>2. \A v \in Crew : AtWork(v)' <=> AtWork(v)
  BY <1>1 DEF AtWork
<1>3. NotDone' = NotDone
  BY <1>1, <1>2 DEF NotDone
<1>4. WavesTyped' /\ WorkerKeepsUp'
  BY <1>1, <1>2 DEF WavesTyped, WorkerKeepsUp
<1>5. WavesCounted' /\ MainWaits' /\ FailureNoted'
  BY <1>1, <1>3 DEF WavesCounted, MainWaits, FailureNoted
<1> QED
  BY <1>4, <1>5

\* A worker takes up the job it has not seen, which main waits for it to do.
LEMMA WavesTake ==
  ASSUME WavesInv, NEW w \in Crew, W!Look(w), place'[w] = "working"
  PROVE  WavesInv'
<1> USE DEF WavesInv
<1>1. /\ UNCHANGED <<generation, remaining, halt, error, caller, ran, threw>>
      /\ place' \in [Crew -> W!Places] /\ seen' \in [Crew -> 0 .. MaxJobs]
      /\ place[w] = "looking" /\ place'[w] = "working"
      /\ seen[w] # generation /\ seen'[w] = generation
      /\ \A v \in Crew : v # w => place'[v] = place[v] /\ seen'[v] = seen[v]
  BY DEF W!Look, W!Fresh, WavesTyped, W!Places
<1>2. NotDone' = NotDone
  BY <1>1 DEF NotDone, AtWork
<1>3. WavesTyped' /\ WorkerKeepsUp'
  BY <1>1 DEF WavesTyped, WorkerKeepsUp, AtWork
<1>4. WavesCounted' /\ MainWaits' /\ FailureNoted'
  BY <1>1, <1>2 DEF WavesCounted, MainWaits, FailureNoted
<1> QED
  BY <1>3, <1>4

\* A worker runs its job, which may throw.
LEMMA WavesWork ==
  ASSUME WavesInv, NEW w \in Crew, W!Work(w)
  PROVE  WavesInv'
<1> USE DEF WavesInv
<1>1. /\ UNCHANGED <<generation, remaining, halt, error, seen, caller>>
      /\ place' \in [Crew -> W!Places] /\ place[w] = "working"
      /\ place'[w] \in {"finishing", "failed"} /\ (threw' <=> threw \/ place'[w] = "failed")
      /\ threw' \in BOOLEAN
      /\ \A v \in Crew : v # w => place'[v] = place[v]
  <2>1. CASE place' = [place EXCEPT ![w] = "finishing"] /\ threw' = threw
    BY <2>1 DEF W!Work, WavesTyped, W!Places
  <2>2. CASE place' = [place EXCEPT ![w] = "failed"] /\ threw' = TRUE
    BY <2>2 DEF W!Work, WavesTyped, W!Places
  <2> QED
    BY <2>1, <2>2 DEF W!Work
<1>2. /\ ran' \in [Crew -> Nat] /\ ran'[w] = ran[w] + 1
      /\ \A v \in Crew : v # w => ran'[v] = ran[v]
  BY DEF W!Work, WavesTyped
<1>3. NotDone' = NotDone
  BY <1>1 DEF NotDone, AtWork
<1>4. WavesTyped'
  BY <1>1, <1>2 DEF WavesTyped
<1>5. WorkerKeepsUp'
  <2>1. ran[w] = seen[w] - 1 /\ seen[w] \in Nat
    BY <1>1 DEF WorkerKeepsUp, WavesTyped
  <2> QED
    BY <1>1, <1>2, <2>1 DEF WorkerKeepsUp, AtWork
<1>6. WavesCounted' /\ MainWaits'
  BY <1>1, <1>3 DEF WavesCounted, MainWaits
<1>7. FailureNoted'
  BY <1>1 DEF FailureNoted
<1> QED
  BY <1>4, <1>5, <1>6, <1>7

\* A worker notes what it threw.
LEMMA WavesThrow ==
  ASSUME WavesInv, NEW w \in Crew, W!Throw(w)
  PROVE  WavesInv'
<1> USE DEF WavesInv
<1>1. /\ UNCHANGED <<generation, remaining, halt, seen, caller, ran, threw>>
      /\ place' \in [Crew -> W!Places] /\ place[w] = "failed" /\ place'[w] = "finishing" /\ error'
      /\ error' \in BOOLEAN
      /\ \A v \in Crew : v # w => place'[v] = place[v]
  BY DEF W!Throw, WavesTyped, W!Places
<1>2. NotDone' = NotDone /\ w \in NotDone
  BY <1>1 DEF NotDone, AtWork
<1>3. WavesTyped' /\ WorkerKeepsUp'
  BY <1>1 DEF WavesTyped, WorkerKeepsUp, AtWork
<1>4. WavesCounted' /\ MainWaits'
  BY <1>1, <1>2 DEF WavesCounted, MainWaits
<1>5. caller # "between"
  BY <1>1, NobodyPending DEF MainWaits, AtWork
<1>6. FailureNoted'
  BY <1>1, <1>5 DEF FailureNoted
<1> QED
  BY <1>3, <1>4, <1>6

\* A worker counts itself as done, and the last one wakes main.
LEMMA WavesDone ==
  ASSUME WavesInv, NEW w \in Crew, W!Done(w)
  PROVE  WavesInv'
<1> USE DEF WavesInv
<1>1. /\ UNCHANGED <<generation, halt, error, seen, ran, threw>>
      /\ place' \in [Crew -> W!Places] /\ place[w] = "finishing" /\ place'[w] = "looking"
      /\ \A v \in Crew : v # w => place'[v] = place[v]
  BY DEF W!Done, WavesTyped, W!Places
<1>2. /\ remaining' = remaining - 1
      /\ caller' = IF remaining' = 0 THEN "awake" ELSE caller
  BY DEF W!Done, W!Counted
<1>3. NotDone' = NotDone \ {w} /\ w \in NotDone
  BY <1>1 DEF NotDone, AtWork, WorkerKeepsUp
<1>4. WavesCounted' /\ remaining' \in Nat
  <2>1. /\ IsFiniteSet(NotDone \ {w})
        /\ Cardinality(NotDone \ {w}) = Cardinality(NotDone) - 1
    BY <1>3, NotDoneFinite, FS_RemoveElement
  <2>2. Cardinality(NotDone \ {w}) \in Nat
    BY <2>1, FS_CardinalityType
  <2> QED
    BY <1>2, <1>3, <2>1, <2>2 DEF WavesCounted
<1>5. WavesTyped'
  BY <1>1, <1>2, <1>4 DEF WavesTyped
<1>6. WorkerKeepsUp' /\ FailureNoted'
  <2>1. caller \in {"waiting", "awake"}
    BY <1>1, NobodyPending DEF MainWaits, AtWork, WavesTyped
  <2> QED
    BY <1>1, <1>2, <2>1 DEF WorkerKeepsUp, FailureNoted, AtWork
<1>7. MainWaits'
  <2>1. caller \in {"waiting", "awake"}
    BY <1>1, NobodyPending DEF MainWaits, AtWork, WavesTyped
  <2> QED
    BY <1>1, <1>2, <2>1 DEF MainWaits
<1> QED
  BY <1>4, <1>5, <1>6, <1>7

\* Every step of the workers preserves their invariant.
LEMMA WavesStep == WavesInv /\ [W!Next]_(W!vars) => WavesInv'
<1> SUFFICES ASSUME WavesInv, [W!Next]_(W!vars) PROVE WavesInv'
  OBVIOUS
<1>1. CASE W!Run
  BY <1>1, WavesRun
<1>2. CASE W!MainWakes \/ W!RunReturns \/ W!Stop \/ W!Join
  BY <1>2, WavesMain
<1>3. ASSUME NEW w \in Crew, W!Look(w) \/ W!Wake(w) \/ W!Work(w) \/ W!Throw(w) \/ W!Done(w)
      PROVE  WavesInv'
  BY <1>3, WavesIdle, WavesTake, WavesWork, WavesThrow, WavesDone
<1>4. CASE UNCHANGED W!vars
  BY <1>4 DEF W!vars, WavesInv, WavesTyped, WorkerKeepsUp, WavesCounted, MainWaits, FailureNoted, NotDone, AtWork
<1> QED
  BY <1>1, <1>2, <1>3, <1>4 DEF W!Next

-------------------------------------------------------------------------------
\* What the property of the waves asks for follows from their invariant.
LEMMA WavesAccounts ==
  ASSUME WavesInv
  PROVE  W!WavesAreWhole
<1>1. \A w \in Crew : ran[w] \in {generation - 1, generation}
  BY DEF WavesInv, WorkerKeepsUp, AtWork, WavesTyped
<1>2. caller \in {"between", "thrown", "joining", "over"} =>
        \A w \in Crew : ran[w] = generation /\ ~AtWork(w)
  BY NobodyPending DEF WavesInv, MainWaits
<1>3. W!JobsAreWhole
  BY <1>1, <1>2, WaveCardinality DEF W!JobsAreWhole, WavesInv, WavesCounted, NotDone, AtWork
<1>4. W!TypeOK
  BY NotDoneFinite, WaveCardinality DEF W!TypeOK, WavesInv, WavesTyped, WavesCounted
<1>5. W!ThrownIsThrown
  BY <1>2 DEF W!ThrownIsThrown, WavesInv, FailureNoted, AtWork
<1> QED
  BY <1>3, <1>4, <1>5 DEF W!WavesAreWhole

\* For any finite set of workers and any number of jobs: when run() returns every
\* worker has done the job, once, the count that run() waits for is exact, and what
\* a worker threw comes out of the run() it was thrown in.
THEOREM WavesWhole == W!Spec => []W!WavesAreWhole
<1>1. W!Init => WavesInv
  BY WavesInit
<1>2. WavesInv /\ [W!Next]_(W!vars) => WavesInv'
  BY WavesStep
<1>3. WavesInv => W!WavesAreWhole
  BY WavesAccounts
<1> QED
  BY <1>1, <1>2, <1>3, PTL DEF W!Spec

-------------------------------------------------------------------------------
(* The pipeline. *)

Wait == {r \in P!Requests : \E k \in P!Tenants : r \in P!ToSet(queues[k])}
Held == {r \in P!Requests : \E w \in Signers : r \in batch[w]}

PipelineTyped ==
  /\ option.keys \in Nat \ {0}
  /\ queues \in [P!Tenants -> Seq(P!Requests)] /\ queued \in Nat
  /\ next \in 0 .. Offered /\ done \in BOOLEAN
  /\ main \in {"starting", "offering", "joining", "leaving", "over"}
  /\ at \in [Signers -> P!Places] /\ batch \in [Signers -> SUBSET P!Requests]
  /\ pending \in Seq(Signers)
  /\ owner \in {"none", "asleep", "looking", "executing", "returned"}

\* No request is queued twice.
QueuesApart ==
  \A k, l \in P!Tenants : \A i \in 1 .. Len(queues[k]), j \in 1 .. Len(queues[l]) :
    queues[k][i] = queues[l][j] => k = l /\ i = j

\* No request is in two batches.
BatchesApart == \A v, w \in Signers : v # w => batch[v] \cap batch[w] = {}

BatchesHeld ==
  \A w \in Signers : /\ Cardinality(batch[w]) <= BatchSize
                     /\ batch[w] # {} <=> at[w] \in P!Signing

\* What was offered is split into what was rejected, verified, expired or failed,
\* what workers hold and what waits.
OnePlace ==
  /\ rejected \cup verified \cup expired \cup failed \cup Held \cup Wait = 0 .. next - 1
  /\ rejected \cap verified = {}
  /\ (rejected \cup verified) \cap expired = {}
  /\ (rejected \cup verified \cup expired) \cap failed = {}
  /\ (rejected \cup verified \cup expired \cup failed) \cap Held = {}
  /\ (rejected \cup verified \cup expired \cup failed \cup Held) \cap Wait = {}

QueueCounted == queued = Cardinality(Wait) /\ queued <= Capacity

\* A worker returns when everything was offered and nothing waits.
MainEnds ==
  /\ done <=> main \in {"joining", "leaving", "over"}
  /\ done => next = Offered
  /\ main = "starting" => \A w \in Signers : at[w] = "unstarted"
  /\ \A w \in Signers : at[w] = "returned" => done /\ queued = 0
  /\ main \in {"leaving", "over"} => \A w \in Signers : at[w] = "returned"

\* Whom the owner works for has left its queue.
OwnerKeeps ==
  /\ P!ToSet(pending) \subseteq P!Promised
  /\ Cardinality(P!Promised) = Len(pending) + (IF owner = "executing" THEN 1 ELSE 0)

Requested == QueuesApart /\ BatchesApart /\ OnePlace /\ QueueCounted

PipelineInv == PipelineTyped /\ Requested /\ BatchesHeld /\ MainEnds /\ OwnerKeeps

-------------------------------------------------------------------------------
\* The operators are the same ones through every instance.
LEMMA PipelineOperators ==
  /\ \A S : P!Cardinality(S) = Cardinality(S)
  /\ \A s : P!ToSet(s) = {s[i] : i \in DOMAIN s}
BY DEF P!Cardinality, Cardinality, P!ToSet

\* The members of a sequence of requests.
LEMMA ToSetIs ==
  ASSUME NEW S, NEW s \in Seq(S)
  PROVE  P!ToSet(s) = {s[i] : i \in 1 .. Len(s)} /\ P!ToSet(s) \subseteq S
<1>1. DOMAIN s = 1 .. Len(s) /\ \A i \in 1 .. Len(s) : s[i] \in S
  OBVIOUS
<1> QED
  BY <1>1, PipelineOperators

\* Sets of requests have a number.
LEMMA RequestsFinite ==
  ASSUME NEW S \in SUBSET P!Requests
  PROVE  IsFiniteSet(S) /\ Cardinality(S) \in Nat
<1>1. IsFiniteSet(P!Requests)
  BY ThreadsAssumption, FS_Interval DEF P!Requests
<1> QED
  BY <1>1, FS_Subset, FS_CardinalityType

\* Disjoint sets of requests add up.
LEMMA DisjointAdds ==
  ASSUME NEW S \in SUBSET P!Requests, NEW T \in SUBSET P!Requests, S \cap T = {}
  PROVE  Cardinality(S \cup T) = Cardinality(S) + Cardinality(T)
<1>1. IsFiniteSet(S) /\ IsFiniteSet(T) /\ Cardinality(S) \in Nat /\ Cardinality(T) \in Nat
  BY RequestsFinite
<1>2. Cardinality(S \cup T) = Cardinality(S) + Cardinality(T) - Cardinality(S \cap T)
  BY <1>1, FS_Union
<1>3. Cardinality(S \cap T) = 0
  BY FS_EmptySet
<1> QED
  BY <1>1, <1>2, <1>3

\* A batch is exchanged for another of requests that no other worker holds.
LEMMA BatchMoves ==
  ASSUME PipelineTyped, BatchesApart, NEW w \in Signers, NEW b \in SUBSET P!Requests,
         batch' = [batch EXCEPT ![w] = b], b \cap (Held \ batch[w]) = {}
  PROVE  /\ Held' = (Held \ batch[w]) \cup b /\ batch[w] \subseteq Held
         /\ batch' \in [Signers -> SUBSET P!Requests] /\ BatchesApart'
         /\ batch'[w] = b /\ \A v \in Signers : v # w => batch'[v] = batch[v]
<1>1. /\ batch' \in [Signers -> SUBSET P!Requests]
      /\ batch'[w] = b /\ \A v \in Signers : v # w => batch'[v] = batch[v]
  BY DEF PipelineTyped
<1>2. batch[w] \subseteq Held
  BY DEF PipelineTyped, Held
<1>3. Held' = (Held \ batch[w]) \cup b
  <2>1. Held' \subseteq (Held \ batch[w]) \cup b
    BY <1>1 DEF Held, BatchesApart
  <2>2. (Held \ batch[w]) \cup b \subseteq Held'
    BY <1>1 DEF Held
  <2> QED
    BY <2>1, <2>2
<1>4. \A v \in Signers : v # w => batch[v] \subseteq Held \ batch[w]
  BY DEF PipelineTyped, Held, BatchesApart
<1>5. BatchesApart'
  BY <1>1, <1>4 DEF BatchesApart
<1> QED
  BY <1>1, <1>2, <1>3, <1>5

\* The places of requests do not change with the steps of threads.
LEMMA RequestsKept ==
  ASSUME PipelineInv,
         UNCHANGED <<option, queues, queued, next, batch, rejected, verified, expired, failed>>
  PROVE  Requested'
<1>1. Held' = Held /\ Wait' = Wait
  BY DEF Held, Wait, P!Tenants, P!Requests
<1>2. QueuesApart' /\ BatchesApart'
  BY DEF PipelineInv, Requested, QueuesApart, BatchesApart, P!Tenants
<1>3. OnePlace' /\ QueueCounted'
  BY <1>1 DEF PipelineInv, Requested, OnePlace, QueueCounted
<1> QED
  BY <1>2, <1>3 DEF Requested

\* Only who sleeps or dozes is told to look.
LEMMA NotifiedKeeps ==
  ASSUME NEW places \in [Signers -> P!Places]
  PROVE  /\ P!Notified(places) \in [Signers -> P!Places]
         /\ \A w \in Signers : /\ P!Notified(places)[w] = places[w] \/ places[w] \in {"asleep", "dozing"}
                               /\ places[w] \in {"asleep", "dozing"} => P!Notified(places)[w] = "looking"
BY DEF P!Notified, P!Places

\* Whoever waits for the owner is one of finitely many.
LEMMA PromisedFinite ==
  /\ IsFiniteSet(P!Promised) /\ Cardinality(P!Promised) \in Nat
  /\ P!Promised \subseteq Signers
<1>1. P!Promised \in SUBSET Signers
  BY DEF P!Promised
<1> QED
  BY <1>1, ThreadsAssumption, FS_Subset, FS_CardinalityType

\* A step that takes no worker to the owner or from it.
LEMMA OwnerLeft ==
  ASSUME PipelineInv, UNCHANGED <<pending, owner>>,
         \A w \in Signers : at'[w] = "promised" <=> at[w] = "promised"
  PROVE  OwnerKeeps'
<1>1. P!Promised' = P!Promised
  BY DEF P!Promised
<1> QED
  BY <1>1, PipelineOperators DEF PipelineInv, OwnerKeeps, P!ToSet

\* A run begins with nothing offered, queued or held.
LEMMA PipelineInit ==
  ASSUME P!Init
  PROVE  PipelineInv
<1>1. PipelineTyped
  <2>1. /\ option.keys \in Nat \ {0} /\ 0 \in 0 .. Offered /\ main = "starting"
        /\ owner \in {"none", "looking"}
    BY ThreadsAssumption DEF P!Init
  <2>2. /\ queues = [k \in P!Tenants |-> <<>>] /\ queued = 0 /\ next = 0 /\ done = FALSE
        /\ at = [w \in Signers |-> "unstarted"] /\ batch = [w \in Signers |-> {}]
        /\ pending = <<>>
    BY DEF P!Init
  <2>3. queues \in [P!Tenants -> Seq(P!Requests)] /\ pending \in Seq(Signers)
    <3>1. <<>> \in Seq(P!Requests) /\ <<>> \in Seq(Signers)
      OBVIOUS
    <3> QED
      BY <2>2, <3>1
  <2>4. at \in [Signers -> P!Places] /\ batch \in [Signers -> SUBSET P!Requests]
    BY <2>2 DEF P!Places
  <2> QED
    BY <2>1, <2>2, <2>3, <2>4 DEF PipelineTyped
<1>2. /\ \A k \in P!Tenants : queues[k] = <<>>
      /\ \A w \in Signers : batch[w] = {} /\ at[w] = "unstarted"
  BY DEF P!Init
<1>3. Held = {} /\ Wait = {}
  <2>1. \A k \in P!Tenants : P!ToSet(queues[k]) = {}
    BY <1>2, PipelineOperators
  <2> QED
    BY <1>2, <2>1 DEF Held, Wait
<1>4. QueuesApart /\ BatchesApart
  BY <1>2 DEF QueuesApart, BatchesApart
<1>5. OnePlace
  BY <1>3 DEF OnePlace, P!Init
<1>6. QueueCounted
  BY <1>3, FS_EmptySet, ThreadsAssumption DEF QueueCounted, P!Init
<1>7. BatchesHeld
  <2>1. Cardinality({}) = 0 /\ 0 <= BatchSize
    BY FS_EmptySet, ThreadsAssumption
  <2> QED
    BY <1>2, <2>1 DEF BatchesHeld, P!Signing
<1>8. MainEnds
  BY <1>2 DEF MainEnds, P!Init
<1>9. OwnerKeeps
  <2>1. P!Promised = {} /\ pending = <<>> /\ owner # "executing"
    BY <1>2 DEF P!Promised, P!Init
  <2>2. P!ToSet(pending) = {} /\ Len(pending) = 0
    BY <2>1, PipelineOperators
  <2> QED
    BY <2>1, <2>2, FS_EmptySet DEF OwnerKeeps
<1> QED
  BY <1>1, <1>4, <1>5, <1>6, <1>7, <1>8, <1>9 DEF PipelineInv, Requested

-------------------------------------------------------------------------------
\* The steps that leave every request where it is.
LEMMA PipelineStart ==
  ASSUME PipelineInv, P!Start
  PROVE  PipelineInv'
<1>1. /\ main = "starting" /\ main' = "offering" /\ at' = [w \in Signers |-> "looking"]
      /\ UNCHANGED <<option, queues, queued, next, done, batch, rejected, verified, expired, failed>>
      /\ UNCHANGED <<pending, owner>>
  BY DEF P!Start, P!gpu, P!ends
<1>2. \A w \in Signers : at[w] = "unstarted" /\ at'[w] = "looking"
  BY <1>1 DEF PipelineInv, MainEnds
<1>3. Requested'
  BY <1>1, RequestsKept
<1>4. PipelineTyped'
  BY <1>1 DEF PipelineInv, PipelineTyped, P!Places, P!Tenants
<1>5. BatchesHeld' /\ MainEnds'
  BY <1>1, <1>2 DEF PipelineInv, BatchesHeld, MainEnds, P!Signing
<1>6. OwnerKeeps'
  BY <1>1, <1>2, OwnerLeft
<1> QED
  BY <1>3, <1>4, <1>5, <1>6 DEF PipelineInv

\* main has offered everything, and says so.
LEMMA PipelineFinish ==
  ASSUME PipelineInv, P!Finish
  PROVE  PipelineInv'
<1>1. /\ main = "offering" /\ next = Offered /\ main' = "joining" /\ done' = TRUE
      /\ at' = P!Notified(at)
      /\ UNCHANGED <<option, queues, queued, next, batch, rejected, verified, expired, failed>>
      /\ UNCHANGED <<pending, owner>>
  BY DEF P!Finish, P!Dismissed, P!gpu, P!ends
<1>2. /\ at' \in [Signers -> P!Places]
      /\ \A w \in Signers : /\ at'[w] = at[w] \/ at[w] \in {"asleep", "dozing"}
                            /\ at[w] \in {"asleep", "dozing"} => at'[w] = "looking"
  BY <1>1, NotifiedKeeps DEF PipelineInv, PipelineTyped
<1>3. Requested'
  BY <1>1, RequestsKept
<1>4. PipelineTyped'
  BY <1>1, <1>2 DEF PipelineInv, PipelineTyped, P!Tenants
<1>5. BatchesHeld' /\ MainEnds'
  BY <1>1, <1>2 DEF PipelineInv, BatchesHeld, MainEnds, P!Signing
<1>6. OwnerKeeps'
  BY <1>1, <1>2, OwnerLeft
<1> QED
  BY <1>3, <1>4, <1>5, <1>6 DEF PipelineInv

\* main goes on when every worker has returned.
LEMMA PipelineJoin ==
  ASSUME PipelineInv, P!Join
  PROVE  PipelineInv'
<1>1. UNCHANGED <<option, queues, queued, next, batch, rejected, verified, expired, failed,
                  done, at, pending>>
  BY DEF P!Join, P!ends
<1>2. /\ main \in {"joining", "leaving"} /\ main' \in {"leaving", "over"}
      /\ \A w \in Signers : at[w] = "returned"
  BY DEF P!Join, PipelineInv, MainEnds
<1>3. /\ owner' \in {"none", "asleep", "looking", "executing", "returned"}
      /\ owner' = "executing" <=> owner = "executing"
  BY DEF P!Join, PipelineInv, PipelineTyped
<1>4. Requested'
  BY <1>1, RequestsKept
<1>5. PipelineTyped'
  BY <1>1, <1>2, <1>3 DEF PipelineInv, PipelineTyped, P!Tenants
<1>6. BatchesHeld' /\ MainEnds'
  BY <1>1, <1>2 DEF PipelineInv, BatchesHeld, MainEnds
<1>7. OwnerKeeps'
  <2>1. P!Promised' = P!Promised /\ P!ToSet(pending)' = P!ToSet(pending)
    BY <1>1 DEF P!Promised, P!ToSet
  <2> QED
    BY <1>1, <1>3, <2>1 DEF PipelineInv, OwnerKeeps
<1> QED
  BY <1>4, <1>5, <1>6, <1>7 DEF PipelineInv

\* Time passes, a wait ends, a batch is signed.
LEMMA PipelineQuiet ==
  ASSUME PipelineInv, P!Age \/ \E w \in Signers : P!Wake(w) \/ P!Sign(w)
  PROVE  PipelineInv'
<1>1. UNCHANGED <<option, queues, queued, next, done, main, batch, pending, owner,
                  rejected, verified, expired, failed>>
  BY DEF P!Age, P!Wake, P!Sign, P!arrivals, P!gpu, P!ends
<1>2. /\ at' \in [Signers -> P!Places]
      /\ \A v \in Signers : \/ at'[v] = at[v]
                            \/ at[v] \in {"dozing", "asleep"} /\ at'[v] = "looking"
                            \/ at[v] \in {"cpu", "gpu"} /\ at'[v] \in {"good", "bad"}
  <2>1. at \in [Signers -> P!Places]
    BY DEF PipelineInv, PipelineTyped
  <2>2. CASE P!Age
    BY <2>1, <2>2 DEF P!Age
  <2>3. ASSUME NEW w \in Signers, P!Wake(w)
        PROVE  /\ at' \in [Signers -> P!Places]
               /\ \A v \in Signers : \/ at'[v] = at[v]
                                     \/ at[v] \in {"dozing", "asleep"} /\ at'[v] = "looking"
                                     \/ at[v] \in {"cpu", "gpu"} /\ at'[v] \in {"good", "bad"}
    BY <2>1, <2>3 DEF P!Wake, P!Places
  <2>4. ASSUME NEW w \in Signers, P!Sign(w)
        PROVE  /\ at' \in [Signers -> P!Places]
               /\ \A v \in Signers : \/ at'[v] = at[v]
                                     \/ at[v] \in {"dozing", "asleep"} /\ at'[v] = "looking"
                                     \/ at[v] \in {"cpu", "gpu"} /\ at'[v] \in {"good", "bad"}
    BY <2>1, <2>4 DEF P!Sign, P!Places, P!Signing
  <2> QED
    BY <2>2, <2>3, <2>4
<1>3. Requested'
  BY <1>1, RequestsKept
<1>4. PipelineTyped'
  BY <1>1, <1>2 DEF PipelineInv, PipelineTyped, P!Tenants
<1>5. BatchesHeld' /\ MainEnds'
  BY <1>1, <1>2 DEF PipelineInv, BatchesHeld, MainEnds, P!Signing
<1>6. OwnerKeeps'
  BY <1>1, <1>2, OwnerLeft
<1> QED
  BY <1>3, <1>4, <1>5, <1>6 DEF PipelineInv

\* A batch goes to the owner, if there is room.
LEMMA PipelineSubmit ==
  ASSUME PipelineInv, NEW w \in Signers, P!Submit(w)
  PROVE  PipelineInv'
<1>1. /\ at[w] = "gpu"
      /\ UNCHANGED <<option, queues, queued, next, batch, rejected, verified, expired, failed>>
      /\ UNCHANGED <<done, main>>
  BY DEF P!Submit, P!arrivals, P!ends
<1>2. at \in [Signers -> P!Places] /\ pending \in Seq(Signers)
  BY DEF PipelineInv, PipelineTyped
<1>3. /\ owner' \in {"none", "asleep", "looking", "executing", "returned"}
      /\ owner' = "executing" <=> owner = "executing"
  BY DEF P!Submit, PipelineInv, PipelineTyped
<1>4. \/ pending' = Append(pending, w) /\ at' = [at EXCEPT ![w] = "promised"]
      \/ pending' = pending /\ at' = [at EXCEPT ![w] = "bad"]
  BY DEF P!Submit
<1>5. /\ at' \in [Signers -> P!Places] /\ at'[w] \in {"promised", "bad"}
      /\ \A v \in Signers : v # w => at'[v] = at[v]
  BY <1>2, <1>4 DEF P!Places, P!Signing
<1>6. pending' \in Seq(Signers)
  BY <1>2, <1>4
<1>7. Requested'
  BY <1>1, RequestsKept
<1>8. PipelineTyped'
  BY <1>1, <1>3, <1>5, <1>6 DEF PipelineInv, PipelineTyped, P!Tenants
<1>9. BatchesHeld' /\ MainEnds'
  BY <1>1, <1>5 DEF PipelineInv, BatchesHeld, MainEnds, P!Signing
<1>10. OwnerKeeps'
  <2>1. CASE pending' = Append(pending, w) /\ at' = [at EXCEPT ![w] = "promised"]
    <3>1. P!Promised' = P!Promised \cup {w} /\ w \notin P!Promised
      BY <1>1, <1>2, <2>1 DEF P!Promised
    <3>2. Cardinality(P!Promised') = Cardinality(P!Promised) + 1
      BY <3>1, PromisedFinite, FS_AddElement
    <3>3. /\ Len(pending') = Len(pending) + 1 /\ Len(pending) \in Nat
          /\ pending'[Len(pending) + 1] = w
          /\ \A i \in 1 .. Len(pending) : pending'[i] = pending[i]
      BY <1>2, <2>1, AppendProperties
    <3>4. P!ToSet(pending') = P!ToSet(pending) \cup {w}
      <4>1. P!ToSet(pending') = {pending'[i] : i \in 1 .. Len(pending')}
        BY <1>6, ToSetIs
      <4>2. P!ToSet(pending) = {pending[i] : i \in 1 .. Len(pending)}
        BY <1>2, ToSetIs
      <4> QED
        BY <3>3, <4>1, <4>2
    <3>5. P!ToSet(pending)' = P!ToSet(pending')
      BY DEF P!ToSet
    <3> QED
      BY <1>3, <3>1, <3>2, <3>3, <3>4, <3>5 DEF PipelineInv, OwnerKeeps
  <2>2. CASE pending' = pending /\ at' = [at EXCEPT ![w] = "bad"]
    <3>1. P!Promised' = P!Promised
      BY <1>1, <1>5, <1>2, <2>2 DEF P!Promised
    <3>2. P!ToSet(pending)' = P!ToSet(pending)
      BY <2>2 DEF P!ToSet
    <3> QED
      BY <1>3, <2>2, <3>1, <3>2 DEF PipelineInv, OwnerKeeps
  <2> QED
    BY <1>4, <2>1, <2>2
<1> QED
  BY <1>7, <1>8, <1>9, <1>10 DEF PipelineInv

\* The owner takes the first task, or ends, or sleeps.
LEMMA PipelineOwnerLooks ==
  ASSUME PipelineInv, P!OwnerLooks
  PROVE  PipelineInv'
<1>1. /\ owner = "looking"
      /\ UNCHANGED <<option, queues, queued, next, batch, rejected, verified, expired, failed>>
      /\ UNCHANGED <<done, main, at>>
  BY DEF P!OwnerLooks, P!arrivals, P!ends
<1>2. pending \in Seq(Signers)
  BY DEF PipelineInv, PipelineTyped
<1>3. \/ pending # <<>> /\ owner' = "executing" /\ pending' = Tail(pending)
      \/ owner' \in {"returned", "asleep"} /\ pending' = pending
  BY DEF P!OwnerLooks
<1>4. /\ pending' \in Seq(Signers) /\ P!ToSet(pending)' \subseteq P!ToSet(pending)
      /\ Len(pending') + (IF owner' = "executing" THEN 1 ELSE 0) = Len(pending)
  <2>1. CASE pending # <<>> /\ owner' = "executing" /\ pending' = Tail(pending)
    <3>1. /\ pending' \in Seq(Signers) /\ Len(pending') = Len(pending) - 1
          /\ \A i \in 1 .. Len(pending') : pending'[i] = pending[i + 1]
      BY <1>2, <2>1, HeadTailProperties
    <3>2. /\ P!ToSet(pending') = {pending'[i] : i \in 1 .. Len(pending')}
          /\ P!ToSet(pending) = {pending[i] : i \in 1 .. Len(pending)}
          /\ P!ToSet(pending)' = P!ToSet(pending')
      BY <1>2, <3>1, ToSetIs DEF P!ToSet
    <3>3. Len(pending) \in Nat /\ \A i \in 1 .. Len(pending') : i + 1 \in 1 .. Len(pending)
      BY <1>2, <3>1
    <3>4. P!ToSet(pending') \subseteq P!ToSet(pending)
      BY <3>1, <3>2, <3>3
    <3> QED
      BY <2>1, <3>1, <3>2, <3>3, <3>4
  <2>2. CASE owner' \in {"returned", "asleep"} /\ pending' = pending
    BY <1>2, <2>2 DEF P!ToSet
  <2> QED
    BY <1>3, <2>1, <2>2
<1>5. OwnerKeeps'
  <2>1. P!Promised' = P!Promised
    BY <1>1 DEF P!Promised
  <2> QED
    BY <1>1, <1>4, <2>1 DEF PipelineInv, OwnerKeeps
<1>6. Requested'
  BY <1>1, RequestsKept
<1>7. PipelineTyped'
  BY <1>1, <1>3, <1>4 DEF PipelineInv, PipelineTyped, P!Tenants
<1>8. BatchesHeld' /\ MainEnds'
  BY <1>1 DEF PipelineInv, BatchesHeld, MainEnds
<1> QED
  BY <1>5, <1>6, <1>7, <1>8 DEF PipelineInv

\* The owner answers the worker it works for.
LEMMA PipelineExecute ==
  ASSUME PipelineInv, P!Execute
  PROVE  PipelineInv'
<1>1. /\ owner = "executing" /\ owner' = "looking"
      /\ UNCHANGED <<option, queues, queued, next, batch, rejected, verified, expired, failed>>
      /\ UNCHANGED <<done, main, pending>>
  BY DEF P!Execute, P!AfterTask, P!arrivals, P!ends
<1>2. PICK w \in P!Promised \ P!ToSet(pending), result \in {"good", "bad"} :
        at' = [at EXCEPT ![w] = result]
  BY DEF P!Execute
<1>3. w \in Signers /\ at[w] = "promised" /\ at \in [Signers -> P!Places]
  BY <1>2 DEF P!Promised, PipelineInv, PipelineTyped
<1>4. /\ at' \in [Signers -> P!Places] /\ at'[w] \in {"good", "bad"}
      /\ \A v \in Signers : v # w => at'[v] = at[v]
  BY <1>2, <1>3 DEF P!Places, P!Signing
<1>5. Requested'
  BY <1>1, RequestsKept
<1>6. PipelineTyped'
  BY <1>1, <1>4 DEF PipelineInv, PipelineTyped, P!Tenants
<1>7. BatchesHeld' /\ MainEnds'
  BY <1>1, <1>3, <1>4 DEF PipelineInv, BatchesHeld, MainEnds, P!Signing
<1>8. OwnerKeeps'
  <2>1. P!Promised' = P!Promised \ {w}
    BY <1>3, <1>4 DEF P!Promised
  <2>2. Cardinality(P!Promised \ {w}) = Cardinality(P!Promised) - 1
    BY <1>2, PromisedFinite, FS_RemoveElement
  <2>3. P!ToSet(pending)' = P!ToSet(pending)
    BY <1>1 DEF P!ToSet
  <2>4. Len(pending) \in Nat
    BY DEF PipelineInv, PipelineTyped
  <2> QED
    BY <1>1, <1>2, <2>1, <2>2, <2>3, <2>4 DEF PipelineInv, OwnerKeeps
<1> QED
  BY <1>5, <1>6, <1>7, <1>8 DEF PipelineInv

-------------------------------------------------------------------------------
\* The steps that move requests.

\* One queue is exchanged for another.
LEMMA QueueMoves ==
  ASSUME PipelineTyped, UNCHANGED option, NEW k \in P!Tenants, NEW q \in Seq(P!Requests),
         queues' = [queues EXCEPT ![k] = q]
  PROVE  /\ P!Tenants' = P!Tenants
         /\ queues' \in [P!Tenants -> Seq(P!Requests)] /\ queues'[k] = q
         /\ \A l \in P!Tenants : l # k => queues'[l] = queues[l]
         /\ \A r : r \in Wait' <=> r \in P!ToSet(q) \/ \E l \in P!Tenants \ {k} : r \in P!ToSet(queues[l])
         /\ \A r : r \in Wait <=> \E l \in P!Tenants : r \in P!ToSet(queues[l])
<1>1. P!Tenants' = P!Tenants
  BY DEF P!Tenants
<1>2. queues \in [P!Tenants -> Seq(P!Requests)]
  BY DEF PipelineTyped
<1>3. /\ queues' \in [P!Tenants -> Seq(P!Requests)] /\ queues'[k] = q
      /\ \A l \in P!Tenants : l # k => queues'[l] = queues[l]
  BY <1>2
<1>4. \A l \in P!Tenants : P!ToSet(queues[l]) \subseteq P!Requests
  BY <1>2, ToSetIs
<1>5. P!ToSet(q) \subseteq P!Requests
  BY ToSetIs
<1>6. \A r : r \in Wait <=> \E l \in P!Tenants : r \in P!ToSet(queues[l])
  BY <1>4 DEF Wait
<1>7. Wait' = {r \in P!Requests : \E l \in P!Tenants : r \in P!ToSet(queues'[l])}
  BY <1>1 DEF Wait, P!ToSet, P!Requests
<1>8. \A r : r \in Wait' <=> r \in P!ToSet(q) \/ \E l \in P!Tenants \ {k} : r \in P!ToSet(queues[l])
  BY <1>3, <1>4, <1>5, <1>7
<1> QED
  BY <1>1, <1>3, <1>6, <1>8

\* Whoever waits was offered before.
LEMMA QueuedBefore ==
  ASSUME PipelineInv, NEW k \in P!Tenants, NEW i \in 1 .. Len(queues[k])
  PROVE  queues[k][i] \in Wait /\ queues[k][i] \in 0 .. next - 1
<1>1. queues[k] \in Seq(P!Requests)
  BY DEF PipelineInv, PipelineTyped
<1>2. queues[k][i] \in P!ToSet(queues[k]) /\ queues[k][i] \in P!Requests
  BY <1>1, ToSetIs
<1>3. queues[k][i] \in Wait
  BY <1>2 DEF Wait
<1> QED
  BY <1>3 DEF PipelineInv, Requested, OnePlace

\* main rejects a request, or appends it to the queue of its key.
LEMMA PipelineOffer ==
  ASSUME PipelineInv, P!Offer
  PROVE  PipelineInv'
<1>1. /\ main = "offering" /\ next < Offered /\ next' = next + 1 /\ at' = P!Notified(at)
      /\ UNCHANGED <<option, batch, verified, expired, failed, done, main, pending, owner>>
  BY DEF P!Offer, P!gpu
<1>2. /\ at' \in [Signers -> P!Places]
      /\ \A w \in Signers : /\ at'[w] = at[w] \/ at[w] \in {"asleep", "dozing"}
                            /\ at[w] \in {"asleep", "dozing"} => at'[w] = "looking"
  BY <1>1, NotifiedKeeps DEF PipelineInv, PipelineTyped
<1>3. /\ next \in Nat /\ next' \in 0 .. Offered /\ next \in P!Requests
      /\ 0 .. next' - 1 = (0 .. next - 1) \cup {next} /\ next \notin 0 .. next - 1
      /\ done = FALSE
  <2>1. next \in 0 .. Offered /\ Offered \in Nat
    BY ThreadsAssumption DEF PipelineInv, PipelineTyped
  <2>2. done = FALSE
    BY <1>1 DEF PipelineInv, PipelineTyped, MainEnds
  <2> QED
    BY <1>1, <2>1, <2>2 DEF P!Requests
<1>4. Held' = Held
  BY <1>1 DEF Held, P!Requests
<1>5. BatchesHeld'
  BY <1>1, <1>2 DEF PipelineInv, BatchesHeld, P!Signing
<1>6. OwnerKeeps'
  BY <1>1, <1>2, OwnerLeft
<1>7. BatchesApart'
  BY <1>1 DEF PipelineInv, Requested, BatchesApart
<1>8. CASE P!Full /\ rejected' = rejected \cup {next} /\ UNCHANGED <<queues, queued>>
  <2>1. Wait' = Wait
    BY <1>1, <1>8 DEF Wait, P!Tenants, P!Requests
  <2>2. OnePlace'
    BY <1>1, <1>3, <1>4, <1>8, <2>1 DEF PipelineInv, Requested, OnePlace
  <2>3. QueuesApart' /\ QueueCounted'
    BY <1>1, <1>8, <2>1 DEF PipelineInv, Requested, QueuesApart, QueueCounted, P!Tenants
  <2>4. PipelineTyped'
    BY <1>1, <1>2, <1>3, <1>8 DEF PipelineInv, PipelineTyped, P!Tenants
  <2>5. MainEnds'
    BY <1>1, <1>2, <1>3, <1>8 DEF PipelineInv, MainEnds
  <2> QED
    BY <1>5, <1>6, <1>7, <2>2, <2>3, <2>4, <2>5 DEF PipelineInv, Requested
<1>9. CASE /\ ~P!Full /\ queues' = [queues EXCEPT ![next % option.keys] = Append(@, next)]
           /\ queued' = queued + 1 /\ UNCHANGED rejected
  <2>1. PICK k, q : k = next % option.keys /\ q = Append(queues[k], next)
    OBVIOUS
  <2>2. k \in P!Tenants
    BY <1>3, <2>1 DEF PipelineInv, PipelineTyped, P!Tenants
  <2>3. queues[k] \in Seq(P!Requests) /\ Len(queues[k]) \in Nat /\ queued \in Nat
    BY <2>2 DEF PipelineInv, PipelineTyped
  <2>4. /\ q \in Seq(P!Requests) /\ Len(q) = Len(queues[k]) + 1 /\ q[Len(queues[k]) + 1] = next
        /\ \A i \in 1 .. Len(queues[k]) : q[i] = queues[k][i]
    BY <1>3, <2>1, <2>3, AppendProperties
  <2>5. queues' = [queues EXCEPT ![k] = q]
    BY <1>9, <2>1
  <2>6. /\ P!Tenants' = P!Tenants
        /\ queues' \in [P!Tenants -> Seq(P!Requests)] /\ queues'[k] = q
        /\ \A l \in P!Tenants : l # k => queues'[l] = queues[l]
        /\ \A r : r \in Wait' <=> r \in P!ToSet(q) \/ \E l \in P!Tenants \ {k} : r \in P!ToSet(queues[l])
        /\ \A r : r \in Wait <=> \E l \in P!Tenants : r \in P!ToSet(queues[l])
    BY <1>1, <2>2, <2>4, <2>5, QueueMoves DEF PipelineInv
  <2>7. P!ToSet(q) = P!ToSet(queues[k]) \cup {next}
    <3>1. /\ P!ToSet(q) = {q[i] : i \in 1 .. Len(q)}
          /\ P!ToSet(queues[k]) = {queues[k][i] : i \in 1 .. Len(queues[k])}
      BY <2>3, <2>4, ToSetIs
    <3> QED
      BY <2>3, <2>4, <3>1
  <2>8. Wait' = Wait \cup {next} /\ next \notin Wait
    <3>1. \A r : r \in Wait' <=> r \in Wait \/ r = next
      BY <2>2, <2>6, <2>7
    <3> QED
      BY <1>3, <3>1 DEF PipelineInv, Requested, OnePlace
  <2>9. OnePlace'
    BY <1>1, <1>3, <1>4, <1>9, <2>8 DEF PipelineInv, Requested, OnePlace
  <2>10. QueueCounted'
    <3>1. IsFiniteSet(Wait) /\ Cardinality(Wait) \in Nat
      BY RequestsFinite DEF Wait
    <3>2. Cardinality(Wait') = Cardinality(Wait) + 1
      BY <2>8, <3>1, FS_AddElement
    <3>3. queued < Capacity
      BY <1>9, <2>3, ThreadsAssumption DEF P!Full
    <3> QED
      BY <1>9, <2>3, <3>2, <3>3, ThreadsAssumption DEF PipelineInv, Requested, QueueCounted
  <2>11. QueuesApart'
    <3>1. ASSUME NEW l \in P!Tenants, NEW i \in 1 .. Len(queues'[l])
          PROVE  \/ i \in 1 .. Len(queues[l]) /\ queues'[l][i] = queues[l][i] /\ queues'[l][i] # next
                 \/ l = k /\ i = Len(queues[k]) + 1 /\ queues'[l][i] = next
      <4>1. CASE l # k
        BY <1>3, <2>6, <4>1, QueuedBefore
      <4>2. CASE l = k /\ i \in 1 .. Len(queues[k])
        BY <1>3, <2>2, <2>4, <2>6, <4>2, QueuedBefore
      <4>3. CASE l = k /\ i \notin 1 .. Len(queues[k])
        BY <2>3, <2>4, <2>6, <4>3
      <4> QED
        BY <4>1, <4>2, <4>3
    <3> QED
      BY <2>6, <3>1 DEF PipelineInv, Requested, QueuesApart
  <2>12. PipelineTyped'
    BY <1>1, <1>2, <1>3, <1>9, <2>6 DEF PipelineInv, PipelineTyped
  <2>13. MainEnds'
    BY <1>1, <1>2, <1>3 DEF PipelineInv, MainEnds
  <2> QED
    BY <1>5, <1>6, <1>7, <2>9, <2>10, <2>11, <2>12, <2>13 DEF PipelineInv, Requested
<1> QED
  BY <1>8, <1>9 DEF P!Offer

\* A batch moves on: to the requests that ended, some of it or all.
LEMMA BatchEnds ==
  ASSUME PipelineInv, NEW w \in Signers, NEW b \in SUBSET batch[w],
         batch' = [batch EXCEPT ![w] = b], UNCHANGED <<option, queues, queued, next, rejected>>,
         NEW v1, NEW e1, NEW f1, v1 \cup e1 \cup f1 = batch[w] \ b,
         v1 \cap e1 = {}, v1 \cap f1 = {}, e1 \cap f1 = {},
         verified' = verified \cup v1, expired' = expired \cup e1, failed' = failed \cup f1
  PROVE  /\ Requested' /\ batch' \in [Signers -> SUBSET P!Requests]
         /\ batch'[w] = b /\ \A v \in Signers : v # w => batch'[v] = batch[v]
<1>1. b \in SUBSET P!Requests /\ b \cap (Held \ batch[w]) = {}
  BY DEF PipelineInv, PipelineTyped
<1>2. /\ Held' = (Held \ batch[w]) \cup b /\ batch[w] \subseteq Held
      /\ batch' \in [Signers -> SUBSET P!Requests] /\ BatchesApart'
      /\ batch'[w] = b /\ \A v \in Signers : v # w => batch'[v] = batch[v]
  BY <1>1, BatchMoves DEF PipelineInv, Requested
<1>3. Wait' = Wait
  BY DEF Wait, P!Tenants, P!Requests
<1>4. QueuesApart' /\ QueueCounted'
  BY <1>3 DEF PipelineInv, Requested, QueuesApart, QueueCounted, P!Tenants
<1>5. OnePlace'
  BY <1>2, <1>3 DEF PipelineInv, Requested, OnePlace
<1> QED
  BY <1>2, <1>4, <1>5 DEF Requested

\* The requests past their deadline expire, those left are signed or fail.
LEMMA PipelineSort ==
  ASSUME PipelineInv, NEW w \in Signers, P!Sort(w)
  PROVE  PipelineInv'
<1>1. PICK kept : kept = P!Current(w)
  OBVIOUS
<1>2. /\ kept \subseteq batch[w] /\ batch[w] \subseteq P!Requests /\ at[w] = "taken"
      /\ at \in [Signers -> P!Places]
  BY <1>1 DEF P!Current, P!Sort, PipelineInv, PipelineTyped
<1>3. PICK b, f1 : /\ batch' = [batch EXCEPT ![w] = b] /\ b \in {kept, {}}
                   /\ f1 = kept \ b /\ failed' = failed \cup f1
                   /\ expired' = expired \cup (batch[w] \ kept)
                   /\ IF b = {} THEN at' = [at EXCEPT ![w] = "looking"]
                      ELSE \/ at' = [at EXCEPT ![w] = "gpu"] \/ at' = [at EXCEPT ![w] = "cpu"]
  <2>1. CASE kept # {} /\ ~fault
    BY <1>1, <2>1 DEF P!Sort, P!Kept
  <2>2. CASE ~(kept # {} /\ ~fault)
    BY <1>1, <2>2 DEF P!Sort, P!Kept
  <2> QED
    BY <2>1, <2>2
<1>4. UNCHANGED <<option, queues, queued, next, done, main, pending, owner, rejected, verified>>
  BY DEF P!Sort, P!arrivals, P!gpu
<1>5. /\ Requested' /\ batch' \in [Signers -> SUBSET P!Requests]
      /\ batch'[w] = b /\ \A v \in Signers : v # w => batch'[v] = batch[v]
  <2>1. PICK v1, e1 : v1 = {} /\ e1 = batch[w] \ kept
    OBVIOUS
  <2>2. /\ v1 \cup e1 \cup f1 = batch[w] \ b /\ v1 \cap e1 = {} /\ v1 \cap f1 = {} /\ e1 \cap f1 = {}
        /\ b \in SUBSET batch[w]
    BY <1>2, <1>3, <2>1
  <2>3. /\ verified' = verified \cup v1 /\ expired' = expired \cup e1 /\ failed' = failed \cup f1
        /\ batch' = [batch EXCEPT ![w] = b] /\ UNCHANGED <<option, queues, queued, next, rejected>>
    BY <1>3, <1>4, <2>1
  <2> QED
    BY <2>2, <2>3, BatchEnds
<1>6. /\ at' \in [Signers -> P!Places] /\ at'[w] \in {"looking", "gpu", "cpu"}
      /\ at'[w] = "looking" <=> b = {}
      /\ \A v \in Signers : v # w => at'[v] = at[v]
  BY <1>2, <1>3 DEF P!Places, P!Signing
<1>7. Cardinality(b) <= BatchSize
  <2>1. IsFiniteSet(batch[w]) /\ Cardinality(batch[w]) \in Nat /\ Cardinality(batch[w]) <= BatchSize
    BY <1>2, RequestsFinite DEF PipelineInv, BatchesHeld
  <2>2. b \in SUBSET batch[w]
    BY <1>2, <1>3
  <2>3. Cardinality(b) <= Cardinality(batch[w]) /\ Cardinality(b) \in Nat
    BY <2>1, <2>2, FS_Subset, FS_CardinalityType
  <2> QED
    BY <2>1, <2>3, ThreadsAssumption
<1>8. PipelineTyped'
  BY <1>4, <1>5, <1>6 DEF PipelineInv, PipelineTyped, P!Tenants
<1>9. BatchesHeld'
  BY <1>5, <1>6, <1>7 DEF PipelineInv, BatchesHeld, P!Signing
<1>10. MainEnds'
  BY <1>2, <1>4, <1>6 DEF PipelineInv, MainEnds
<1>11. OwnerKeeps'
  <2>1. \A v \in Signers : at'[v] = "promised" <=> at[v] = "promised"
    BY <1>2, <1>6
  <2> QED
    BY <1>4, <2>1, OwnerLeft
<1> QED
  BY <1>5, <1>8, <1>9, <1>10, <1>11 DEF PipelineInv

\* A batch is done with: verified, or failed.
LEMMA PipelineEndsBatch ==
  ASSUME PipelineInv, NEW w \in Signers, P!Complete(w) \/ P!Fail(w)
  PROVE  PipelineInv'
<1>1. /\ at[w] \in {"good", "bad"} /\ at \in [Signers -> P!Places]
      /\ batch' = [batch EXCEPT ![w] = {}]
      /\ UNCHANGED <<option, queues, queued, next, done, main, pending, owner, rejected, expired>>
  BY DEF P!Complete, P!Fail, P!arrivals, P!gpu, PipelineInv, PipelineTyped
<1>2. /\ at' \in [Signers -> P!Places] /\ at'[w] = "looking"
      /\ \A v \in Signers : v # w =>
           at'[v] = at[v] \/ (at[v] \in {"asleep", "dozing"} /\ at'[v] = "looking")
  <2>1. PICK places : places = [at EXCEPT ![w] = "looking"]
    OBVIOUS
  <2>2. /\ places \in [Signers -> P!Places] /\ places[w] = "looking"
        /\ \A v \in Signers : v # w => places[v] = at[v]
    BY <1>1, <2>1 DEF P!Places
  <2>3. at' = places \/ at' = P!Notified(places)
    BY <2>1 DEF P!Complete, P!Fail
  <2> QED
    BY <2>2, <2>3, NotifiedKeeps
<1>3. /\ Requested' /\ batch' \in [Signers -> SUBSET P!Requests]
      /\ batch'[w] = {} /\ \A v \in Signers : v # w => batch'[v] = batch[v]
  <2>1. PICK none : none = {}
    OBVIOUS
  <2>2. PICK b : b = batch[w]
    OBVIOUS
  <2>3. /\ none \in SUBSET batch[w] /\ batch' = [batch EXCEPT ![w] = none]
        /\ UNCHANGED <<option, queues, queued, next, rejected>>
        /\ b \cup none \cup none = batch[w] \ none /\ none \cup none \cup b = batch[w] \ none
        /\ b \cap none = {} /\ none \cap b = {} /\ none \cap none = {}
        /\ expired' = expired \cup none
    BY <1>1, <2>1, <2>2
  <2>4. CASE P!Complete(w)
    <3>1. verified' = verified \cup b /\ failed' = failed \cup none
      BY <2>1, <2>2, <2>4 DEF P!Complete, P!Recorded
    <3>2. /\ Requested' /\ batch' \in [Signers -> SUBSET P!Requests]
          /\ batch'[w] = none /\ \A v \in Signers : v # w => batch'[v] = batch[v]
      BY <2>3, <3>1, BatchEnds
    <3> QED
      BY <2>1, <3>2
  <2>5. CASE P!Fail(w)
    <3>1. verified' = verified \cup none /\ failed' = failed \cup b
      BY <2>1, <2>2, <2>5 DEF P!Fail, P!Recorded
    <3>2. /\ Requested' /\ batch' \in [Signers -> SUBSET P!Requests]
          /\ batch'[w] = none /\ \A v \in Signers : v # w => batch'[v] = batch[v]
      BY <2>3, <3>1, BatchEnds
    <3> QED
      BY <2>1, <3>2
  <2> QED
    BY <2>4, <2>5
<1>4. PipelineTyped'
  BY <1>1, <1>2, <1>3 DEF PipelineInv, PipelineTyped, P!Tenants
<1>5. BatchesHeld'
  <2>1. Cardinality({}) = 0 /\ 0 <= BatchSize
    BY FS_EmptySet, ThreadsAssumption
  <2> QED
    BY <1>1, <1>2, <1>3, <2>1 DEF PipelineInv, BatchesHeld, P!Signing
<1>6. MainEnds'
  BY <1>1, <1>2 DEF PipelineInv, MainEnds
<1>7. OwnerKeeps'
  <2>1. \A v \in Signers : at'[v] = "promised" <=> at[v] = "promised"
    BY <1>1, <1>2
  <2> QED
    BY <1>1, <2>1, OwnerLeft
<1> QED
  BY <1>3, <1>4, <1>5, <1>6, <1>7 DEF PipelineInv

\* Where something waits there is an oldest request.
LEMMA OldestWaits ==
  ASSUME PipelineInv, queued > 0
  PROVE  P!Oldest \in P!Tenants /\ queues[P!Oldest] # <<>>
<1>1. queues \in [P!Tenants -> Seq(P!Requests)]
  BY DEF PipelineInv, PipelineTyped
<1>2. P!Fronts # {}
  <2>1. Wait # {}
    BY FS_EmptySet DEF PipelineInv, Requested, QueueCounted
  <2>2. PICK k \in P!Tenants, r \in P!Requests : r \in P!ToSet(queues[k])
    BY <2>1 DEF Wait
  <2>3. queues[k] # <<>>
    <3>1. P!ToSet(queues[k]) = {queues[k][i] : i \in 1 .. Len(queues[k])}
      BY <1>1, ToSetIs
    <3> QED
      BY <2>2, <3>1
  <2> QED
    BY <2>3 DEF P!Fronts
<1>3. \A k \in P!Fronts : Head(queues[k]) \in Nat
  <2>1. ASSUME NEW k \in P!Fronts
        PROVE  Head(queues[k]) \in Nat
    <3>1. queues[k] \in Seq(P!Requests) /\ queues[k] # <<>>
      BY <1>1 DEF P!Fronts
    <3>2. Head(queues[k]) \in P!Requests
      BY <3>1, HeadTailProperties
    <3> QED
      BY <3>2, ThreadsAssumption DEF P!Requests
  <2> QED
    BY <2>1
<1>4. PICK heads : heads = {Head(queues[k]) : k \in P!Fronts}
  OBVIOUS
<1>5. heads \subseteq Nat /\ heads # {}
  BY <1>2, <1>3, <1>4
<1>6. PICK h \in heads : \A x \in heads : h <= x
  BY <1>5, LeastMember
<1>7. \E k \in P!Fronts : \A other \in P!Fronts : Head(queues[k]) <= Head(queues[other])
  BY <1>4, <1>6
<1>8. P!Oldest \in P!Fronts
  BY <1>7 DEF P!Oldest
<1> QED
  BY <1>8 DEF P!Fronts

FrontTaken(q, n, taken, rest) ==
  /\ rest \in Seq(P!Requests) /\ Len(rest) = Len(q) - n
  /\ \A i \in 1 .. Len(rest) : i + n \in 1 .. Len(q) /\ rest[i] = q[i + n]
  /\ taken \subseteq P!Requests /\ Cardinality(taken) = n
  /\ P!ToSet(rest) = P!ToSet(q) \ taken /\ taken \subseteq P!ToSet(q)

\* What a worker takes from a queue without repetitions, and what it leaves.
LEMMA TakenFromFront ==
  ASSUME NEW q \in Seq(P!Requests), NEW n \in 1 .. Len(q),
         \A i, j \in 1 .. Len(q) : q[i] = q[j] => i = j,
         NEW taken, taken = P!ToSet(SubSeq(q, 1, n)), NEW rest, rest = SubSeq(q, n + 1, Len(q))
  PROVE  FrontTaken(q, n, taken, rest)
<1>1. Len(q) \in Nat /\ n \in Nat /\ \A i \in 1 .. Len(q) : q[i] \in P!Requests
  OBVIOUS
<1>2. PICK front : front = SubSeq(q, 1, n)
  OBVIOUS
<1>3. /\ front \in Seq(P!Requests) /\ Len(front) = n
      /\ \A i \in 1 .. n : front[i] = q[i]
  <2>1. \A i \in 1 .. n : q[i] \in P!Requests
    BY <1>1
  <2> QED
    BY <1>1, <1>2, <2>1, SubSeqProperties
<1>4. /\ rest \in Seq(P!Requests) /\ Len(rest) = Len(q) - n
      /\ \A i \in 1 .. Len(q) - n : rest[i] = q[n + i]
  <2>1. PICK m : m = n + 1
    OBVIOUS
  <2>2. m \in Int /\ Len(q) \in Int /\ \A i \in m .. Len(q) : q[i] \in P!Requests
    BY <1>1, <2>1
  <2>3. rest = SubSeq(q, m, Len(q))
    BY <2>1
  <2>4. /\ rest \in Seq(P!Requests) /\ Len(rest) = IF m <= Len(q) THEN Len(q) - m + 1 ELSE 0
        /\ \A i \in 1 .. Len(q) - m + 1 : rest[i] = q[m + i - 1]
    BY <2>2, <2>3, SubSeqProperties
  <2> QED
    BY <1>1, <2>1, <2>4
<1>5. \A i \in 1 .. Len(rest) : i + n \in 1 .. Len(q) /\ rest[i] = q[i + n]
  BY <1>1, <1>4
<1>6. taken = {q[i] : i \in 1 .. n}
  <2>1. taken = P!ToSet(front)
    BY <1>2
  <2>2. P!ToSet(front) = {front[i] : i \in 1 .. Len(front)}
    BY <1>3, ToSetIs
  <2>3. taken \subseteq {q[i] : i \in 1 .. n}
    BY <1>3, <2>1, <2>2
  <2>4. {q[i] : i \in 1 .. n} \subseteq taken
    BY <1>3, <2>1, <2>2
  <2> QED
    BY <2>3, <2>4
<1>7. Cardinality(taken) = n
  <2>1. IsFiniteSet(1 .. n) /\ Cardinality(1 .. n) = n
    BY <1>1, FS_Interval
  <2>2. PICK f : f = [i \in 1 .. n |-> q[i]]
    OBVIOUS
  <2>3. f \in Bijection(1 .. n, taken)
    <3>1. f \in [1 .. n -> taken] /\ DOMAIN f = 1 .. n
      BY <1>6, <2>2
    <3>2. \A i, j \in 1 .. n : f[i] = f[j] => i = j
      BY <1>1, <2>2
    <3>3. \A t \in taken : \E i \in 1 .. n : f[i] = t
      BY <1>6, <2>2
    <3> QED
      BY <3>1, <3>2, <3>3 DEF Bijection, Injection, Surjection, IsInjective
  <2> QED
    BY <2>1, <2>3, FS_Bijection DEF ExistsBijection
<1>8. P!ToSet(rest) = P!ToSet(q) \ taken /\ taken \subseteq P!ToSet(q)
  <2>1. /\ P!ToSet(q) = {q[i] : i \in 1 .. Len(q)}
        /\ P!ToSet(rest) = {rest[i] : i \in 1 .. Len(rest)}
    <3>1. P!ToSet(q) = {q[i] : i \in 1 .. Len(q)}
      BY ToSetIs
    <3>2. rest \in Seq(P!Requests)
      BY <1>4
    <3>3. P!ToSet(rest) = {rest[i] : i \in 1 .. Len(rest)}
      BY ONLY <3>2, ToSetIs
    <3> QED
      BY <3>1, <3>3
  <2>2. ASSUME NEW i \in 1 .. Len(rest), q[i + n] \in taken
        PROVE  FALSE
    <3>1. PICK j \in 1 .. n : q[i + n] = q[j]
      BY <1>6, <2>2
    <3>2. j \in 1 .. Len(q) /\ i + n \in 1 .. Len(q) /\ i + n # j
      BY <1>1, <1>4
    <3> QED
      BY <3>1, <3>2
  <2>3. \A i \in 1 .. Len(q) : i \in 1 .. n \/ (i - n \in 1 .. Len(rest) /\ rest[i - n] = q[i])
    BY SMTT(30), <1>1, <1>4
  <2>4. ASSUME NEW r \in P!ToSet(rest)
        PROVE  r \in P!ToSet(q) \ taken
    <3>1. PICK i \in 1 .. Len(rest) : r = rest[i]
      BY ONLY <2>1, <2>4
    <3>2. r = q[i + n] /\ i + n \in 1 .. Len(q)
      BY <1>5, <3>1
    <3> QED
      BY <2>1, <2>2, <3>2
  <2>5. ASSUME NEW r \in P!ToSet(q) \ taken
        PROVE  r \in P!ToSet(rest)
    <3>1. PICK i \in 1 .. Len(q) : r = q[i]
      BY <2>1, <2>5
    <3>2. i \notin 1 .. n
      BY <1>6, <2>5, <3>1
    <3>3. i - n \in 1 .. Len(rest) /\ rest[i - n] = r
      BY <2>3, <3>1, <3>2
    <3> QED
      BY ONLY <2>1, <3>3
  <2>6. taken \subseteq P!ToSet(q)
    BY <1>1, <1>6, <2>1
  <2> QED
    BY <2>4, <2>5, <2>6
<1>9. taken \subseteq P!Requests
  BY <1>1, <1>6
<1> QED
  BY <1>4, <1>5, <1>7, <1>8, <1>9 DEF FrontTaken

\* A worker finds nothing, or nothing ripe, or takes a batch from the oldest queue.
LEMMA PipelineLook ==
  ASSUME PipelineInv, NEW w \in Signers, P!Look(w)
  PROVE  PipelineInv'
<1>1. /\ at[w] = "looking" /\ at \in [Signers -> P!Places]
      /\ UNCHANGED <<option, next, done, main, pending, owner, rejected, verified, expired, failed>>
  BY DEF P!Look, P!gpu, P!ends, PipelineInv, PipelineTyped
<1>2. CASE /\ UNCHANGED <<queues, queued, batch>>
           /\ \/ at' = [at EXCEPT ![w] = "returned"] /\ done /\ queued = 0
              \/ at' = [at EXCEPT ![w] = "asleep"]
              \/ at' = [at EXCEPT ![w] = "dozing"]
  <2>1. /\ at' \in [Signers -> P!Places] /\ at'[w] \in {"returned", "asleep", "dozing"}
        /\ at'[w] = "returned" => done /\ queued = 0
        /\ \A v \in Signers : v # w => at'[v] = at[v]
    BY <1>1, <1>2 DEF P!Places
  <2>2. Requested'
    BY <1>1, <1>2, RequestsKept
  <2>3. PipelineTyped'
    BY <1>1, <1>2, <2>1 DEF PipelineInv, PipelineTyped, P!Tenants
  <2>4. BatchesHeld'
    BY <1>1, <1>2, <2>1 DEF PipelineInv, BatchesHeld, P!Signing
  <2>5. MainEnds'
    BY <1>1, <1>2, <2>1 DEF PipelineInv, MainEnds
  <2>6. \A v \in Signers : at'[v] = "promised" <=> at[v] = "promised"
    BY <1>1, <2>1
  <2>7. OwnerKeeps'
    BY <1>1, <2>6, OwnerLeft
  <2> QED
    BY <2>2, <2>3, <2>4, <2>5, <2>7 DEF PipelineInv
<1>3. CASE /\ queued > 0 /\ at' = [at EXCEPT ![w] = "taken"]
           /\ batch' = [batch EXCEPT ![w] = P!ToSet(SubSeq(queues[P!Oldest], 1, P!Size))]
           /\ queues' = [queues EXCEPT ![P!Oldest] = SubSeq(@, P!Size + 1, Len(@))]
           /\ queued' = queued - P!Size
  <2>1. PICK k, n, q : k = P!Oldest /\ n = P!Size /\ q = queues[k]
    OBVIOUS
  <2>2. k \in P!Tenants /\ q \in Seq(P!Requests) /\ q # <<>>
    BY <1>3, <2>1, OldestWaits DEF PipelineInv, PipelineTyped
  <2>3. n \in 1 .. Len(q) /\ n <= BatchSize /\ Len(q) \in Nat
    <3>1. Len(q) \in Nat /\ Len(q) > 0
      BY <2>2
    <3>2. n = IF Len(q) < BatchSize THEN Len(q) ELSE BatchSize
      BY <2>1 DEF P!Size
    <3> QED
      BY <3>1, <3>2, ThreadsAssumption
  <2>4. PICK taken, rest : taken = P!ToSet(SubSeq(q, 1, n)) /\ rest = SubSeq(q, n + 1, Len(q))
    OBVIOUS
  <2>5. \A i, j \in 1 .. Len(q) : q[i] = q[j] => i = j
    BY <2>1, <2>2 DEF PipelineInv, Requested, QueuesApart
  <2>6. /\ rest \in Seq(P!Requests) /\ Len(rest) = Len(q) - n
        /\ \A i \in 1 .. Len(rest) : i + n \in 1 .. Len(q) /\ rest[i] = q[i + n]
        /\ taken \subseteq P!Requests /\ Cardinality(taken) = n
        /\ P!ToSet(rest) = P!ToSet(q) \ taken /\ taken \subseteq P!ToSet(q)
    <3>1. q \in Seq(P!Requests)
      BY <2>2
    <3>2. n \in 1 .. Len(q)
      BY <2>3
    <3>3. taken = P!ToSet(SubSeq(q, 1, n))
      BY <2>4
    <3>4. rest = SubSeq(q, n + 1, Len(q))
      BY <2>4
    <3> QED
      <4>1. FrontTaken(q, n, taken, rest)
        BY ONLY <2>5, <3>1, <3>2, <3>3, <3>4, TakenFromFront
      <4> QED
        BY <4>1 DEF FrontTaken
  <2>7. queues' = [queues EXCEPT ![k] = rest] /\ batch' = [batch EXCEPT ![w] = taken]
    BY <1>3, <2>1, <2>4
  <2>8. /\ P!Tenants' = P!Tenants
        /\ queues' \in [P!Tenants -> Seq(P!Requests)] /\ queues'[k] = rest
        /\ \A l \in P!Tenants : l # k => queues'[l] = queues[l]
        /\ \A r : r \in Wait' <=> r \in P!ToSet(rest) \/ \E l \in P!Tenants \ {k} : r \in P!ToSet(queues[l])
        /\ \A r : r \in Wait <=> \E l \in P!Tenants : r \in P!ToSet(queues[l])
    <3>1. rest \in Seq(P!Requests) /\ UNCHANGED option /\ PipelineTyped
      BY <1>1, <2>6 DEF PipelineInv
    <3> QED
      BY <2>2, <2>7, <3>1, QueueMoves
  <2>9. \A l \in P!Tenants \ {k} : P!ToSet(queues[l]) \cap P!ToSet(q) = {}
    <3>1. ASSUME NEW l \in P!Tenants \ {k}, NEW r \in P!ToSet(queues[l]), r \in P!ToSet(q)
          PROVE  FALSE
      <4>1. queues[l] \in Seq(P!Requests)
        BY DEF PipelineInv, PipelineTyped
      <4>2. PICK i \in 1 .. Len(queues[l]) : r = queues[l][i]
        BY <3>1, <4>1, ToSetIs
      <4>3. PICK j \in 1 .. Len(q) : r = q[j]
        BY <2>2, <3>1, ToSetIs
      <4> QED
        BY <2>1, <2>2, <4>2, <4>3 DEF PipelineInv, Requested, QueuesApart
    <3> QED
      BY <3>1
  <2>10. Wait' = Wait \ taken /\ taken \subseteq Wait
    BY <2>1, <2>2, <2>6, <2>8, <2>9
  <2>11. batch[w] = {}
    BY <1>1 DEF PipelineInv, BatchesHeld, P!Signing
  <2>12. /\ Held' = (Held \ batch[w]) \cup taken /\ batch[w] \subseteq Held
         /\ batch' \in [Signers -> SUBSET P!Requests] /\ BatchesApart'
         /\ batch'[w] = taken /\ \A v \in Signers : v # w => batch'[v] = batch[v]
    <3>1. taken \cap (Held \ batch[w]) = {} /\ taken \in SUBSET P!Requests
      BY <2>6, <2>10 DEF PipelineInv, Requested, OnePlace
    <3> QED
      BY <2>7, <3>1, BatchMoves DEF PipelineInv, Requested
  <2>13. OnePlace'
    BY <1>1, <2>10, <2>11, <2>12 DEF PipelineInv, Requested, OnePlace
  <2>14. QueueCounted' /\ queued' \in Nat
    <3>1. IsFiniteSet(Wait) /\ Cardinality(Wait) \in Nat /\ queued = Cardinality(Wait)
      BY RequestsFinite DEF Wait, PipelineInv, Requested, QueueCounted
    <3>2. Cardinality(Wait \ taken) = Cardinality(Wait) - Cardinality(Wait \cap taken)
      BY <3>1, FS_Difference
    <3>3. Wait \cap taken = taken
      BY <2>10
    <3>4. Cardinality(Wait \ taken) \in Nat
      BY <3>1, FS_Difference, FS_CardinalityType
    <3>5. queued' = queued - n /\ queued <= Capacity
      BY <1>3, <2>1 DEF PipelineInv, Requested, QueueCounted
    <3>6. Cardinality(taken) = n
      BY <2>6
    <3>7. Cardinality(Wait') = Cardinality(Wait) - n
      <4>1. Wait' = Wait \ taken
        BY <2>10
      <4> QED
        BY ONLY <3>2, <3>3, <3>6, <4>1
    <3>8. Cardinality(Wait') \in Nat
      BY <2>10, <3>4
    <3>9. queued' = Cardinality(Wait') /\ queued' \in Nat /\ queued' <= Capacity
      <4>1. n \in Nat /\ queued \in Nat /\ Capacity \in Nat
        BY <2>3, <3>1, ThreadsAssumption
      <4>2. queued' = Cardinality(Wait')
        BY ONLY <3>1, <3>5, <3>7
      <4>3. queued' <= Capacity
        BY ONLY <3>5, <4>1
      <4> QED
        BY ONLY <3>8, <4>2, <4>3
    <3> QED
      BY <3>9 DEF QueueCounted
  <2>15. QueuesApart'
    <3>1. ASSUME NEW l \in P!Tenants, NEW i \in 1 .. Len(queues'[l])
          PROVE  \/ l # k /\ i \in 1 .. Len(queues[l]) /\ queues'[l][i] = queues[l][i]
                 \/ l = k /\ i + n \in 1 .. Len(queues[k]) /\ queues'[l][i] = queues[k][i + n]
      <4>1. CASE l # k
        BY <2>8, <4>1
      <4>2. CASE l = k
        BY <2>1, <2>6, <2>8, <4>2
      <4> QED
        BY <4>1, <4>2
    <3>2. ASSUME NEW l \in P!Tenants, NEW m \in P!Tenants,
                 NEW i \in 1 .. Len(queues'[l]), NEW j \in 1 .. Len(queues'[m]),
                 queues'[l][i] = queues'[m][j]
          PROVE  l = m /\ i = j
      <4>1. i \in Int /\ j \in Int /\ n \in Int
        BY <2>3
      <4>2. PICK ii : /\ ii = (IF l = k THEN i + n ELSE i) /\ ii \in 1 .. Len(queues[l])
                      /\ queues'[l][i] = queues[l][ii]
        BY <3>1
      <4>3. PICK jj : /\ jj = (IF m = k THEN j + n ELSE j) /\ jj \in 1 .. Len(queues[m])
                      /\ queues'[m][j] = queues[m][jj]
        BY <3>1
      <4>4. QueuesApart
        BY DEF PipelineInv, Requested
      <4>5. queues[l][ii] = queues[m][jj]
        BY ONLY <3>2, <4>2, <4>3
      <4>6. ii \in 1 .. Len(queues[l]) /\ jj \in 1 .. Len(queues[m])
        BY ONLY <4>2, <4>3
      <4>7. l = m /\ ii = jj
        BY ONLY <3>2, <4>4, <4>5, <4>6 DEF QueuesApart
      <4> QED
        BY ONLY <4>1, <4>2, <4>3, <4>7
    <3> QED
      BY <2>8, <3>2 DEF QueuesApart
  <2>16. /\ at' \in [Signers -> P!Places] /\ at'[w] = "taken"
         /\ \A v \in Signers : v # w => at'[v] = at[v]
    BY <1>1, <1>3 DEF P!Places, P!Signing
  <2>17. PipelineTyped'
    BY <1>1, <2>8, <2>12, <2>14, <2>16 DEF PipelineInv, PipelineTyped
  <2>18. BatchesHeld'
    <3>1. taken # {}
      <4>1. Cardinality({}) = 0
        BY FS_EmptySet
      <4>2. Cardinality(taken) = n /\ n \in Nat /\ n >= 1
        BY <2>3, <2>6
      <4> QED
        BY ONLY <4>1, <4>2
    <3> QED
      BY <2>3, <2>6, <2>12, <2>16, <3>1 DEF PipelineInv, BatchesHeld, P!Signing
  <2>19. MainEnds'
    <3>1. \A v \in Signers : at[v] # "returned"
      BY <1>3 DEF PipelineInv, MainEnds
    <3>2. \A v \in Signers : at'[v] # "returned"
      BY <2>16, <3>1
    <3>3. main \notin {"starting", "leaving", "over"}
      BY <1>1, <3>1 DEF PipelineInv, MainEnds
    <3> QED
      BY <1>1, <3>2, <3>3 DEF PipelineInv, MainEnds
  <2>20. OwnerKeeps'
    <3>1. \A v \in Signers : at'[v] = "promised" <=> at[v] = "promised"
      BY <1>1, <2>16
    <3> QED
      BY <1>1, <3>1, OwnerLeft
  <2> QED
    BY <2>12, <2>13, <2>14, <2>15, <2>17, <2>18, <2>19, <2>20 DEF PipelineInv, Requested
<1> QED
  BY <1>2, <1>3 DEF P!Look, P!Left

\* Every step of the pipeline preserves its invariant.
LEMMA PipelineStep == PipelineInv /\ [P!Next]_(P!vars) => PipelineInv'
<1> SUFFICES ASSUME PipelineInv, [P!Next]_(P!vars) PROVE PipelineInv'
  OBVIOUS
<1>1. ASSUME NEW w \in Signers, P!Look(w) \/ P!Sort(w) \/ P!Submit(w) \/ P!Complete(w) \/ P!Fail(w)
      PROVE  PipelineInv'
  BY <1>1, PipelineLook, PipelineSort, PipelineSubmit, PipelineEndsBatch
<1>2. CASE P!Age \/ \E w \in Signers : P!Wake(w) \/ P!Sign(w)
  BY <1>2, PipelineQuiet
<1>3. CASE UNCHANGED (P!vars)
  <2>1. /\ UNCHANGED <<option, queues, queued, next, batch, rejected, verified, expired, failed>>
        /\ UNCHANGED <<done, main, at, pending, owner>>
    BY <1>3 DEF P!vars, P!arrivals, P!gpu, P!ends
  <2>2. Requested'
    BY <2>1, RequestsKept
  <2>3. PipelineTyped'
    BY <2>1 DEF PipelineInv, PipelineTyped, P!Tenants
  <2>4. BatchesHeld' /\ MainEnds'
    BY <2>1 DEF PipelineInv, BatchesHeld, MainEnds
  <2>5. OwnerKeeps'
    BY <2>1, OwnerLeft
  <2> QED
    BY <2>2, <2>3, <2>4, <2>5 DEF PipelineInv
<1>4. CASE P!Start \/ P!Offer \/ P!Finish \/ P!Join \/ P!OwnerLooks \/ P!Execute
  BY <1>4, PipelineStart, PipelineOffer, PipelineFinish, PipelineJoin, PipelineOwnerLooks,
     PipelineExecute
<1> QED
  BY <1>1, <1>2, <1>3, <1>4 DEF P!Next

\* Disjoint sets that make up what was offered have its number together.
LEMMA PipelineAccounts ==
  ASSUME PipelineInv
  PROVE  P!RequestsAccounted
<1>1. /\ rejected \in SUBSET P!Requests /\ verified \in SUBSET P!Requests
      /\ expired \in SUBSET P!Requests /\ failed \in SUBSET P!Requests
      /\ Held \in SUBSET P!Requests /\ Wait \in SUBSET P!Requests
  BY ThreadsAssumption DEF PipelineInv, PipelineTyped, Requested, OnePlace, P!Requests
<1>2. PICK s2, s3, s4, s5 : /\ s2 = rejected \cup verified /\ s3 = s2 \cup expired
                            /\ s4 = s3 \cup failed /\ s5 = s4 \cup Held
  OBVIOUS
<1>3. /\ s2 \in SUBSET P!Requests /\ s3 \in SUBSET P!Requests /\ s4 \in SUBSET P!Requests
      /\ s5 \in SUBSET P!Requests
      /\ rejected \cap verified = {} /\ s2 \cap expired = {} /\ s3 \cap failed = {}
      /\ s4 \cap Held = {} /\ s5 \cap Wait = {} /\ s5 \cup Wait = 0 .. next - 1
  BY <1>1, <1>2 DEF PipelineInv, Requested, OnePlace
<1>4. /\ Cardinality(rejected) \in Nat /\ Cardinality(verified) \in Nat
      /\ Cardinality(expired) \in Nat /\ Cardinality(failed) \in Nat
      /\ Cardinality(Held) \in Nat /\ Cardinality(Wait) \in Nat
  BY <1>1, RequestsFinite
<1>5. Cardinality(s2) = Cardinality(rejected) + Cardinality(verified)
  BY <1>1, <1>2, <1>3, DisjointAdds
<1>6. Cardinality(s3) = Cardinality(s2) + Cardinality(expired)
  BY <1>1, <1>2, <1>3, DisjointAdds
<1>7. Cardinality(s4) = Cardinality(s3) + Cardinality(failed)
  BY <1>1, <1>2, <1>3, DisjointAdds
<1>8. Cardinality(s5) = Cardinality(s4) + Cardinality(Held)
  BY <1>1, <1>2, <1>3, DisjointAdds
<1>9. Cardinality(s5 \cup Wait) = Cardinality(s5) + Cardinality(Wait)
  BY <1>1, <1>3, DisjointAdds
<1>10. next \in Nat /\ Cardinality(0 .. next - 1) = next
  <2>1. next \in Nat
    BY ThreadsAssumption DEF PipelineInv, PipelineTyped
  <2>2. PICK m : m = next - 1
    OBVIOUS
  <2>3. m \in Int /\ Cardinality(0 .. m) = IF 0 > m THEN 0 ELSE m - 0 + 1
    BY <2>1, <2>2, FS_Interval
  <2> QED
    BY <2>1, <2>2, <2>3
<1>11. Cardinality(rejected) + Cardinality(verified) + Cardinality(expired) + Cardinality(failed)
         + Cardinality(Held) + Cardinality(Wait) = next
  BY <1>3, <1>4, <1>5, <1>6, <1>7, <1>8, <1>9, <1>10
<1>12. ASSUME main \in {"leaving", "over"}
       PROVE  Cardinality(Held) = 0 /\ Cardinality(Wait) = 0 /\ next = Offered
  <2>1. PICK w : w \in Signers
    BY ThreadsAssumption
  <2>2. \A v \in Signers : at[v] = "returned" /\ batch[v] = {}
    BY <1>12 DEF PipelineInv, MainEnds, BatchesHeld, P!Signing
  <2>3. done /\ queued = 0 /\ next = Offered
    BY <2>1, <2>2 DEF PipelineInv, MainEnds
  <2>4. Held = {}
    BY <2>2 DEF Held
  <2> QED
    BY <2>3, <2>4, FS_EmptySet DEF PipelineInv, Requested, QueueCounted
<1>13. P!Accounting
  <2>1. /\ Held = {r \in P!Requests : \E w \in Signers : r \in batch[w]}
        /\ Wait = {r \in P!Requests : \E k \in P!Tenants : r \in P!ToSet(queues[k])}
    BY DEF Held, Wait
  <2>2. /\ rejected \cup verified \cup expired \cup failed \cup Held \cup Wait = 0 .. next - 1
        /\ queued = Cardinality(Wait)
    BY DEF PipelineInv, Requested, OnePlace, QueueCounted
  <2>3. /\ Cardinality(rejected) + Cardinality(verified) + Cardinality(expired)
             + Cardinality(failed) + Cardinality(Held) + Cardinality(Wait) = next
        /\ main \in {"leaving", "over"} =>
             Cardinality(rejected) + Cardinality(verified) + Cardinality(expired)
               + Cardinality(failed) = Offered
    BY <1>4, <1>11, <1>12
  <2> QED
    BY <2>1, <2>2, <2>3, PipelineOperators DEF P!Accounting
<1>14. P!TypeOK
  BY PipelineOperators DEF P!TypeOK, PipelineInv, PipelineTyped, BatchesHeld
<1>15. P!Bounded /\ P!OwnerServes
  BY PipelineOperators DEF P!Bounded, P!OwnerServes, PipelineInv, Requested, QueueCounted, OwnerKeeps
<1> QED
  BY <1>13, <1>14, <1>15 DEF P!RequestsAccounted

\* For any workers, queues, batches, deadlines and failures: every request that was
\* offered is in one place, and ends rejected, verified, expired or failed, once.
THEOREM PipelineAccounted == P!Spec => []P!RequestsAccounted
<1>1. P!Init => PipelineInv
  BY PipelineInit
<1>2. PipelineInv /\ [P!Next]_(P!vars) => PipelineInv'
  BY PipelineStep
<1>3. PipelineInv => P!RequestsAccounted
  BY PipelineAccounts
<1> QED
  BY <1>1, <1>2, <1>3, PTL DEF P!Spec

-------------------------------------------------------------------------------
(* The parts of a run: the one that runs, and the ones that have ended. *)

ThreadsInv == IInv /\ PipelineInv /\ WavesInv

\* A part that has ended is in a state its invariant holds in.
LEMMA OverIsSafe == /\ PoolOver => IInv
                    /\ PipelineOver => PipelineInv
                    /\ WavesOver => WavesInv
<1>1. ASSUME PoolOver
      PROVE  IInv
  <2>1. /\ Types /\ Leased = {} /\ Holders = {}
        /\ \A b \in Borrowers : pc[b] = "out" /\ lease[b] = NoDb
    BY <1>1, ConnectionPoolAssumption DEF PoolOver, Types, Leased, Holders, Holding, Places
  <2>2. ActiveCounts
    BY <1>1, <2>1, FS_EmptySet DEF PoolOver, ActiveCounts, Holders
  <2> QED
    BY <1>1, <2>1, <2>2
    DEF PoolOver, IInv, LeaseWhileUsed, LeasedOpen, ExclusiveBorrower, PoolKeeps, ShutIsIdle,
        NoMissedWakeup, Holding
<1>2. ASSUME PipelineOver
      PROVE  PipelineInv
  <2>1. /\ option.keys \in Nat \ {0} /\ next = Offered /\ Offered \in Nat
        /\ at \in [Signers -> P!Places] /\ batch \in [Signers -> SUBSET P!Requests]
        /\ \A w \in Signers : at[w] = "returned" /\ batch[w] = {}
        /\ queues \in [P!Tenants -> Seq(P!Requests)]
        /\ \A k \in P!Tenants : queues[k] = <<>>
    BY <1>2, ThreadsAssumption DEF PipelineOver, P!Places
  <2>2. Wait = {} /\ Held = {}
    <3>1. \A k \in P!Tenants : P!ToSet(queues[k]) = {}
      BY <2>1, PipelineOperators
    <3> QED
      BY <2>1, <3>1 DEF Wait, Held
  <2>3. OnePlace
    BY <1>2, <2>1, <2>2 DEF PipelineOver, OnePlace, P!Requests
  <2>4. QueueCounted
    BY <1>2, <2>2, FS_EmptySet, ThreadsAssumption DEF PipelineOver, QueueCounted
  <2>5. BatchesHeld
    <3>1. Cardinality({}) = 0 /\ 0 <= BatchSize
      BY FS_EmptySet, ThreadsAssumption
    <3> QED
      BY <2>1, <3>1 DEF BatchesHeld, P!Signing
  <2>6. OwnerKeeps
    <3>1. P!Promised = {} /\ pending = <<>> /\ owner # "executing"
      BY <1>2, <2>1 DEF P!Promised, PipelineOver
    <3>2. P!ToSet(pending) = {} /\ Len(pending) = 0
      BY <3>1, PipelineOperators
    <3> QED
      BY <3>1, <3>2, FS_EmptySet DEF OwnerKeeps
  <2>7. PipelineTyped
    BY <1>2, <2>1 DEF PipelineOver, PipelineTyped
  <2>8. QueuesApart /\ BatchesApart
    BY <2>1 DEF QueuesApart, BatchesApart
  <2>9. MainEnds
    BY <1>2, <2>1 DEF PipelineOver, MainEnds
  <2> QED
    BY <2>3, <2>4, <2>5, <2>6, <2>7, <2>8, <2>9 DEF PipelineInv, Requested
<1>3. ASSUME WavesOver
      PROVE  WavesInv
  <2>1. /\ place \in [Crew -> W!Places] /\ seen \in [Crew -> 0 .. MaxJobs]
        /\ ran \in [Crew -> Nat]
        /\ \A w \in Crew : place[w] = "returned" /\ seen[w] = 0 /\ ran[w] = 0
    <3>1. 0 \in 0 .. MaxJobs /\ "returned" \in W!Places
      BY ThreadsAssumption DEF W!Places
    <3> QED
      BY <1>3, <3>1 DEF WavesOver
  <2>2. WavesTyped
    <3>1. generation \in 0 .. MaxJobs /\ remaining \in Nat
      BY <1>3, ThreadsAssumption DEF WavesOver
    <3>2. /\ halt \in BOOLEAN /\ error \in BOOLEAN /\ threw \in BOOLEAN
          /\ caller \in {"between", "waiting", "awake", "thrown", "joining", "over"}
      BY <1>3 DEF WavesOver
    <3> QED
      BY <2>1, <3>1, <3>2 DEF WavesTyped
  <2>3. WorkerKeepsUp /\ MainWaits /\ FailureNoted
    BY <1>3, <2>1 DEF WavesOver, WorkerKeepsUp, MainWaits, FailureNoted, AtWork
  <2>4. NotDone = {}
    BY <1>3, <2>1 DEF WavesOver, NotDone, AtWork
  <2> QED
    BY <1>3, <2>2, <2>3, <2>4, FS_EmptySet DEF WavesInv, WavesCounted, WavesOver
<1> QED
  BY <1>1, <1>2, <1>3

\* Each part begins in its invariant, or has ended in it.
LEMMA ThreadsInit == MCInit => ThreadsInv
BY OverIsSafe, PoolInit, PipelineInit, WavesInit DEF MCInit, ThreadsInv

\* The part that runs preserves its invariant, the others stay as they are.
LEMMA ThreadsStep ==
  ThreadsInv /\ [MCNext]_<<part, poolVars, pipelineVars, waveVars>> => ThreadsInv'
<1> SUFFICES ASSUME ThreadsInv, [MCNext]_<<part, poolVars, pipelineVars, waveVars>>
             PROVE  ThreadsInv'
  OBVIOUS
<1>1. [Next]_vars \/ UNCHANGED vars
  BY DEF MCNext, poolVars, vars
<1>2. [P!Next]_(P!vars)
  BY DEF MCNext, pipelineVars, P!vars, P!arrivals, P!time, P!gpu, P!ends
<1>3. [W!Next]_(W!vars)
  BY DEF MCNext, waveVars, W!vars
<1> QED
  BY <1>1, <1>2, <1>3, PoolStep, PipelineStep, WavesStep DEF ThreadsInv

\* For any threads: no work of the benchmarks is lost or done twice; requests that
\* the pipeline was offered are accounted for, waves are done by every worker.
THEOREM NoneLost == MCSpec => []NoWorkLost
<1>1. ThreadsInv => NoWorkLost
  BY PipelineAccounts, WavesAccounts DEF ThreadsInv, NoWorkLost
<1> QED
  BY <1>1, ThreadsInit, ThreadsStep, PTL DEF MCSpec

===============================================================================
