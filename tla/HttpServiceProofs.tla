--------------------------- MODULE HttpServiceProofs ---------------------------
(***************************************************************************)
(* The HTTP service charges once for a call and spends only for tokens it  *)
(* verified, and its ledger is closed when nobody uses it, for any         *)
(* clients, calls, keys, numbers of attempts, faults and sizes of the      *)
(* consumer's cache.                                                       *)
(***************************************************************************)
EXTENDS HttpService, FiniteSetTheorems, SequenceTheorems, TLAPS

Links == Outer \cup Inner

Codes == {200, 400, 503}

Counts == 0 .. Attempts

LineNumbers == 1 .. Lines

Link ==
  [at : {"unused", "sent"} \cup Served \cup Ended, status : {0} \cup Codes,
   caller : {"waits", "late", "gone"}, tries : Counts]

Client ==
  [call : {NoToken} \cup Calls, tries : Counts, line : LineNumbers,
   outcome : {"none", "receipt", "failed"}]

Types ==
  /\ client \in [Clients -> Client]
  /\ link \in [Links -> Link]
  /\ pins \subseteq Kids
  /\ IsFiniteSet(cache) /\ Cardinality(cache) <= CacheSize
  /\ exit \in {"open", "issuer", "publisher", "closed"} /\ faults \in 0 .. MaxFaults

\* A token by a key of ks, for what the call asks.
Sound(call, ks) ==
  call.token # NoToken =>
    call.token.genuine /\ call.token.kid \in ks /\ Named(call.token, call)

\* What is known of an exchange x in the state l for this call: an answer that
\* says so was committed, and only sound calls are spent for.
Kept(x, l, call, rs, ks) ==
  /\ l.status = 200 => call \in rs
  /\ l.at = "spending" => x \in Outer /\ l.tries \in 1 .. Attempts
  /\ (l.at = "spending" \/ (x \in Inner /\ l.at # "unused")) => Sound(call, ks)

LinksKept == \A x \in Links : Kept(x, link[x], CallOf(x), rows, pins)

\* A client that asked for nothing has no exchange.
Begun == {c \in Clients : client[c] # Ready}

NothingBefore == \A x \in Links : x[1] \notin Begun => link[x] = Unused

ClientsKept ==
  \A c \in Clients : /\ client[c].tries > 0 => c \in Begun
                     /\ c \in Begun => client[c].call \in Calls
                     /\ client[c].outcome = "receipt" => client[c].call \in rows

CacheVerified == \A token \in cache : token.genuine /\ token.kid \in pins

\* The rows are calls that clients began, and differ in their names.
Name(call) == <<call.path, call.buyer, call.request>>

RowsAreCalls ==
  /\ IsFiniteSet(Begun)
  /\ \A r \in rows : \E c \in Begun : r = client[c].call
  /\ \A r, s \in rows : Name(r) = Name(s) => r = s

\* A server that is left has neither a backlog nor handlers.
Left(role, places) == \A x \in Links : link[x].at \in places => Role(x) # role

ServersLeft ==
  /\ exit # "open" => Left("issuer", {"sent"})
  /\ exit \in {"publisher", "closed"} => Left("issuer", Served) /\ Left("publisher", {"sent"})
  /\ exit = "closed" => Left("publisher", Served)

IInv ==
  /\ Types /\ LinksKept /\ NothingBefore /\ ClientsKept /\ CacheVerified /\ RowsAreCalls
  /\ ServersLeft

-------------------------------------------------------------------------------
\* The names of exchanges.
LEMMA OuterNames ==
  ASSUME NEW x \in Outer
  PROVE  x = <<x[1], x[2]>> /\ x[1] \in Clients /\ x[2] \in 1 .. Lines /\ Len(x) = 2 /\ x \in Links
BY DEF Outer, Links

\* An inner connection is named by a client, a connection of it and an attempt.
LEMMA InnerNames ==
  ASSUME NEW x \in Inner
  PROVE  /\ x = <<x[1], x[2], x[3]>> /\ x[1] \in Clients /\ x[2] \in 1 .. Lines
         /\ x[3] \in 1 .. Attempts /\ Len(x) = 3 /\ x \in Links
BY DEF Inner, Links

\* An outer connection and an attempt name an inner one.
LEMMA NestedNames ==
  ASSUME NEW x \in Outer, NEW j \in 1 .. Attempts
  PROVE  Append(x, j) = <<x[1], x[2], j>> /\ Append(x, j) \in Inner
<1>1. PICK c, i : c = x[1] /\ i = x[2]
  OBVIOUS
<1>2. x = <<c, i>> /\ c \in Clients /\ i \in 1 .. Lines
  BY <1>1, OuterNames
<1>3. Append(<<c, i>>, j) = <<c, i, j>>
  <2>1. PICK T, s, t : T = {c, i, j} /\ s = <<c, i>> /\ t = <<c, i, j>>
    OBVIOUS
  <2>2. s \in Seq(T) /\ t \in Seq(T) /\ Len(s) = 2 /\ Len(t) = 3 /\ j \in T
    BY <2>1
  <2>3. PICK a : a = Append(s, j)
    OBVIOUS
  <2>4. a \in Seq(T) /\ Len(a) = Len(s) + 1 /\ a[Len(s) + 1] = j
    BY ZenonT(60), <2>2, <2>3, AppendProperties
  <2>5. \A k \in 1 .. Len(s) : a[k] = s[k]
    BY <2>2, <2>3, AppendProperties
  <2>6. Len(a) = Len(t) /\ \A k \in 1 .. Len(a) : a[k] = t[k]
    BY <2>1, <2>2, <2>4, <2>5
  <2>7. a = t
    BY <2>2, <2>4, <2>6, SeqEqual
  <2> QED
    BY <2>1, <2>3, <2>7
<1>4. <<c, i, j>> \in Inner
  BY <1>2 DEF Inner
<1> QED
  BY <1>1, <1>2, <1>3, <1>4

\* Outer and inner connections have different names.
LEMMA LinkNames ==
  ASSUME NEW x \in Links
  PROVE  /\ x[1] \in Clients
         /\ x \in Outer => Len(x) = 2 /\ x \notin Inner
         /\ x \in Inner => Len(x) = 3 /\ x \notin Outer
BY OuterNames, InnerNames DEF Links

\* What an exchange may become in a step: committed, sound, and new only at a
\* server that accepts it.
Fits(x, l) ==
  /\ l \in Link /\ x[1] \in Begun
  /\ Kept(x, l, CallOf(x), rows', pins')
  /\ l.at = "sent" => link[x].at = "sent" \/ Accepting(Role(x))
  /\ l.at \in Served => link[x].at \in Served \/ Accepting(Role(x))

Moved == link' \in [Links -> Link] /\ \A x \in Links : link'[x] = link[x] \/ Fits(x, link'[x])

\* No call is exchanged for another.
SameCalls ==
  \A c \in Clients : /\ client'[c].call = client[c].call
                     /\ client'[c] # Ready <=> client[c] # Ready

\* What is said of a connection stays true as rows and pins are added.
LEMMA KeptLonger ==
  ASSUME NEW x, NEW l, NEW call, NEW rs, NEW ks, Kept(x, l, call, rs, ks),
         NEW rs2, rs \subseteq rs2, NEW ks2, ks \subseteq ks2
  PROVE  Kept(x, l, call, rs2, ks2)
BY DEF Kept, Sound

\* When connections move as they may, what is said of each stays true.
LEMMA MovedKeeps ==
  ASSUME IInv, Moved, SameCalls, rows \subseteq rows', pins \subseteq pins'
  PROVE  LinksKept' /\ NothingBefore'
<1>1. ASSUME NEW x \in Links
      PROVE  Kept(x, link'[x], client'[x[1]].call, rows', pins')
  <2>1. client'[x[1]].call = CallOf(x)
    BY LinkNames DEF SameCalls, CallOf
  <2>2. CASE link'[x] = link[x]
    <3>1. Kept(x, link[x], CallOf(x), rows, pins)
      BY DEF IInv, LinksKept
    <3>2. Kept(x, link[x], CallOf(x), rows', pins')
      BY <3>1, KeptLonger
    <3> QED
      BY <2>1, <2>2, <3>2
  <2>3. CASE Fits(x, link'[x])
    BY <2>1, <2>3 DEF Fits
  <2> QED
    BY <2>2, <2>3 DEF Moved
<1>2. ASSUME NEW x \in Links, x[1] \notin Begun'
      PROVE  link'[x] = Unused
  <2>1. x[1] \notin Begun
    BY <1>2, LinkNames DEF SameCalls, Begun
  <2> QED
    BY <2>1 DEF IInv, NothingBefore, Moved, Fits
<1> QED
  BY <1>1, <1>2 DEF LinksKept, NothingBefore, CallOf

\* Once a server has gone, no connection comes to it by such a move.
LEMMA MovedLeaves ==
  ASSUME IInv, Moved, SameCalls, exit' = exit
  PROVE  ServersLeft'
<1>1. ASSUME NEW x \in Links
      PROVE  /\ Role(x)' = Role(x) /\ Role(x) \in {"issuer", "publisher"}
             /\ link'[x].at = "sent" => link[x].at = "sent" \/ Accepting(Role(x))
             /\ link'[x].at \in Served => link[x].at \in Served \/ Accepting(Role(x))
  <2>1. client'[x[1]].call = client[x[1]].call
    BY LinkNames DEF SameCalls
  <2>2. Role(x)' = Role(x) /\ Role(x) \in {"issuer", "publisher"}
    BY <2>1 DEF Role, CallOf
  <2> QED
    BY <2>2 DEF Moved, Fits
<1>2. exit # "open" => ~Accepting("issuer")
  BY DEF Accepting
<1>3. exit \in {"publisher", "closed"} => ~Accepting("issuer") /\ ~Accepting("publisher")
  BY DEF Accepting
<1>4. exit # "open" => Left("issuer", {"sent"})'
  BY <1>1, <1>2 DEF IInv, ServersLeft, Left
<1>5. exit \in {"publisher", "closed"} => Left("issuer", Served)' /\ Left("publisher", {"sent"})'
  BY <1>1, <1>3 DEF IInv, ServersLeft, Left, Served
<1>6. exit = "closed" => Left("publisher", Served)'
  BY <1>1, <1>3 DEF IInv, ServersLeft, Left, Served
<1> QED
  BY <1>4, <1>5, <1>6 DEF ServersLeft

\* The states that callers and servers put an exchange in.
LEMMA SentFits ==
  ASSUME IInv, rows \subseteq rows', pins \subseteq pins', NEW x \in Links, x[1] \in Begun,
         NEW l, l = Sent(Role(x)), x \in Outer \/ Sound(CallOf(x), pins)
  PROVE  Fits(x, l)
<1>1. /\ l \in Link /\ l.status = 0 /\ l.at \in {"sent", "lost"}
      /\ l.at = "sent" => Accepting(Role(x))
  <2>1. CASE Accepting(Role(x))
    BY <2>1, HttpServiceAssumption DEF Sent, Unused, Link, Served, Ended, Counts
  <2>2. CASE ~Accepting(Role(x))
    BY <2>2, HttpServiceAssumption DEF Sent, Unused, Link, Served, Ended, Counts
  <2> QED
    BY <2>1, <2>2
<1>2. Kept(x, l, CallOf(x), rows', pins')
  BY <1>1, LinkNames DEF Kept, Sound
<1> QED
  BY <1>1, <1>2 DEF Fits, Served

\* A connection whose caller goes on fits.
LEMMA BehindFits ==
  ASSUME IInv, rows \subseteq rows', pins \subseteq pins', NEW x \in Links, x[1] \in Begun,
         NEW l, l = Behind(x)
  PROVE  Fits(x, l)
<1>1. link[x] \in Link /\ Kept(x, link[x], CallOf(x), rows, pins)
  BY DEF IInv, Types, LinksKept
<1>2. \/ l = Unused
      \/ l \in Link /\ l.at = link[x].at /\ l.status = link[x].status /\ l.tries = link[x].tries
  BY <1>1 DEF Behind, Link
<1>3. Unused \in Link /\ Unused.at = "unused" /\ Unused.status = 0
  BY HttpServiceAssumption DEF Unused, Link, Counts
<1>4. Kept(x, l, CallOf(x), rows', pins')
  BY <1>1, <1>2, <1>3 DEF Kept, Sound
<1> QED
  BY <1>2, <1>3, <1>4 DEF Fits, Served

-------------------------------------------------------------------------------
\* The steps of exchanges.
LEMMA UsedBegun ==
  ASSUME IInv, NEW x \in Links, link[x].at # "unused"
  PROVE  /\ x[1] \in Begun /\ link[x] \in Link
         /\ Kept(x, link[x], CallOf(x), rows, pins)
<1>1. link[x] # Unused
  BY DEF Unused
<1> QED
  BY <1>1 DEF IInv, NothingBefore, Types, LinksKept

\* One connection that moves and fits is a move of all.
LEMMA OneMoves ==
  ASSUME IInv, NEW x \in Links, NEW l, link' = [link EXCEPT ![x] = l], Fits(x, l)
  PROVE  Moved
<1>1. link \in [Links -> Link] /\ l \in Link
  BY DEF IInv, Types, Fits
<1>2. link' \in [Links -> Link] /\ link'[x] = l /\ \A y \in Links : y # x => link'[y] = link[y]
  BY <1>1
<1> QED
  BY <1>2 DEF Moved

\* A step that moves exchanges, and commits nothing.
LEMMA LinkStep ==
  ASSUME IInv, Moved, UNCHANGED <<client, rows, pins, cache, exit>>, faults' \in 0 .. MaxFaults
  PROVE  IInv'
<1>1. SameCalls
  BY DEF SameCalls
<1>2. LinksKept' /\ NothingBefore' /\ ServersLeft'
  BY <1>1, MovedKeeps, MovedLeaves
<1>3. Types'
  BY DEF IInv, Types, Moved
<1>4. ClientsKept' /\ CacheVerified' /\ RowsAreCalls'
  BY DEF IInv, ClientsKept, CacheVerified, RowsAreCalls, Begun
<1> QED
  BY <1>2, <1>3, <1>4 DEF IInv

\* A fault is counted within the bound.
LEMMA FaultsLeft ==
  ASSUME IInv, Fault
  PROVE  faults' \in 0 .. MaxFaults
BY HttpServiceAssumption DEF IInv, Types, Fault

\* A time out keeps the invariant.
LEMMA TimeOutStep ==
  ASSUME IInv, NEW x \in Links, TimeOut(x)
  PROVE  IInv'
<1>1. /\ link[x].at \in {"sent"} \cup Served /\ link' = [link EXCEPT ![x].caller = "late"]
      /\ UNCHANGED <<client, rows, pins, cache, exit>> /\ faults' \in 0 .. MaxFaults
  BY FaultsLeft DEF TimeOut
<1>2. x[1] \in Begun /\ link[x] \in Link /\ Kept(x, link[x], CallOf(x), rows, pins)
  BY <1>1, UsedBegun DEF Served
<1>3. PICK l : l = [link[x] EXCEPT !.caller = "late"]
  OBVIOUS
<1>4. l \in Link /\ l.at = link[x].at /\ l.status = link[x].status /\ l.tries = link[x].tries
  BY <1>2, <1>3 DEF Link
<1>5. Fits(x, l)
  BY <1>1, <1>2, <1>4 DEF Fits, Kept
<1>6. link' = [link EXCEPT ![x] = l]
  BY <1>1, <1>3
<1> QED
  BY <1>1, <1>5, <1>6, OneMoves, LinkStep

\* So does an accepted connection,
LEMMA AcceptStep ==
  ASSUME IInv, NEW x \in Links, Accept(x)
  PROVE  IInv'
<1>1. /\ link[x].at = "sent" /\ Accepting(Role(x)) /\ link' = [link EXCEPT ![x].at = "working"]
      /\ UNCHANGED <<client, rows, pins, cache, exit>> /\ faults' \in 0 .. MaxFaults
  BY DEF Accept, IInv, Types
<1>2. x[1] \in Begun /\ link[x] \in Link /\ Kept(x, link[x], CallOf(x), rows, pins)
  BY <1>1, UsedBegun
<1>3. PICK l : l = [link[x] EXCEPT !.at = "working"]
  OBVIOUS
<1>4. l \in Link /\ l.at = "working" /\ l.status = link[x].status /\ l.tries = link[x].tries
  BY <1>2, <1>3 DEF Link, Served
<1>5. Fits(x, l)
  BY <1>1, <1>2, <1>4 DEF Fits, Kept, Served
<1>6. link' = [link EXCEPT ![x] = l]
  BY <1>1, <1>3
<1> QED
  BY <1>1, <1>5, <1>6, OneMoves, LinkStep

\* a reply,
LEMMA ReplyStep ==
  ASSUME IInv, NEW x \in Links, Reply(x)
  PROVE  IInv'
<1>1. /\ link[x].at = "ran" /\ UNCHANGED <<client, rows, pins, cache, exit>>
      /\ faults' \in 0 .. MaxFaults
  BY FaultsLeft DEF Reply, IInv, Types
<1>2. x[1] \in Begun /\ link[x] \in Link /\ Kept(x, link[x], CallOf(x), rows, pins)
  BY <1>1, UsedBegun
<1>3. PICK l : /\ link' = [link EXCEPT ![x] = l]
               /\ l \in {Unused, [link[x] EXCEPT !.at = "answered"], [link[x] EXCEPT !.at = "lost"]}
  BY DEF Reply
<1>4. /\ l \in Link /\ l.at \notin {"sent", "spending"} \cup Served
      /\ l.status = link[x].status \/ l.status = 0
      /\ l.at # "unused" => link[x].at # "unused"
  BY <1>1, <1>2, <1>3, HttpServiceAssumption DEF Link, Unused, Served, Ended, Counts
<1>5. Fits(x, l)
  BY <1>1, <1>2, <1>4 DEF Fits, Kept
<1> QED
  BY <1>1, <1>3, <1>5, OneMoves, LinkStep

\* An answer of the issuer: of a row, of a new one, or none.
LEMMA AnswerFits ==
  ASSUME IInv, rows \subseteq rows', pins' = pins, NEW x \in Links, link[x].at = "working",
         NEW code \in Codes, code = 200 => CallOf(x) \in rows', NEW l,
         l = [link[x] EXCEPT !.at = "ran", !.status = code]
  PROVE  Fits(x, l)
<1>1. x[1] \in Begun /\ link[x] \in Link /\ Kept(x, link[x], CallOf(x), rows, pins)
  BY UsedBegun
<1>2. l \in Link /\ l.at = "ran" /\ l.status = code
  BY <1>1 DEF Link, Served
<1> QED
  BY <1>1, <1>2 DEF Fits, Kept, Served

\* and a handler of the issuer.
LEMMA IssuerStep ==
  ASSUME IInv, NEW x \in Links, IssuerRuns(x)
  PROVE  IInv'
<1>1. /\ link[x].at = "working" /\ UNCHANGED <<client, pins, cache, exit>>
      /\ faults' \in 0 .. MaxFaults
  BY FaultsLeft DEF IssuerRuns, IInv, Types
<1>2. x[1] \in Begun
  BY <1>1, UsedBegun
<1>3. PICK code \in Codes :
        link' = [link EXCEPT ![x].at = "ran", ![x].status = code]
        /\ \/ rows' = rows /\ (code = 200 => CallOf(x) \in rows)
           \/ /\ SameId(CallOf(x)) = {} /\ rows' = rows \cup {CallOf(x)}
  BY DEF IssuerRuns, RowOf, Recorded, Codes
<1>4. PICK l : l = [link[x] EXCEPT !.at = "ran", !.status = code]
  OBVIOUS
<1>5. link' = [link EXCEPT ![x] = l]
  <2>1. link \in [Links -> Link]
    BY DEF IInv, Types
  <2>2. link' = [link EXCEPT ![x].at = "ran", ![x].status = code]
    BY <1>3
  <2> QED
    BY <1>4, <2>1, <2>2
<1>6. rows \subseteq rows' /\ (code = 200 => CallOf(x) \in rows')
  BY <1>3
<1>7. Fits(x, l)
  <2>1. pins' = pins /\ link[x].at = "working"
    BY <1>1
  <2>2. rows \subseteq rows'
    BY <1>6
  <2>3. code = 200 => CallOf(x) \in rows'
    BY <1>6
  <2> QED
    BY <1>4, <2>1, <2>2, <2>3, AnswerFits
<1>8. Moved
  BY <1>5, <1>7, OneMoves
<1>9. CASE rows' = rows
  BY <1>1, <1>8, <1>9, LinkStep
<1>10. CASE SameId(CallOf(x)) = {} /\ rows' = rows \cup {CallOf(x)}
  <2>1. SameCalls
    BY <1>1 DEF SameCalls
  <2>2. LinksKept' /\ NothingBefore' /\ ServersLeft'
    BY <1>1, <1>6, <1>8, <2>1, MovedKeeps, MovedLeaves
  <2>3. Types'
    BY <1>1, <1>8 DEF IInv, Types, Moved
  <2>4. ClientsKept' /\ CacheVerified'
    BY <1>1, <1>6 DEF IInv, ClientsKept, CacheVerified, Begun
  <2>5. RowsAreCalls'
    <3>1. Begun' = Begun
      BY <1>1 DEF Begun
    <3>2. \A r \in rows' : \E c \in Begun : r = client[c].call
      BY <1>2, <1>10 DEF IInv, RowsAreCalls, CallOf
    <3>3. \A r \in rows : Name(r) # Name(CallOf(x))
      BY <1>10 DEF SameId, Name
    <3>4. \A r, s \in rows' : Name(r) = Name(s) => r = s
      BY <1>10, <3>3 DEF IInv, RowsAreCalls
    <3> QED
      BY <1>1, <3>1, <3>2, <3>4 DEF IInv, RowsAreCalls
  <2> QED
    BY <2>2, <2>3, <2>4, <2>5 DEF IInv
<1> QED
  BY <1>3, <1>9, <1>10

\* Two connections that move and fit are a move of all.
LEMMA TwoMoves ==
  ASSUME IInv, NEW x \in Links, NEW y \in Links, x # y, NEW l, NEW m,
         link' = [link EXCEPT ![x] = l, ![y] = m], Fits(x, l), Fits(y, m)
  PROVE  Moved
<1>1. link \in [Links -> Link] /\ l \in Link /\ m \in Link
  BY DEF IInv, Types, Fits
<1>2. /\ link' \in [Links -> Link] /\ link'[x] = l /\ link'[y] = m
      /\ \A z \in Links : z # x /\ z # y => link'[z] = link[z]
  BY <1>1
<1> QED
  BY <1>2 DEF Moved

\* The consumer forgets everything, or remembers one more verified token.
LEMMA CacheKept ==
  ASSUME IInv, NEW call, cache' = Remembered(call), pins' = pins
  PROVE  IsFiniteSet(cache') /\ Cardinality(cache') <= CacheSize /\ CacheVerified'
<1>1. IsFiniteSet(cache) /\ Cardinality(cache) \in Nat /\ CacheSize \in Nat /\ CacheSize >= 1
  BY HttpServiceAssumption, FS_CardinalityType DEF IInv, Types
<1>2. CASE cache' = cache
  BY <1>2 DEF IInv, Types, CacheVerified
<1>3. CASE Verifies(call.token) /\ cache' = Room \cup {call.token}
  <2>1. CacheVerified'
    BY <1>3 DEF IInv, CacheVerified, Verifies, Room
  <2>2. CASE Room = {}
    <3>1. cache' = {call.token}
      BY <1>3, <2>2
    <3>2. IsFiniteSet({call.token}) /\ Cardinality({call.token}) = 1
      BY FS_Singleton
    <3> QED
      BY <1>1, <2>1, <3>1, <3>2
  <2>3. CASE Room = cache /\ Cardinality(cache) < CacheSize
    <3>1. PICK token : token = call.token
      OBVIOUS
    <3>2. /\ IsFiniteSet(cache \cup {token})
          /\ \/ Cardinality(cache \cup {token}) = Cardinality(cache)
             \/ Cardinality(cache \cup {token}) = Cardinality(cache) + 1
      BY <1>1, FS_AddElement
    <3> QED
      BY <1>1, <1>3, <2>1, <2>3, <3>1, <3>2
  <2> QED
    BY <1>1, <2>2, <2>3 DEF Room
<1> QED
  BY <1>2, <1>3 DEF Remembered

\* A call that the publisher admits carries a token it verified.
LEMMA AdmittedSound ==
  ASSUME IInv, NEW call, Admitted(call)
  PROVE  Sound(call, pins)
BY DEF IInv, CacheVerified, Admitted, Verifies, Sound

\* A handler of the publisher keeps the invariant.
LEMMA PublisherStep ==
  ASSUME IInv, NEW x \in Links, PublisherRuns(x)
  PROVE  IInv'
<1>1. /\ link[x].at = "working" /\ Role(x) = "publisher" /\ cache' = Remembered(CallOf(x))
      /\ UNCHANGED <<client, rows, pins, exit, faults>>
  BY DEF PublisherRuns
<1>2. /\ x[1] \in Begun /\ link[x] \in Link /\ Kept(x, link[x], CallOf(x), rows, pins)
      /\ x \in Outer /\ link \in [Links -> Link]
  <2>1. x \in Outer
    BY <1>1, LinkNames DEF Role, Links
  <2> QED
    BY <1>1, <2>1, UsedBegun DEF IInv, Types
<1>3. ASSUME Admitted(CallOf(x))
      PROVE  Moved
  <2>1. PICK y : y = Append(x, 1)
    OBVIOUS
  <2>2. /\ y = <<x[1], x[2], 1>> /\ y \in Inner /\ y \in Links /\ y # x
        /\ y[1] = x[1] /\ Len(y) = 3
    <3>1. 1 \in 1 .. Attempts
      BY HttpServiceAssumption
    <3>2. y = <<x[1], x[2], 1>> /\ y \in Inner
      BY <1>2, <2>1, <3>1, NestedNames
    <3> QED
      BY <1>2, <3>2, InnerNames, LinkNames
  <2>3. PICK l, m : l = [link[x] EXCEPT !.at = "spending", !.tries = 1] /\ m = Sent("issuer")
    OBVIOUS
  <2>4. link' = [link EXCEPT ![x] = l, ![y] = m]
    <3>1. link' = [link EXCEPT ![x].at = "spending", ![x].tries = 1, ![y] = m]
      BY <1>3, <2>1, <2>3 DEF PublisherRuns
    <3> QED
      BY <1>2, <2>2, <2>3, <3>1
  <2>5. Sound(CallOf(x), pins) /\ CallOf(y) = CallOf(x) /\ Role(y) = "issuer"
    BY <1>3, <2>2, AdmittedSound DEF CallOf, Role
  <2>6. Fits(x, l)
    <3>1. PICK n : n = 1
      OBVIOUS
    <3>2. n \in Counts /\ n \in 1 .. Attempts
      BY <3>1, HttpServiceAssumption DEF Counts
    <3>3. l = [link[x] EXCEPT !.at = "spending", !.tries = n]
      BY <2>3, <3>1
    <3>4. n \in Counts
      BY <3>2
    <3>5. l \in Link /\ l.at = "spending" /\ l.tries = n /\ l.status = link[x].status
      BY <1>2, <3>3, <3>4 DEF Link, Served
    <3> QED
      BY <1>1, <1>2, <2>5, <3>2, <3>5 DEF Fits, Kept, Served
  <2>7. Fits(y, m)
    <3>1. m = Sent(Role(y)) /\ y[1] \in Begun /\ rows \subseteq rows' /\ pins \subseteq pins'
          /\ Sound(CallOf(y), pins)
      BY <1>1, <1>2, <2>2, <2>3, <2>5
    <3> QED
      BY <2>2, <3>1, SentFits
  <2> QED
    BY <2>2, <2>4, <2>6, <2>7, TwoMoves
<1>4. ASSUME ~Admitted(CallOf(x))
      PROVE  Moved
  <2>1. PICK code, l : code = 400 /\ l = [link[x] EXCEPT !.at = "ran", !.status = code]
    OBVIOUS
  <2>2. code \in Codes /\ code # 200
    BY <2>1 DEF Codes
  <2>3. link' = [link EXCEPT ![x].at = "ran", ![x].status = code]
    BY <1>4, <2>1 DEF PublisherRuns
  <2>4. l = [link[x] EXCEPT !.at = "ran", !.status = code]
    BY <2>1
  <2>5. link' = [link EXCEPT ![x] = l]
    BY <1>2, <2>3, <2>4
  <2>6. rows \subseteq rows' /\ pins' = pins
    BY <1>1
  <2>7. Fits(x, l)
    BY <1>1, <2>2, <2>4, <2>6, AnswerFits
  <2> QED
    BY <2>5, <2>7, OneMoves
<1>5. Moved
  BY <1>3, <1>4
<1>6. SameCalls
  BY <1>1 DEF SameCalls
<1>7. LinksKept' /\ NothingBefore' /\ ServersLeft'
  BY <1>1, <1>5, <1>6, MovedKeeps, MovedLeaves
<1>8. IsFiniteSet(cache') /\ Cardinality(cache') <= CacheSize /\ CacheVerified'
  BY <1>1, CacheKept
<1>9. Types'
  BY <1>1, <1>5, <1>8 DEF IInv, Types, Moved
<1>10. ClientsKept' /\ RowsAreCalls'
  BY <1>1 DEF IInv, ClientsKept, RowsAreCalls, Begun
<1> QED
  BY <1>7, <1>8, <1>9, <1>10 DEF IInv

\* The spend is tried again, or its answer becomes the handler's.
LEMMA SpendStep ==
  ASSUME IInv, NEW x \in Links, SpendReturns(x)
  PROVE  IInv'
<1>1. link[x].at = "spending" /\ UNCHANGED <<client, rows, pins, cache, exit, faults>>
  BY DEF SpendReturns
<1>2. /\ x[1] \in Begun /\ link[x] \in Link /\ Kept(x, link[x], CallOf(x), rows, pins)
      /\ link \in [Links -> Link]
  BY <1>1, UsedBegun DEF IInv, Types
<1>3. PICK j, y : j = link[x].tries /\ y = Append(x, j)
  OBVIOUS
<1>4. x \in Outer /\ j \in 1 .. Attempts /\ Sound(CallOf(x), pins)
  BY <1>1, <1>2, <1>3 DEF Kept
<1>5. /\ y = <<x[1], x[2], j>> /\ y \in Inner /\ y \in Links /\ y # x /\ y[1] = x[1]
      /\ CallOf(y) = CallOf(x) /\ link[y] \in Link
      /\ Kept(y, link[y], CallOf(y), rows, pins)
  <2>1. y = <<x[1], x[2], j>> /\ y \in Inner
    BY <1>3, <1>4, NestedNames
  <2>2. y \in Links /\ y # x /\ y[1] = x[1]
    BY <1>4, <2>1, InnerNames, LinkNames
  <2> QED
    BY <1>2, <2>1, <2>2 DEF CallOf, IInv, LinksKept
<1>6. PICK b : b = Behind(y)
  OBVIOUS
<1>7. Fits(y, b)
  <2>1. y[1] \in Begun /\ rows \subseteq rows' /\ pins \subseteq pins'
    BY <1>1, <1>2, <1>5
  <2> QED
    BY <1>5, <1>6, <2>1, BehindFits
<1>8. ASSUME Again(y, j)
      PROVE  Moved
  <2>1. PICK z, l, m : z = Append(x, j + 1) /\ l = [link[x] EXCEPT !.tries = @ + 1] /\ m = Sent("issuer")
    OBVIOUS
  <2>2. j + 1 \in 1 .. Attempts
    BY <1>4, <1>8, HttpServiceAssumption DEF Again
  <2>3. z = <<x[1], x[2], j + 1>> /\ z \in Inner
    BY <1>4, <2>1, <2>2, NestedNames
  <2>4. z \in Links /\ z # x /\ z[1] = x[1] /\ z # y /\ Len(z) = 3
    BY <1>4, <1>5, <2>3, InnerNames, LinkNames
  <2>5. CallOf(z) = CallOf(x) /\ Role(z) = "issuer"
    BY <2>4 DEF CallOf, Role
  <2>6. link' = [link EXCEPT ![x] = l, ![y] = b, ![z] = m]
    BY <1>2, <1>3, <1>6, <1>8, <2>1 DEF SpendReturns
  <2>7. Fits(z, m)
    <3>1. m = Sent(Role(z)) /\ z[1] \in Begun /\ rows \subseteq rows' /\ pins \subseteq pins'
          /\ Sound(CallOf(z), pins)
      BY <1>1, <1>2, <1>4, <2>1, <2>4, <2>5
    <3> QED
      BY <2>4, <3>1, SentFits
  <2>8. Fits(x, l)
    <3>1. PICK n : n = j + 1
      OBVIOUS
    <3>2. n \in Counts /\ n \in 1 .. Attempts
      BY <2>2, <3>1, HttpServiceAssumption DEF Counts
    <3>3. n \in Counts
      BY <3>2
    <3>4. l = [link[x] EXCEPT !.tries = n]
      BY <1>3, <2>1, <3>1
    <3>5. l \in Link /\ l.at = link[x].at /\ l.tries = n /\ l.status = link[x].status
      BY <1>2, <3>3, <3>4 DEF Link
    <3> QED
      BY <1>1, <1>2, <1>4, <3>2, <3>5 DEF Fits, Kept, Served
  <2>9. /\ link' \in [Links -> Link] /\ link'[x] = l /\ link'[y] = b /\ link'[z] = m
        /\ \A w \in Links : w # x /\ w # y /\ w # z => link'[w] = link[w]
    BY <1>2, <1>5, <1>7, <2>4, <2>6, <2>7, <2>8 DEF Fits
  <2> QED
    BY <1>7, <2>7, <2>8, <2>9 DEF Moved
<1>9. ASSUME ~Again(y, j)
      PROVE  Moved
  <2>1. PICK code : code = IF link[y].caller = "late" \/ link[y].at = "lost" THEN 503 ELSE link[y].status
    OBVIOUS
  <2>2. code \in {0} \cup Codes /\ (code = 200 => CallOf(x) \in rows)
    BY <1>5, <2>1 DEF Codes, Link, Kept
  <2>3. PICK l : l = [link[x] EXCEPT !.at = "ran", !.tries = 0, !.status = code]
    OBVIOUS
  <2>4. link' = [link EXCEPT ![x] = l, ![y] = b]
    <3>1. link' = [link EXCEPT ![x].at = "ran", ![x].tries = 0, ![y] = b, ![x].status = code]
      BY <1>3, <1>6, <1>9, <2>1 DEF SpendReturns
    <3> QED
      BY <1>2, <1>5, <2>3, <3>1
  <2>5. Fits(x, l)
    <3>1. 0 \in Counts
      BY HttpServiceAssumption DEF Counts
    <3>2. l \in Link /\ l.at = "ran" /\ l.status = code
      BY <1>2, <2>2, <2>3, <3>1 DEF Link, Served
    <3> QED
      BY <1>1, <1>2, <2>2, <3>2 DEF Fits, Kept, Served
  <2> QED
    BY <1>5, <1>7, <2>4, <2>5, TwoMoves
<1> QED
  BY <1>1, <1>8, <1>9, LinkStep DEF IInv, Types

-------------------------------------------------------------------------------
\* The steps of clients.
LEMMA FreeLineFree ==
  ASSUME NEW c \in Clients, Free(c) # {}
  PROVE  FreeLine(c) \in 1 .. Lines /\ link[<<c, FreeLine(c)>>] = Unused
<1>1. FreeLine(c) \in Free(c)
  BY DEF FreeLine
<1> QED
  BY <1>1 DEF Free

\* A step of a client that keeps its call.
LEMMA CallerStep ==
  ASSUME IInv, Moved, SameCalls, ClientsKept', client' \in [Clients -> Client],
         UNCHANGED <<rows, pins, cache, exit, faults>>
  PROVE  IInv'
<1>1. LinksKept' /\ NothingBefore' /\ ServersLeft'
  BY MovedKeeps, MovedLeaves
<1>2. Types'
  BY DEF IInv, Types, Moved
<1>3. Begun' = Begun
  BY DEF SameCalls, Begun
<1>4. CacheVerified'
  BY DEF IInv, CacheVerified
<1>5. RowsAreCalls'
  <2>1. \A r \in rows' : \E c \in Begun' : r = client'[c].call
    BY <1>3 DEF IInv, RowsAreCalls, SameCalls, Begun
  <2> QED
    BY <1>3, <2>1 DEF IInv, RowsAreCalls
<1> QED
  BY <1>1, <1>2, <1>4, <1>5 DEF IInv

\* rpc() of a client: once more, or with an outcome.
LEMMA ReturnStep ==
  ASSUME IInv, NEW c \in Clients, ClientReturns(c)
  PROVE  IInv'
<1>1. /\ client[c].tries > 0 /\ Over(<<c, client[c].line>>)
      /\ UNCHANGED <<rows, pins, cache, exit, faults>>
  BY DEF ClientReturns
<1>2. /\ c \in Begun /\ client[c].call \in Calls /\ client[c] \in Client
      /\ client \in [Clients -> Client] /\ link \in [Links -> Link]
  BY <1>1 DEF IInv, ClientsKept, Types
<1>3. PICK x : x = <<c, client[c].line>>
  OBVIOUS
<1>4. x \in Outer /\ x \in Links /\ x[1] = c /\ CallOf(x) = client[c].call /\ Len(x) = 2
  BY <1>2, <1>3 DEF Outer, Links, Client, LineNumbers, CallOf
<1>5. Kept(x, link[x], CallOf(x), rows, pins)
  BY <1>4 DEF IInv, LinksKept
<1>6. PICK b : b = Behind(x)
  OBVIOUS
<1>7. Fits(x, b)
  <2>1. x[1] \in Begun /\ rows \subseteq rows' /\ pins \subseteq pins'
    BY <1>1, <1>2, <1>4
  <2> QED
    BY <1>4, <1>6, <2>1, BehindFits
<1>8. CASE Again(x, client[c].tries)
  <2>1. PICK i, y, m : i = FreeLine(c) /\ y = <<c, i>> /\ m = Sent(Role(x))
    OBVIOUS
  <2>2. i \in LineNumbers /\ link[y] = Unused
    BY <1>3, <1>8, <2>1, FreeLineFree DEF ClientReturns, LineNumbers
  <2>3. /\ y \in Outer /\ y \in Links /\ y[1] = c /\ Len(y) = 2
        /\ CallOf(y) = CallOf(x) /\ Role(y) = Role(x)
    BY <1>4, <2>1, <2>2 DEF Outer, Links, CallOf, Role, LineNumbers
  <2>4. x # y
    BY <1>1, <1>3, <2>2 DEF Over, Unused, Ended
  <2>5. link' = [link EXCEPT ![x] = b, ![y] = m]
    BY <1>3, <1>6, <1>8, <2>1 DEF ClientReturns
  <2>6. Fits(y, m)
    <3>1. m = Sent(Role(y)) /\ y[1] \in Begun /\ rows \subseteq rows' /\ pins \subseteq pins'
      BY <1>1, <1>2, <2>1, <2>3
    <3> QED
      BY <2>3, <3>1, SentFits
  <2>7. Moved
    BY <1>4, <1>7, <2>3, <2>4, <2>5, <2>6, TwoMoves
  <2>8. PICK n : n = client[c].tries + 1
    OBVIOUS
  <2>9. n \in Counts /\ n > 0
    BY <1>1, <1>2, <1>8, <2>8, HttpServiceAssumption DEF Again, Client, Counts
  <2>10. PICK a : a = [client[c] EXCEPT !.tries = n, !.line = i]
    OBVIOUS
  <2>11. /\ a \in Client /\ a.call = client[c].call /\ a.outcome = client[c].outcome
         /\ a.tries = n
    <3>1. n \in Counts /\ i \in LineNumbers
      BY <2>2, <2>9
    <3> QED
      BY <1>2, <2>10, <3>1 DEF Client
  <2>12. client' = [client EXCEPT ![c] = a]
    <3>1. client' = [client EXCEPT ![c].tries = n, ![c].line = i]
      BY <1>3, <1>8, <2>1, <2>8 DEF ClientReturns
    <3> QED
      BY <1>2, <2>10, <3>1
  <2>13. a # Ready
    BY <2>9, <2>11 DEF Ready
  <2>14. /\ client' \in [Clients -> Client] /\ client'[c] = a
         /\ \A d \in Clients : d # c => client'[d] = client[d]
    BY <1>2, <2>11, <2>12
  <2>15. SameCalls
    BY <1>2, <2>11, <2>13, <2>14 DEF SameCalls, Begun
  <2>16. ClientsKept'
    BY <1>1, <1>2, <2>11, <2>13, <2>14 DEF IInv, ClientsKept, Begun
  <2> QED
    BY <1>1, <2>7, <2>14, <2>15, <2>16, CallerStep
<1>9. CASE ~Again(x, client[c].tries)
  <2>1. PICK outcome : outcome = IF Succeeded(x) THEN "receipt" ELSE "failed"
    OBVIOUS
  <2>2. outcome \in {"receipt", "failed"} /\ (outcome = "receipt" => client[c].call \in rows)
    BY <1>4, <1>5, <2>1 DEF Succeeded, Kept
  <2>3. link' = [link EXCEPT ![x] = b]
    BY <1>3, <1>6, <1>9 DEF ClientReturns
  <2>4. Moved
    BY <1>4, <1>7, <2>3, OneMoves
  <2>5. PICK a : a = [client[c] EXCEPT !.outcome = outcome]
    OBVIOUS
  <2>6. /\ a \in Client /\ a.call = client[c].call /\ a.outcome = outcome
        /\ a.tries = client[c].tries
    BY <1>2, <2>2, <2>5 DEF Client
  <2>7. client' = [client EXCEPT ![c] = a]
    <3>1. client' = [client EXCEPT ![c].outcome = outcome]
      BY <1>3, <1>9, <2>1 DEF ClientReturns
    <3> QED
      BY <1>2, <2>5, <3>1
  <2>8. a # Ready
    BY <2>2, <2>6 DEF Ready
  <2>9. /\ client' \in [Clients -> Client] /\ client'[c] = a
        /\ \A d \in Clients : d # c => client'[d] = client[d]
    BY <1>2, <2>6, <2>7
  <2>10. SameCalls
    BY <1>2, <2>6, <2>8, <2>9 DEF SameCalls, Begun
  <2>11. ClientsKept'
    BY <1>1, <1>2, <2>2, <2>6, <2>8, <2>9 DEF IInv, ClientsKept, Begun
  <2> QED
    BY <1>1, <2>4, <2>9, <2>10, <2>11, CallerStep
<1> QED
  BY <1>8, <1>9

\* A client begins a call, or repeats the one that failed.
LEMMA StartStep ==
  ASSUME IInv, NEW c \in Clients, NEW call \in Calls, Start(c, call)
  PROVE  IInv'
<1>1. /\ client[c] = Ready \/ (client[c].outcome = "failed" /\ call = client[c].call)
      /\ Free(c) # {} /\ UNCHANGED <<rows, pins, cache, exit, faults>>
  BY DEF Start
<1>2. client[c] \in Client /\ client \in [Clients -> Client] /\ link \in [Links -> Link]
  BY DEF IInv, Types
<1>3. PICK i, y, m : i = FreeLine(c) /\ y = <<c, i>> /\ m = Sent(RoleOfPath(call.path))
  OBVIOUS
<1>4. i \in LineNumbers /\ link[y] = Unused
  BY <1>1, <1>3, FreeLineFree DEF LineNumbers
<1>5. y \in Outer /\ y \in Links /\ y[1] = c /\ Len(y) = 2
  BY <1>3, <1>4 DEF Outer, Links, LineNumbers
<1>6. link' = [link EXCEPT ![y] = m]
  BY <1>3 DEF Start
<1>7. PICK n, a : n = 1 /\ a = [call |-> call, tries |-> n, line |-> i, outcome |-> "none"]
  OBVIOUS
<1>8. n \in Counts /\ n > 0
  BY <1>7, HttpServiceAssumption DEF Counts
<1>9. a \in Client /\ a.call = call /\ a.tries = n /\ a.outcome = "none"
  <2>1. n \in Counts /\ i \in LineNumbers
    BY <1>4, <1>8
  <2> QED
    BY <1>7, <2>1 DEF Client
<1>10. a # Ready
  BY <1>8, <1>9 DEF Ready
<1>11. client' = [client EXCEPT ![c] = a]
  BY <1>3, <1>7 DEF Start
<1>12. /\ client' \in [Clients -> Client] /\ client'[c] = a
       /\ \A d \in Clients : d # c => client'[d] = client[d]
  BY <1>2, <1>9, <1>11
<1>13. CASE client[c] # Ready
  <2>1. call = client[c].call /\ c \in Begun
    BY <1>1, <1>13 DEF Begun
  <2>2. Role(y) = RoleOfPath(call.path)
    BY <1>5, <2>1 DEF Role, RoleOfPath, CallOf
  <2>3. m = Sent(Role(y)) /\ y[1] \in Begun /\ rows \subseteq rows' /\ pins \subseteq pins'
    BY <1>1, <1>3, <1>5, <2>1, <2>2
  <2>4. Fits(y, m)
    BY <1>5, <2>3, SentFits
  <2>5. Moved
    BY <1>5, <1>6, <2>4, OneMoves
  <2>6. SameCalls
    BY <1>9, <1>10, <1>12, <1>13, <2>1 DEF SameCalls
  <2>7. ClientsKept'
    BY <1>1, <1>9, <1>10, <1>12 DEF IInv, ClientsKept, Begun
  <2> QED
    BY <1>1, <1>12, <2>5, <2>6, <2>7, CallerStep
<1>14. CASE client[c] = Ready
  <2>1. c \notin Begun /\ Begun' = Begun \cup {c}
    BY <1>10, <1>12, <1>14 DEF Begun
  <2>2. /\ m \in Link /\ m.status = 0 /\ m.at \in {"sent", "lost"}
        /\ m.at = "sent" => Accepting(RoleOfPath(call.path))
    <3>1. CASE Accepting(RoleOfPath(call.path))
      BY <1>3, <3>1, HttpServiceAssumption DEF Sent, Unused, Link, Served, Ended, Counts
    <3>2. CASE ~Accepting(RoleOfPath(call.path))
      BY <1>3, <3>2, HttpServiceAssumption DEF Sent, Unused, Link, Served, Ended, Counts
    <3> QED
      BY <3>1, <3>2
  <2>3. /\ link' \in [Links -> Link] /\ link'[y] = m
        /\ \A x \in Links : x # y => link'[x] = link[x]
    BY <1>2, <1>5, <1>6, <2>2
  <2>4. ASSUME NEW x \in Links, x[1] = c
        PROVE  link[x] = Unused
    BY <2>1, <2>4 DEF IInv, NothingBefore
  <2>5. ASSUME NEW x \in Links, x[1] # c
        PROVE  /\ link'[x] = link[x] /\ client'[x[1]] = client[x[1]]
               /\ Role(x)' = Role(x)
    <3>1. link'[x] = link[x] /\ client'[x[1]] = client[x[1]]
      BY <1>5, <1>12, <2>3, <2>5, LinkNames
    <3> QED
      BY <3>1 DEF Role, CallOf
  <2>6. LinksKept'
    <3>1. ASSUME NEW x \in Links
          PROVE  Kept(x, link'[x], client'[x[1]].call, rows', pins')
      <4>1. CASE x[1] # c
        BY <1>1, <2>5, <4>1 DEF IInv, LinksKept, CallOf
      <4>2. CASE x[1] = c
        <5>1. link'[x] \in {m, Unused}
          BY <2>3, <2>4, <4>2
        <5>2. x = y \/ link'[x] = Unused
          BY <2>3, <2>4, <4>2
        <5>3. y \notin Inner
          BY <1>5, InnerNames
        <5> QED
          BY <2>2, <2>3, <5>2, <5>3 DEF Kept, Unused
      <4> QED
        BY <4>1, <4>2
    <3> QED
      BY <3>1 DEF LinksKept, CallOf
  <2>7. NothingBefore'
    BY <2>1, <2>5 DEF IInv, NothingBefore
  <2>8. ASSUME NEW role, NEW places, places \in {{"sent"}, Served}, Left(role, places),
               "sent" \in places => ~Accepting(role)
        PROVE  Left(role, places)'
    <3>1. ASSUME NEW x \in Links, link'[x].at \in places
          PROVE  Role(x)' # role
      <4>1. CASE x[1] # c
        BY <2>5, <2>8, <3>1, <4>1 DEF Left
      <4>2. CASE x[1] = c
        <5>1. x = y /\ m.at = "sent" /\ "sent" \in places
          BY <2>2, <2>3, <2>4, <2>8, <3>1, <4>2 DEF Unused, Served
        <5>2. Role(y)' = RoleOfPath(call.path)
          BY <1>5, <1>9, <1>12 DEF Role, RoleOfPath, CallOf
        <5> QED
          BY <2>2, <2>8, <5>1, <5>2
      <4> QED
        BY <4>1, <4>2
    <3> QED
      BY <3>1 DEF Left
  <2>9. ServersLeft'
    <3>1. exit' # "open" => Left("issuer", {"sent"})'
      BY <1>1, <2>8 DEF IInv, ServersLeft, Accepting
    <3>2. exit' \in {"publisher", "closed"} => Left("issuer", Served)' /\ Left("publisher", {"sent"})'
      BY <1>1, <2>8 DEF IInv, ServersLeft, Accepting, Served
    <3>3. exit' = "closed" => Left("publisher", Served)'
      BY <1>1, <2>8 DEF IInv, ServersLeft, Accepting, Served
    <3> QED
      BY <3>1, <3>2, <3>3 DEF ServersLeft
  <2>10. Types'
    BY <1>1, <1>12, <2>3 DEF IInv, Types
  <2>11. ClientsKept'
    BY <1>1, <1>9, <1>10, <1>12, <2>1 DEF IInv, ClientsKept, Begun
  <2>12. RowsAreCalls'
    <3>1. IsFiniteSet(Begun \cup {c})
      BY FS_AddElement DEF IInv, RowsAreCalls
    <3>2. \A d \in Begun : client'[d] = client[d]
      BY <1>12, <2>1 DEF Begun
    <3> QED
      BY <1>1, <2>1, <3>1, <3>2 DEF IInv, RowsAreCalls
  <2>13. CacheVerified'
    BY <1>1 DEF IInv, CacheVerified
  <2> QED
    BY <2>6, <2>7, <2>9, <2>10, <2>11, <2>12, <2>13 DEF IInv
<1> QED
  BY <1>13, <1>14

-------------------------------------------------------------------------------
\* A new pin verifies what the old ones did.
LEMMA RotateStep ==
  ASSUME IInv, Rotate
  PROVE  IInv'
<1>1. pins \subseteq pins' /\ pins' \subseteq Kids /\ UNCHANGED <<client, link, rows, cache, exit, faults>>
  BY DEF Rotate, IInv, Types
<1>2. Moved /\ SameCalls
  BY <1>1 DEF Moved, SameCalls, IInv, Types
<1>3. LinksKept' /\ NothingBefore' /\ ServersLeft'
  BY <1>1, <1>2, MovedKeeps, MovedLeaves
<1>4. Types' /\ ClientsKept' /\ RowsAreCalls'
  BY <1>1 DEF IInv, Types, ClientsKept, RowsAreCalls, Begun
<1>5. CacheVerified'
  BY <1>1 DEF IInv, CacheVerified
<1> QED
  BY <1>3, <1>4, <1>5 DEF IInv

\* The closed socket of a server leaves nobody in its backlog.
LEMMA ResetMoves ==
  ASSUME IInv, NEW role, link' = Reset(role), UNCHANGED <<client, rows, pins>>
  PROVE  /\ Moved /\ Left(role, {"sent"})'
         /\ \A x \in Links : link'[x].at = "sent" \/ link'[x].at \in Served => link'[x] = link[x]
<1>1. link \in [Links -> Link] /\ DOMAIN link = Links
  BY DEF IInv, Types
<1>2. ASSUME NEW x \in Links
      PROVE  /\ \/ link'[x] = link[x] /\ (link[x].at # "sent" \/ Role(x) # role)
                \/ Fits(x, link'[x]) /\ link'[x].at \in {"unused", "lost"}
             /\ link'[x] \in Link
  <2>1. CASE link[x].at # "sent" \/ Role(x) # role
    BY <1>1, <2>1 DEF Reset
  <2>2. CASE link[x].at = "sent" /\ Role(x) = role
    <3>1. x[1] \in Begun /\ link[x] \in Link /\ Kept(x, link[x], CallOf(x), rows, pins)
      BY <2>2, UsedBegun
    <3>2. link'[x] = Unused \/ link'[x] = [link[x] EXCEPT !.at = "lost"]
      BY <1>1, <2>2 DEF Reset
    <3>3. /\ link'[x] \in Link /\ link'[x].at \in {"unused", "lost"}
          /\ link'[x].status \in {0, link[x].status}
      BY <3>1, <3>2, HttpServiceAssumption DEF Link, Unused, Served, Ended, Counts
    <3>4. Fits(x, link'[x])
      BY <2>2, <3>1, <3>3 DEF Fits, Kept, Served
    <3> QED
      BY <3>3, <3>4
  <2> QED
    BY <2>1, <2>2
<1>3. link' \in [Links -> Link]
  <2>1. link' = [x \in Links |-> link'[x]]
    BY <1>1 DEF Reset
  <2> QED
    BY <1>2, <2>1
<1>4. Moved
  BY <1>2, <1>3 DEF Moved
<1>5. \A x \in Links : Role(x)' = Role(x)
  BY DEF Role, CallOf
<1>6. Left(role, {"sent"})'
  BY <1>2, <1>5 DEF Left
<1> QED
  BY <1>2, <1>4, <1>6 DEF Served

\* __exit__ leaves the issuer, then the publisher, then the ledger.
LEMMA ExitStep ==
  ASSUME IInv, Exit
  PROVE  IInv'
<1>1. UNCHANGED <<client, rows, pins, cache, faults>>
  BY DEF Exit
<1>2. SameCalls /\ \A x \in Links : Role(x)' = Role(x)
  BY <1>1 DEF SameCalls, Role, CallOf
<1>3. exit \in {"open", "issuer", "publisher", "closed"}
  BY DEF IInv, Types
<1>4. Moved /\ exit' \in {"issuer", "publisher", "closed"} /\ ServersLeft'
  <2>1. CASE exit = "open" /\ exit' = "issuer" /\ link' = Reset("issuer")
    BY <1>1, <2>1, ResetMoves DEF ServersLeft
  <2>2. CASE exit = "issuer" /\ Joined("issuer") /\ exit' = "publisher" /\ link' = Reset("publisher")
    <3>1. /\ Moved /\ Left("publisher", {"sent"})'
          /\ \A x \in Links : link'[x].at = "sent" \/ link'[x].at \in Served => link'[x] = link[x]
      BY <1>1, <2>2, ResetMoves
    <3>2. Left("issuer", Served)'
      BY <1>2, <2>2, <3>1 DEF Joined, Serving, Left, Links
    <3>3. Left("issuer", {"sent"})'
      BY <1>2, <2>2, <3>1 DEF IInv, ServersLeft, Left
    <3> QED
      BY <2>2, <3>1, <3>2, <3>3 DEF ServersLeft
  <2>3. CASE exit = "publisher" /\ Joined("publisher") /\ exit' = "closed" /\ UNCHANGED link
    <3>1. Moved
      BY <2>3 DEF Moved, IInv, Types
    <3>2. Left("publisher", Served)
      BY <2>3 DEF Joined, Serving, Left, Links
    <3>3. ASSUME NEW role, NEW places, Left(role, places)
          PROVE  Left(role, places)'
      BY <1>2, <2>3, <3>3 DEF Left
    <3>4. Left("issuer", {"sent"}) /\ Left("issuer", Served) /\ Left("publisher", {"sent"})
      BY <2>3 DEF IInv, ServersLeft
    <3> QED
      BY <2>3, <3>1, <3>2, <3>3, <3>4 DEF ServersLeft
  <2> QED
    BY <2>1, <2>2, <2>3 DEF Exit
<1>5. LinksKept' /\ NothingBefore'
  BY <1>1, <1>2, <1>4, MovedKeeps
<1>6. Types'
  BY <1>1, <1>4 DEF IInv, Types, Moved
<1>7. ClientsKept' /\ CacheVerified' /\ RowsAreCalls'
  BY <1>1 DEF IInv, ClientsKept, CacheVerified, RowsAreCalls, Begun
<1> QED
  BY <1>4, <1>5, <1>6, <1>7 DEF IInv

-------------------------------------------------------------------------------
\* The invariant holds at the start.
LEMMA InitIInv ==
  ASSUME Init
  PROVE  IInv
<1>1. /\ client = [c \in Clients |-> Ready] /\ link = [x \in Links |-> Unused]
      /\ rows = {} /\ pins \subseteq Kids /\ cache = {} /\ exit = "open" /\ faults = MaxFaults
  BY DEF Init, Links
<1>2. Begun = {}
  BY <1>1 DEF Begun
<1>3. Ready \in Client
  BY HttpServiceAssumption DEF Ready, Client, Counts, LineNumbers
<1>4. Unused \in Link
  BY HttpServiceAssumption DEF Unused, Link, Counts
<1>5. IsFiniteSet(cache) /\ Cardinality(cache) <= CacheSize
  <2>1. IsFiniteSet({}) /\ Cardinality({}) = 0
    BY FS_EmptySet
  <2> QED
    BY <1>1, <2>1, HttpServiceAssumption
<1>6. Types
  BY <1>1, <1>3, <1>4, <1>5, HttpServiceAssumption DEF Types
<1>7. LinksKept /\ NothingBefore
  BY <1>1 DEF LinksKept, NothingBefore, Kept, Unused
<1>8. ClientsKept
  BY <1>1, <1>2 DEF ClientsKept, Ready
<1>9. CacheVerified
  BY <1>1 DEF CacheVerified
<1>10. RowsAreCalls
  BY <1>1, <1>2, FS_EmptySet DEF RowsAreCalls
<1>11. ServersLeft
  BY <1>1 DEF ServersLeft
<1> QED
  BY <1>6, <1>7, <1>8, <1>9, <1>10, <1>11 DEF IInv

\* Every step keeps the invariant.
LEMMA NextIInv ==
  ASSUME IInv, [Next]_vars
  PROVE  IInv'
<1>1. ASSUME NEW c \in Clients, ClientReturns(c)
      PROVE  IInv'
  BY <1>1, ReturnStep
<1>2. ASSUME NEW c \in Clients, NEW call \in Calls, Start(c, call)
      PROVE  IInv'
  BY <1>2, StartStep
<1>3. ASSUME NEW x \in Links, TimeOut(x) \/ Serve(x)
      PROVE  IInv'
  BY <1>3, TimeOutStep, AcceptStep, IssuerStep, PublisherStep, SpendStep, ReplyStep DEF Serve
<1>4. CASE UNCHANGED vars
  <2>1. UNCHANGED <<client, rows, pins, cache, exit>> /\ faults' = faults /\ link' = link
    BY <1>4 DEF vars
  <2>2. Moved /\ faults' \in 0 .. MaxFaults
    BY <2>1 DEF Moved, IInv, Types
  <2> QED
    BY <2>1, <2>2, LinkStep
<1> QED
  BY <1>1, <1>2, <1>3, <1>4, RotateStep, ExitStep DEF Next, Links

\* What is claimed in IInv of every state holds in every reachable one.
THEOREM ServiceInOrder == Spec => []IInv
<1>1. Init => IInv
  BY InitIInv
<1>2. IInv /\ [Next]_vars => IInv'
  BY NextIInv
<1> QED
  BY <1>1, <1>2, PTL DEF Spec

-------------------------------------------------------------------------------
\* The rows have different names, those of calls that clients began.
LEMMA RowsAreFew ==
  ASSUME IInv
  PROVE  ChargesAreCalls
<1>1. PICK names : names = {Name(client[c].call) : c \in Begun}
  OBVIOUS
<1>2. IsFiniteSet(names)
  <2>1. PICK f : f = [c \in Begun |-> Name(client[c].call)]
    OBVIOUS
  <2>2. f \in Surjection(Begun, names)
    BY <1>1, <2>1 DEF Surjection
  <2> QED
    BY <2>2, FS_Surjection DEF IInv, RowsAreCalls
<1>3. PICK g : g = [r \in rows |-> Name(r)]
  OBVIOUS
<1>4. g \in Injection(rows, names)
  <2>1. \A r \in rows : Name(r) \in names
    BY <1>1 DEF IInv, RowsAreCalls
  <2>2. \A r, s \in rows : g[r] = g[s] => r = s
    BY <1>3 DEF IInv, RowsAreCalls
  <2>3. g \in [rows -> names] /\ DOMAIN g = rows
    BY <1>3, <2>1
  <2> QED
    BY <2>2, <2>3 DEF Injection, IsInjective
<1>5. Cardinality(rows) <= Cardinality(names)
  BY <1>2, <1>4, FS_Injection
<1>6. names = {<<client[c].call.path, client[c].call.buyer, client[c].call.request>> :
                 c \in {d \in Clients : client[d] # Ready}}
  BY <1>1 DEF Begun, Name
<1> QED
  BY <1>5, <1>6 DEF ChargesAreCalls

\* However often a call is tried, at both of its levels, it is charged once, and
\* whoever has a receipt was charged: OneChargePerCall of the runs.
THEOREM ChargedOnce == Spec => []OneChargePerCall
<1>1. IInv => TypeOK
  <2>1. ASSUME IInv, NEW c \in Clients
        PROVE  /\ client[c].tries \in 0 .. Attempts /\ client[c].line \in 1 .. Lines
               /\ client[c].outcome \in {"none", "receipt", "failed"}
    BY <2>1 DEF IInv, Types, Client, Counts, LineNumbers
  <2>2. ASSUME IInv, NEW x \in Links
        PROVE  /\ link[x].at \in {"unused", "sent"} \cup Served \cup Ended
               /\ link[x].status \in {0, 200, 400, 503}
    <3>1. link[x] \in Link
      BY <2>2 DEF IInv, Types
    <3> QED
      BY <3>1 DEF Link, Codes
  <2> QED
    BY <2>1, <2>2 DEF IInv, Types, TypeOK, Links
<1>2. IInv => ChargesAreCalls
  BY RowsAreFew
<1>3. IInv => ReceiptsAreCommitted
  BY DEF IInv, ClientsKept, ReceiptsAreCommitted
<1>4. IInv => OneChargePerCall
  BY <1>1, <1>2, <1>3 DEF OneChargePerCall
<1> QED
  BY <1>4, ServiceInOrder, PTL

\* The publisher asks the issuer only for what a pinned key signed for this very
\* request, whether it looked at the token or remembered it.
THEOREM SpentForVerified == Spec => []SpentTokensVerified
<1>1. ASSUME IInv, NEW x \in Inner, link[x].at # "unused", CallOf(x).token # NoToken
      PROVE  /\ CallOf(x).token.genuine /\ CallOf(x).token.kid \in pins
             /\ CallOf(x).token.buyer = CallOf(x).buyer /\ CallOf(x).token.book = CallOf(x).ask
  <2>1. Kept(x, link[x], CallOf(x), rows, pins)
    BY <1>1, InnerNames DEF IInv, LinksKept
  <2> QED
    BY <1>1, <2>1 DEF Kept, Sound, Named
<1>2. IInv => SpentTokensVerified
  BY <1>1 DEF SpentTokensVerified
<1> QED
  BY <1>2, ServiceInOrder, PTL

\* The ledger is closed when neither server has anybody at work or waiting: the
\* safety part of CallsAndExitEnd.
THEOREM ClosedWhenQuiet == Spec => []ClosedMeansQuiet
<1>1. ASSUME IInv, exit = "closed", NEW x \in Links
      PROVE  link[x].at \notin Served \cup {"sent"}
  <2>1. Role(x) \in {"issuer", "publisher"}
    BY DEF Role
  <2> QED
    BY <1>1, <2>1 DEF IInv, ServersLeft, Left
<1>2. IInv => ClosedMeansQuiet
  BY <1>1 DEF ClosedMeansQuiet, Links
<1> QED
  BY <1>2, ServiceInOrder, PTL

===============================================================================
