---------------------------- MODULE SealedRecords ----------------------------
(***************************************************************************)
(* Exports sealed as one signed root or one signed list of hashes          *)
(* (src/python/batchcrypto/receipts.py, manifests.py), and a consumer with *)
(* a pinned key, key id and context: a ReceiptVerifier with its cache of   *)
(* verified roots, and the handle open_manifest returned last.  Issuers    *)
(* also sign batches of other payloads with the same function.             *)
(*                                                                         *)
(* What reaches the consumer is assembled from parts of what was sealed:   *)
(* any header and payload with any signature, in either form of s, and any *)
(* inclusion path of any export.                                           *)
(***************************************************************************)
EXTENDS MerkleTree, Jws

CONSTANTS
  Keys, KeyIds, Contexts,
  Exports,     \* sequences of records
  Pinned,      \* the consumer's trust: its key, key id and context
  CacheSize,   \* roots a verifier keeps (8)
  MaxSealed,   \* bound: tokens sealed
  Nothing

ASSUME SealedRecordsAssumption ==
  /\ Pinned \in [key : Keys, kid : KeyIds, context : Contexts]
  /\ CacheSize \in Nat \ {0} /\ MaxSealed \in Nat
  /\ \A export \in Exports : export \in Seq(ToSet(export)) /\ Len(export) > 0

VARIABLES
  sealed, \* history: the exports sealed, with who signed and the token returned
  batches,\* history: batches of claims signed, with the tokens returned
  cache,  \* ReceiptVerifier._cache, oldest first
  handle  \* the VerifiedManifest opened last

vars == <<sealed, batches, cache, handle>>

Sha(record) == <<2, record>>

RootPayload(export, context) ==
  [profile |-> "receipt", context |-> context, count |-> Len(export),
   root |-> Tree(export).root]

ListPayload(export, context) ==
  [profile |-> "manifest", context |-> context, count |-> Len(export),
   hashes |-> [i \in DOMAIN export |-> Sha(export[i])]]

Payloads(export, context) == {RootPayload(export, context), ListPayload(export, context)}

Init ==
  /\ sealed = {} /\ batches = {}
  /\ cache = <<>>
  /\ handle = Nothing

\* seal_records and seal_manifest, with a callback that may return anything.
Seal(key, kid, context, export) ==
  /\ Cardinality(sealed) < MaxSealed
  /\ \E payload \in Payloads(export, context) :
       LET inputs == <<Input(kid, payload)>>
       IN \E out \in Outputs(key, inputs) :
            /\ Signed(inputs, out)
            /\ \E token \in ToSet(Tokens(inputs, out)) :
                 sealed' = sealed \cup {[export |-> export, key |-> key, token |-> token]}
  /\ UNCHANGED <<batches, cache, handle>>

\* A batch of two claims, here named by their places.
SignBatch(key, kid) ==
  /\ batches = {}
  /\ LET inputs == <<Input(kid, "first"), Input(kid, "second")>>
     IN \E out \in Outputs(key, inputs) :
          /\ Signed(inputs, out)
          /\ batches' = {[inputs |-> inputs, tokens |-> Tokens(inputs, out)]}
  /\ UNCHANGED <<sealed, cache, handle>>

-------------------------------------------------------------------------------
\* Tokens that can be put together from parts of the sealed ones.
Wire ==
  {[input |-> x.token.input, signature |-> [y.token.signature EXCEPT !.form = form]] :
     x \in sealed, y \in sealed, form \in {"low", "high"}}

\* Mutant: the context of the payload is not compared.
RootTrusted_AnyContext(token) ==
  /\ token.input.kid = Pinned.kid
  /\ token.input.payload.profile = "receipt"
  /\ Verifies(token, Pinned.key)

RootTrusted(token) ==
  /\ token.input.kid = Pinned.kid
  /\ token.input.payload.profile = "receipt"
  /\ token.input.payload.context = Pinned.context
  /\ Verifies(token, Pinned.key)

Answer(token) == [root |-> token.input.payload.root, count |-> token.input.payload.count]

Cached(token) == \E i \in DOMAIN cache : cache[i].token = token

\* Mutant: an entry is found by its header and payload, whatever its signature.
Hit_ByPayload(token) == \E i \in DOMAIN cache : cache[i].token.input = token.input

Hit(token) == Cached(token)

\* move_to_end of the i-th entry.
Touched(i) == Append(RemoveAt(cache, i), cache[i])

Inserted(token) == Append(cache, [token |-> token, answer |-> Answer(token)])

\* Mutant: the bound is checked before the insertion.
Kept_OneMore(entries) ==
  IF Len(entries) > CacheSize + 1 THEN Tail(entries) ELSE entries

Kept(entries) == IF Len(entries) > CacheSize THEN Tail(entries) ELSE entries

\* _manifest: a hit is moved to the end, a verified token inserted.
LookUp(token) ==
  /\ IF Hit(token) THEN \E i \in DOMAIN cache : cache[i].token = token /\ cache' = Touched(i)
     ELSE RootTrusted(token) /\ cache' = Kept(Inserted(token))
  /\ UNCHANGED <<sealed, batches, handle>>

\* What _manifest returns for a token, unless it raises: with a hit, what is on record.
Manifests(token) ==
  IF Hit(token) THEN {cache[i].answer : i \in {j \in DOMAIN cache : cache[j].token = token}}
  ELSE {Answer(t) : t \in {u \in {token} : RootTrusted(u)}}

\* What verify() answers, with the cache as it is.
ReceiptAccepted(record, index, expected, path, token) ==
  /\ index = expected
  /\ \E manifest \in Manifests(token) :
       expected < manifest.count /\ Included(record, expected, manifest.count, path, manifest.root)

-------------------------------------------------------------------------------
ListTrusted(token) ==
  /\ token.input.kid = Pinned.kid
  /\ Verifies(token, Pinned.key)
  /\ token.input.payload.profile = "manifest"
  /\ token.input.payload.context = Pinned.context

\* open_manifest returns a handle or None.
Open(token) ==
  /\ handle' = IF ListTrusted(token) THEN token.input.payload.hashes ELSE Nothing
  /\ UNCHANGED <<sealed, batches, cache>>

RecordAccepted(record, expected) ==
  expected \in 0 .. Len(handle) - 1 /\ handle[expected + 1] = Sha(record)

\* Mutant: the records present are checked, their number is not.
ExportAccepted_Prefix(records) ==
  \A i \in DOMAIN records : RecordAccepted(records[i], i - 1)

ExportAccepted(records) ==
  /\ Len(records) = Len(handle)
  /\ \A i \in DOMAIN records : RecordAccepted(records[i], i - 1)

Next ==
  \/ \E key \in Keys, kid \in KeyIds, context \in Contexts, export \in Exports :
       Seal(key, kid, context, export)
  \/ \E key \in Keys, kid \in KeyIds : SignBatch(key, kid)
  \/ \E token \in Wire : LookUp(token) \/ Open(token)

Spec == Init /\ [][Next]_vars

-------------------------------------------------------------------------------
Trusted(x) ==
  x.key = Pinned.key /\ x.token.input.kid = Pinned.kid
  /\ x.token.input.payload.context = Pinned.context

Records == UNION {ToSet(export) : export \in Exports}
Paths   == UNION {LET paths == Tree(export).paths IN {paths[i] : i \in DOMAIN paths} :
                    export \in Exports}
Indexes == UNION {0 .. Len(export) : export \in Exports}

TypeOK ==
  /\ Cardinality(sealed) <= MaxSealed
  /\ Len(cache) <= CacheSize
  /\ \A i, j \in DOMAIN cache : cache[i].token = cache[j].token => i = j
  /\ handle # Nothing => \E export \in Exports : DOMAIN handle = DOMAIN export

\* The inclusion check accepts a record only at its own place of an export, with
\* whatever path of any export it is sent.
TreeSound ==
  \A export \in Exports, record \in Records, index \in Indexes, path \in Paths :
    index < Len(export) /\ Included(record, index, Len(export), path, Tree(export).root)
      => export[index + 1] = record

\* A receipt that is accepted, whatever the cache holds, is for the record at
\* that position of an export the pinned key sealed in this context under this
\* key id: never of another export, context, key or profile.
ReceiptProvesRecord ==
  \A token \in Wire, record \in Records, index \in Indexes, path \in Paths :
    ReceiptAccepted(record, index, index, path, token) =>
      \E x \in sealed : /\ Trusted(x) /\ x.token = token
                        /\ index < Len(x.export) /\ x.export[index + 1] = record

\* A hit answers exactly what the verification it skips would have answered, and
\* the cache keeps to its bound, with one entry for a token.
CacheTransparent ==
  TypeOK /\ \A token \in Wire :
              Hit(token) => RootTrusted(token) /\ Manifests(token) = {Answer(token)}

\* The receipts of every export that an honest callback signed are accepted.
SealedReceiptsAccepted ==
  \A x \in sealed :
    Trusted(x) /\ x.token.input.payload.profile = "receipt"
    /\ x.token.signature = Signature(x.key, x.token.input, "low") =>
      \A i \in 0 .. Len(x.export) - 1 :
        ReceiptAccepted(x.export[i + 1], i, i, Tree(x.export).paths[i], x.token)

\* An opened manifest accepts one whole export, in its order and number, and the
\* pinned key sealed that export in this context.
ManifestProvesExport ==
  handle # Nothing =>
    \A export \in Exports \cup {SubSeq(e, 1, Len(e) - 1) : e \in Exports} :
      ExportAccepted(export) =>
        \E x \in sealed : Trusted(x) /\ x.export = export

\* A batch is signed as a whole or not at all: a token for every payload, in
\* their order, each of the one form that consumers accept.
BatchesAreWhole ==
  \A batch \in batches :
    /\ Len(batch.tokens) = Len(batch.inputs)
    /\ \A i \in DOMAIN batch.inputs :
         batch.tokens[i].input = batch.inputs[i] /\ WellFormed(batch.tokens[i].signature)
===============================================================================
