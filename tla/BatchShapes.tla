----------------------------- MODULE BatchShapes ------------------------------
(***************************************************************************)
(* Every batch of a few records around the limits, grown one record at a   *)
(* time: plain texts, texts sealed here under this or another key, and     *)
(* texts cut short, with nonces that repeat.                               *)
(***************************************************************************)
EXTENDS Batches

CONSTANTS
  Sizes,    \* sizes of plain texts
  AadSizes, \* sizes of AADs
  Scalars   \* values of keys, out of range ones included

VARIABLES key, records

BatchKeys   == {Bytes(32, v) : v \in Scalars} \cup {Bytes(31, 1)}
Plain  == {Bytes(n, <<"plain">>) : n \in Sizes}
Record == [nonce : {Bytes(12, 1), Bytes(12, 2)}, data : Plain, aad : {Bytes(n, "aad") : n \in AadSizes}]
Simple == [nonce |-> Bytes(12, 3), data |-> Bytes(0, <<"plain">>), aad |-> Bytes(0, "aad")]

\* Records as plain texts, as this key or another sealed them, under another
\* nonce, or cut within the tag; and a nonce that is too short.
Inputs ==
  Record
  \cup {[r EXCEPT !.data = Sealed(k, r)] : r \in Record, k \in {Bytes(32, 1), Bytes(32, 2)}}
  \cup {[Simple EXCEPT !.data = Sealed(Bytes(32, 1), r)] : r \in Record}
  \cup {[Simple EXCEPT !.data.size = Tag - 1], [Simple EXCEPT !.nonce.size = 11]}

Init == key \in BatchKeys /\ records = <<>>

\* What exceeds the limit by one record needs no variety.
Next ==
  /\ Len(records) <= MaxBatch
  /\ \E r \in IF Len(records) = MaxBatch THEN {Simple} ELSE Inputs : records' = Append(records, r)
  /\ UNCHANGED key

-------------------------------------------------------------------------------
Datas == Each(records, LAMBDA r : r.data)
AsDigests == Each(records, LAMBDA r : Bytes(32, r.data.size))
GoodKey == key.size = 32
GoodNonces == \A i \in 1 .. Len(records) : records[i].nonce.size = 12

\* The bindings and the engine draw every limit at the same place: a batch that
\* passes the one is never refused by the other, whichever runs its checks, so
\* "invalid" from a live context always means the slot and never the shape.
SameVerdict ==
  /\ GoodKey /\ GoodNonces => \A opening \in BOOLEAN :
       Records(key, records, opening) <=> NativeAead(records, opening)
  /\ Messages(Datas) <=> NativeHash(Datas)
  /\ Digests(key, AsDigests) => NativeSign(key, AsDigests)
  /\ GoodKey /\ records # <<>> /\ NativeSign(key, AsDigests) => Digests(key, AsDigests)

\* The CUDA backend gives what the CPU backend gives: the same refusals, and the
\* same bytes or None in the same places of the list.
BackendsAgree ==
  /\ CudaAead(key, records, FALSE) = CpuSeal(key, records)
  /\ CudaAead(key, records, TRUE) = CpuOpen(key, records)

\* The signatures of the two backends are the same, and low-s.
SignaturesAgree ==
  /\ CudaSign(key, AsDigests) = CpuSign(key, AsDigests)
  /\ \A i \in 1 .. Len(CudaSign(key, AsDigests).out) : 2 * CudaSign(key, AsDigests).out[i] <= Order

\* No batch is sealed that cannot be opened again: the limits are of the plain
\* text, tags and totals included, and every record comes back.
SealedCanBeOpened ==
  LET sealed == CpuSeal(key, records)
      again  == [i \in 1 .. Len(records) |-> [records[i] EXCEPT !.data = sealed.out[i]]]
  IN sealed.ok => CpuOpen(key, again) = Listed(Datas)
===============================================================================
