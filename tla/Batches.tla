-------------------------------- MODULE Batches --------------------------------
(***************************************************************************)
(* The shapes of batches: what the Python bindings accept                  *)
(* (src/python/batchcrypto/__init__.py), what the engine accepts after     *)
(* them (src/src/engine/crypto_engine.cu), and what the two backends make  *)
(* of a batch.  Byte strings are a size and an abstract content; AES-GCM   *)
(* is symbolic: a sealed text opens under its own key, nonce and AAD only. *)
(***************************************************************************)
EXTENDS Totals, SequencesExt

CONSTANTS
  MaxBatch, MaxPayload, MaxAad, \* the public limits
  MaxWork,                      \* 64 MiB of working data
  Order                         \* of P-256: scalars are 1 .. Order - 1

Tag == 16

Sum(s) == Total(s, DOMAIN s)
Each(s, Op(_)) == [i \in 1 .. Len(s) |-> Op(s[i])]

\* A record is [nonce, data, aad], each a byte string [size, of].
Bytes(size, of) == [size |-> size, of |-> of]
Sealed(key, r) == Bytes(r.data.size + Tag, <<"sealed", key, r.nonce, r.aad, r.data>>)
Genuine(key, r) ==
  /\ Len(r.data.of) = 5
  /\ r.data = Sealed(key, [r EXCEPT !.data = r.data.of[5]])
Garbled(size) == Bytes(size, <<"garbled">>)
None == Bytes(0, <<"None">>)

-------------------------------------------------------------------------------
(* What the bindings accept. *)

BatchOk(items) == Len(items) <= MaxBatch

\* Mutant: a sealed record is measured with its tag.
PayloadSize_WithTag(r, opening) == r.data.size

PayloadSize(r, opening) == r.data.size - (IF opening THEN Tag ELSE 0)

WorkOf(r, opening) == 2 * PayloadSize(r, opening) + 16 + r.aad.size

Records(key, records, opening) ==
  /\ key.size = 32
  /\ BatchOk(records)
  /\ \A i \in 1 .. Len(records) : LET r == records[i] IN
       /\ r.nonce.size = 12 /\ r.aad.size <= MaxAad
       /\ PayloadSize(r, opening) \in 0 .. MaxPayload
       /\ opening \/ \A j \in 1 .. i - 1 : records[j].nonce # r.nonce
  /\ Sum(Each(records, LAMBDA r : WorkOf(r, opening))) <= MaxWork

Digests(key, digests) ==
  /\ key.size = 32 /\ key.of \in 1 .. Order - 1
  /\ BatchOk(digests)
  /\ \A i \in 1 .. Len(digests) : digests[i].size = 32

\* Mutant: the digests that come out are not counted as working data.
Messages_InputOnly(messages) ==
  /\ BatchOk(messages)
  /\ \A i \in 1 .. Len(messages) : messages[i].size <= MaxPayload
  /\ Sum(Each(messages, LAMBDA x : x.size)) <= MaxWork

Messages(messages) ==
  /\ BatchOk(messages)
  /\ \A i \in 1 .. Len(messages) : messages[i].size <= MaxPayload
  /\ Sum(Each(messages, LAMBDA x : x.size)) + 32 * Len(messages) <= MaxWork

-------------------------------------------------------------------------------
(* What the engine accepts: the loops that pack a batch. *)

InputSize(r)  == r.data.size
OutputSize(r, opening) == PayloadSize(r, opening) + (IF opening THEN 0 ELSE Tag)

NativeAead(records, opening) ==
  /\ Len(records) <= MaxBatch
  /\ \A i \in 1 .. Len(records) : LET r == records[i] IN
       /\ opening => r.data.size >= Tag
       /\ PayloadSize(r, opening) <= MaxPayload /\ r.aad.size <= MaxAad
       /\ opening \/ r.nonce \notin {records[j].nonce : j \in 1 .. i - 1}
       /\ LET packed == SubSeq(records, 1, i) IN
          Sum(Each(packed, InputSize)) + Sum(Each(packed, LAMBDA x : OutputSize(x, opening)))
            + Sum(Each(packed, LAMBDA x : x.aad.size)) <= MaxWork

NativeSign(key, digests) ==
  digests # <<>> => Len(digests) <= MaxBatch /\ key.of # 0 /\ key.of < Order

NativeHash(messages) ==
  /\ Len(messages) <= MaxBatch
  /\ \A i \in 1 .. Len(messages) :
       /\ messages[i].size <= MaxPayload
       /\ Sum(Each(SubSeq(messages, 1, i), LAMBDA x : x.size)) + 32 * Len(messages) <= MaxWork

-------------------------------------------------------------------------------
(* The two backends: a result is a list, or a refusal. *)

Refused == [ok |-> FALSE, out |-> <<>>]
Listed(out) == [ok |-> TRUE, out |-> out]

CpuSeal(key, records) ==
  IF Records(key, records, FALSE) THEN Listed(Each(records, LAMBDA r : Sealed(key, r))) ELSE Refused

CpuOpen(key, records) ==
  IF Records(key, records, TRUE)
  THEN Listed(Each(records, LAMBDA r : IF Genuine(key, r) THEN r.data.of[5] ELSE None))
  ELSE Refused

\* What a device that works leaves in the output and the status of an item.
DeviceItem(key, r, opening) ==
  IF ~opening THEN [status |-> 0, output |-> Sealed(key, r)]
  ELSE IF Genuine(key, r) THEN [status |-> 0, output |-> r.data.of[5]]
  ELSE [status |-> 3, output |-> Bytes(PayloadSize(r, TRUE), <<"zeros">>)]

\* Mutant: the status of an item that did not authenticate is not looked at.
Answered_NoStatus(item, size, opening) ==
  IF item.output.size = size THEN item.output ELSE Garbled(size)

\* An item of the list: the size that was set aside for it, of its output.
Answered(item, size, opening) ==
  IF opening /\ item.status = 3 THEN None
  ELSE IF item.output.size = size THEN item.output ELSE Garbled(size)

\* ECDSA, as far as it matters here: a deterministic s in 1 .. Order - 1.
EcdsaS(key, digest) == 1 + ((key.of + digest.of) % (Order - 1))

\* The smaller of s and its complement, by the bindings and by the engine.
RawSignature(s) == IF s < Order - s THEN s ELSE Order - s

\* Mutant: the complement is taken where it is the larger one.
EngineLowS_Swapped(s) == IF s < Order - s THEN Order - s ELSE s

EngineLowS(s) == LET complement == Order - s IN IF s > complement THEN complement ELSE s

CpuSign(key, digests) ==
  IF Digests(key, digests)
  THEN Listed(Each(digests, LAMBDA d : RawSignature(EcdsaS(key, d)))) ELSE Refused

CudaSign(key, digests) ==
  IF ~Digests(key, digests) THEN Refused
  ELSE IF digests = <<>> THEN Listed(<<>>)
  ELSE IF NativeSign(key, digests)
  THEN Listed(Each(digests, LAMBDA d : EngineLowS(EcdsaS(key, d)))) ELSE Refused

CudaAead(key, records, opening) ==
  LET Run(r) == DeviceItem(key, r, opening)
      Size(r) == r.data.size + (IF opening THEN -16 ELSE 16)
  IN IF ~Records(key, records, opening) THEN Refused
     ELSE IF records = <<>> THEN Listed(<<>>)
     ELSE IF ~NativeAead(records, opening) THEN Refused
     ELSE IF \E i \in 1 .. Len(records) : Run(records[i]).status \notin {0, 3} THEN Refused
     ELSE Listed(Each(records, LAMBDA r : Answered(Run(r), Size(r), opening)))
===============================================================================
