--------------------------------- MODULE Jws ---------------------------------
(***************************************************************************)
(* ES256 tokens (src/python/batchcrypto/jws.py): a batch of payloads is    *)
(* signed through a callback of the caller.  A signature is what it was    *)
(* made over, with which key, and the form its bytes have; the callback    *)
(* returns any list of signatures, and the form is all that is checked of  *)
(* them here.                                                              *)
(***************************************************************************)
EXTENDS Naturals, Sequences

Input(kid, payload) == [kid |-> kid, payload |-> payload]

\* form: "low" is 64 bytes with a low s, "high" has the other s, "cut" is not 64
\* bytes.
Signature(key, input, form) == [key |-> key, over |-> input, form |-> form]

WellFormed(signature) == signature.form = "low"

\* What a callback may return for two or one inputs: the signatures asked for,
\* one too few, one of a wrong form, or the right ones in another order.
Outputs(key, inputs) ==
  LET n     == Len(inputs)
      right == [i \in 1 .. n |-> Signature(key, inputs[i], "low")]
  IN {right, SubSeq(right, 1, n - 1), [i \in 1 .. n |-> right[n + 1 - i]]} \cup
     {[right EXCEPT ![i].form = form] : i \in 1 .. n, form \in {"high", "cut"}}

\* Mutant: the count of the signatures is not compared.
Signed_AnyCount(inputs, signatures) ==
  \A i \in DOMAIN signatures : WellFormed(signatures[i])

\* sign_es256 returns tokens only if the whole batch has the right form.
Signed(inputs, signatures) ==
  /\ Len(signatures) = Len(inputs)
  /\ \A i \in DOMAIN signatures : WellFormed(signatures[i])

Tokens(inputs, signatures) ==
  [i \in 1 .. Len(signatures) |-> [input |-> inputs[i], signature |-> signatures[i]]]

\* The check of a consumer: one low-s signature of the pinned key over these very
\* header and payload bytes.
Verifies(token, key) ==
  /\ WellFormed(token.signature)
  /\ token.signature.key = key
  /\ token.signature.over = token.input
===============================================================================
