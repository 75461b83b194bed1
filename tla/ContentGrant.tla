----------------------------- MODULE ContentGrant -----------------------------
(***************************************************************************)
(* The machine-authorized content of src/examples/content_grant.py: a      *)
(* publisher encrypts content, binds it to a grant and signs the grant; a  *)
(* consumer that trusts one public key and holds one content key accepts   *)
(* or refuses what reaches it.                                             *)
(*                                                                         *)
(* A transport may hand over any mixture: the grant of one publication     *)
(* with a field of another or an unknown value in it, the ciphertext of a  *)
(* second and the signature of a third.  Hashes, the cipher and signatures *)
(* are symbolic: equal exactly when their arguments are.                   *)
(***************************************************************************)
EXTENDS Integers, FiniteSets

CONSTANTS
  Contents, Length,       \* what is published, and its length
  SigningKeys, AesKeys,   \* keys of publishers
  Principals, Reader,     \* consumers; the one that publish() names
  PublisherKey, ContentKey,    \* the consumer's keys, delivered out of band
  Lifetime,               \* seconds of a grant (300)
  MaxTime, MaxPublished,  \* bounds
  Unknown, Nothing

VARIABLES
  published,  \* history: the content and keys of each publish(), and what it returned
  now,        \* int(time.time())
  got         \* the last consume(): what it was asked and answered, or Nothing

vars == <<published, now, got>>

Issuer == <<1, "publisher.example", "publisher-signing-1">>
Cipher == <<"AES-256-GCM", "content-key-1">>

Sha(value) == <<"sha256", value>>

\* The part of a grant that is authenticated with the ciphertext.
\* Mutant: all of it, the hash of the ciphertext that comes later included.
Metadata_Whole(grant) == grant

Metadata(grant) == <<grant.issuer, grant.content_id, grant.content_length>>

\* Mutant: the signature covers what the cipher covers.
GrantDigest_Metadata(grant) == Sha(Metadata(grant))

GrantDigest(grant) == Sha(grant)

Sealed(key, nonce, content, aad) ==
  [key |-> key, nonce |-> nonce, content |-> content, aad |-> aad]

Opened(key, nonce, ciphertext, aad) ==
  IF ciphertext = Sealed(key, nonce, ciphertext.content, aad)
  THEN ciphertext.content ELSE Nothing

Signature(key, digest) == [key |-> key, digest |-> digest]

-------------------------------------------------------------------------------
Init == published = {} /\ now = 0 /\ got = Nothing

\* os.urandom(12).
Nonce == Cardinality(published)

\* publish(): on the CPU, or with the keys of slots 0 and 1 of a runtime.
Grant(content) ==
  [issuer |-> Issuer, content_id |-> Sha(content), content_length |-> Length[content],
   principal |-> Reader, issued_at |-> now, expires_at |-> now + Lifetime,
   encryption |-> <<Cipher, Nonce>>, ciphertext_sha256 |-> Nothing]

Publish(content, aes, signing) ==
  /\ Cardinality(published) < MaxPublished
  /\ LET draft      == Grant(content)
         ciphertext == Sealed(aes, Nonce, content, Metadata(draft))
         grant      == [draft EXCEPT !.ciphertext_sha256 = Sha(ciphertext)]
     IN published' = published \cup
          {[content |-> content, aes |-> aes, signing |-> signing, grant |-> grant,
            ciphertext |-> ciphertext,
            signature |-> Signature(signing, GrantDigest(grant))]}
  /\ got' = Nothing /\ UNCHANGED now

Tick == now < MaxTime /\ now' = now + 1 /\ got' = Nothing /\ UNCHANGED published

-------------------------------------------------------------------------------
\* Mutant: a grant is still valid in the second it expires.
Current_Closed(grant) == grant.issued_at <= now /\ now <= grant.expires_at

Current(grant) == grant.issued_at <= now /\ now < grant.expires_at

\* The checks of consume() in their order, and the content or Nothing (ValueError).
Accepts(grant, ciphertext, signature, principal, expected) ==
  /\ signature = Signature(PublisherKey, GrantDigest(grant))
  /\ grant.issuer = Issuer
  /\ grant.principal = principal /\ grant.content_id = expected
  /\ Current(grant)
  /\ grant.encryption[1] = Cipher
  /\ grant.ciphertext_sha256 = Sha(ciphertext)
  /\ LET content == Opened(ContentKey, grant.encryption[2], ciphertext, Metadata(grant))
     IN /\ content # Nothing
        /\ Length[content] = grant.content_length
        /\ Sha(content) = expected

\* One grant, and those that differ from it in one field.
Altered(grant) ==
  UNION {{[grant EXCEPT ![f] = value] :
            value \in {p.grant[f] : p \in published} \cup
                      (IF f \in {"principal", "issuer", "content_id"} THEN {Unknown} ELSE {})} :
           f \in DOMAIN grant}

\* consume() keeps no state, so one call between two changes shows all of them.
Consume(p, q, r, principal, expected) ==
  /\ got = Nothing
  /\ \E grant \in Altered(p.grant) :
       got' = [grant |-> grant, principal |-> principal, expected |-> expected, at |-> now,
               content |-> IF Accepts(grant, q.ciphertext, r.signature, principal, expected)
                           THEN q.ciphertext.content ELSE Nothing]
  /\ UNCHANGED <<published, now>>

Next ==
  \/ \E content \in Contents, aes \in AesKeys, signing \in SigningKeys :
       Publish(content, aes, signing)
  \/ Tick
  \/ \E p, q, r \in published, principal \in Principals, content \in Contents :
       Consume(p, q, r, principal, Sha(content))

Spec == Init /\ [][Next]_vars

-------------------------------------------------------------------------------
\* One type invariant: the publications are at most the bound, and no two that
\* share a content key share a nonce.
TypeOK ==
  /\ now \in 0 .. MaxTime
  /\ Cardinality(published) <= MaxPublished
  /\ \A p, q \in published :
       p.aes = q.aes /\ p.grant.encryption = q.grant.encryption => p = q

\* What consume() returns is the content that the trusted key published under
\* exactly this grant, for this principal and as the content asked for, at a
\* second within the window that was signed: no mixture of the grants,
\* ciphertexts and signatures of several publications is ever accepted.
GrantProvesContent ==
  got # Nothing =>
    (got.content # Nothing =>
       \E p \in published :
         /\ p.signing = PublisherKey /\ p.aes = ContentKey
         /\ p.grant = got.grant /\ p.content = got.content
         /\ got.principal = Reader /\ got.expected = Sha(p.content)
         /\ got.at \in p.grant.issued_at .. p.grant.issued_at + Lifetime - 1)

\* What publish() returns, handed over as it is, is accepted for as long as the
\* grant runs by the reader it names, if the consumer holds the publisher's keys:
\* publisher and consumer authenticate the same metadata and the same grant,
\* though the grant grows between the encryption and the signature.
PublishedIsConsumable ==
  \A p \in published :
    p.signing = PublisherKey /\ p.aes = ContentKey
      /\ now \in p.grant.issued_at .. p.grant.issued_at + Lifetime - 1 =>
      Accepts(p.grant, p.ciphertext, p.signature, Reader, Sha(p.content))
===============================================================================
