------------------------------ MODULE Container ------------------------------
(***************************************************************************)
(* The CDOC2 container format and its key hierarchy, with perfect          *)
(* (symbolic) cryptography: container.rs, keys.rs, schemes/*.rs,           *)
(* header.rs, provider.rs of crates/umbrik-core.  This module has no state.*)
(*                                                                         *)
(* A derived key is the term of what it was derived from.  The FMK is      *)
(* wrapped by XOR, so FMKs and KEKs are sets of terms and XOR is symmetric *)
(* difference: unwrapping with the wrong KEK gives a key that is no one's. *)
(* A MAC and an AEAD ciphertext are records of everything they bind.       *)
(* Random draws are numbers, never drawn twice.                            *)
(***************************************************************************)
EXTENDS Integers, Sequences

CONSTANTS
  EcKey,          \* EC key pairs; a public key is named by its pair
  Curve,          \* EcKey -> curve
  ShortSecret,    \* pre-shared secrets of less than MIN_SECRET_LEN bytes
  ITERATIONS,     \* PBKDF2 iterations of a record umbrik writes
  MAX_ITERATIONS, \* ceiling on the iterations of one record
  MAX_HEADER_LEN  \* the size a header may have, in records

ASSUME CurveAssumption ==
  Curve \in [EcKey -> {"secp384r1", "secp256r1", "secp521r1"}]
ASSUME IterationsAssumption ==
  /\ ITERATIONS \in Nat \ {0} /\ MAX_ITERATIONS \in Nat
  /\ ITERATIONS <= MAX_ITERATIONS
ASSUME HeaderLenAssumption == MAX_HEADER_LEN \in Nat

\* s is a sequence, whatever its elements are.
IsSeq(s) == s \in Seq({s[i] : i \in DOMAIN s})

-----------------------------------------------------------------------------
(* Keys.                                                                   *)

Xor(x, y) == (x \ y) \cup (y \ x)

Fmk(draw) == {<<"fmk", draw>>}
DeriveHhk(fmk) == <<"CDOC20hmac", fmk>>
DeriveCek(fmk) == <<"CDOC20cek", fmk>>

\* A salt shorter than SALT_LEN, bytes that are no point of the curve; draws
\* are positive, and long enough.
ShortSalt == 0
NoPoint == 0

DeriveSymmetricKek(secret, salt, label) == {<<"kek", secret, salt, label>>}

Sc05Kek(secret, salt, label) ==
  DeriveSymmetricKek(<<"psk", secret>>, salt, label)

\* The two salts have two places.
Sc06Kek(password, salt, password_salt, iterations, label) ==
  DeriveSymmetricKek(<<"pbkdf2", password, password_salt, iterations>>,
                     salt, label)

\* The secret shared by the holder of pair k and the owner of draw e, the
\* sender's one-time pair: the same from both ends.
Ecdh(k, e) == <<"ecdh", k, e>>

\* The two public keys in order, and no label.
Sc01Kek(shared, recipient_public_key, sender_public_key) ==
  {<<"ecdh-kek", shared, recipient_public_key, sender_public_key>>}

-----------------------------------------------------------------------------
(* The header.  encrypted_fmk is a set of terms; BadLength is one of the   *)
(* wrong length.                                                           *)

BadLength == {<<"length">>}

Supported == {"SC01", "SC05", "SC06"}
Unsupported == {"SC02", "SC03/SC04", "SC07", "unknown"}

\* Header::decode refuses a header without records.
DecodeError(header) ==
  IF header.recipients = <<>> THEN "MalformedHeader" ELSE "none"

HeaderHmac(fmk, header_bytes) ==
  [hhk |-> DeriveHhk(fmk), over |-> header_bytes]

\* header_bytes as the length field delimits them.
HeaderBytes(header, whole) == [header |-> header, whole |-> whole]

\* A plain concatenation, unambiguous because the HMAC has a fixed length.
BuildAad(header_bytes, hmac) == <<"CDOC20payload", header_bytes, hmac>>

-----------------------------------------------------------------------------
(* A file holds the first `written` of the pieces of a container: prelude, *)
(* version, length | header | hmac | nonce | the 33 bytes of ciphertext    *)
(* that MIN_PAYLOAD_LEN asks for | the rest.                               *)

PrefixPieces == 3
MinPieces == 7
Pieces == 8

-----------------------------------------------------------------------------
(* encrypt.  A recipient is [scheme, label, key].                          *)

\* sc05::kek's check of the secret; build_ecc_record's of the curve.
CannotAddress(recipient) ==
  \/ recipient.scheme = "SC05" /\ recipient.key \in ShortSecret
  \/ recipient.scheme = "SC01" /\ Curve[recipient.key] = "secp521r1"

\* Header::encode: the header must not be longer than what parse accepts.
EncodeError(recipients) ==
  IF Len(recipients) > MAX_HEADER_LEN THEN "LimitExceeded" ELSE "none"

EncryptError(recipients) ==
  IF \/ recipients = <<>>
     \/ \E i \in DOMAIN recipients : CannotAddress(recipients[i])
  THEN "InvalidKeyMaterial"
  ELSE EncodeError(recipients)

\* The capsule of a fresh record; draw and draw + 1 are its random values.
FreshCapsule(recipient, draw) ==
  CASE recipient.scheme = "SC05" ->
         [scheme |-> "SC05", salt |-> draw]
    [] recipient.scheme = "SC06" ->
         [scheme |-> "SC06", salt |-> draw, password_salt |-> draw + 1,
          kdf_algorithm |-> "PBKDF2WithHmacSHA256",
          kdf_iterations |-> ITERATIONS]
    [] recipient.scheme = "SC01" ->
         [scheme |-> "SC01", curve |-> Curve[recipient.key],
          recipient_public_key |-> recipient.key, sender_public_key |-> draw]

\* The KEK the author derives for a recipient and its capsule.
AuthorKek(recipient, c) ==
  CASE recipient.scheme = "SC05" ->
         Sc05Kek(recipient.key, c.salt, recipient.label)
    [] recipient.scheme = "SC06" ->
         Sc06Kek(recipient.key, c.salt, c.password_salt, c.kdf_iterations,
                 recipient.label)
    [] recipient.scheme = "SC01" ->
         Sc01Kek(Ecdh(recipient.key, c.sender_public_key),
                 c.recipient_public_key, c.sender_public_key)

Record(recipient, fmk, capsule) ==
  [ key_label             |-> recipient.label,
    encrypted_fmk         |-> Xor(fmk, AuthorKek(recipient, capsule)),
    fmk_encryption_method |-> "XOR",
    capsule               |-> capsule ]

BuildRecipientRecord(recipient, fmk, draw) ==
  Record(recipient, fmk, FreshCapsule(recipient, draw))

\* Draws of one call: the FMK, two per record, the nonce.
Draws(recipients) == 2 * Len(recipients) + 2

\* The complete container: what encrypt has in memory before it writes.
Container(records, method, fmk, nonce, msg) ==
  LET header == [recipients |-> records, payload_encryption_method |-> method]
      bytes  == HeaderBytes(header, TRUE)
      hmac   == HeaderHmac(fmk, bytes)
  IN  [ written    |-> Pieces,
        flaws      |-> {},
        header     |-> header,
        hmac       |-> hmac,
        nonce      |-> nonce,
        ciphertext |-> [cek |-> DeriveCek(fmk), nonce |-> nonce,
                        aad |-> BuildAad(bytes, hmac), msg |-> msg] ]

Encrypted(recipients, draw, msg) ==
  Container([i \in DOMAIN recipients |->
               BuildRecipientRecord(recipients[i], Fmk(draw), draw + 2 * i)],
            "CHACHA20POLY1305", Fmk(draw), draw + 1, msg)

-----------------------------------------------------------------------------
(* Containers of other implementations: a record may have a quirk.         *)

Quirk == {"none", "unknown_method", "unknown_kdf", "short_salt",
          "short_password_salt", "iterations", "zero_iterations",
          "negative_iterations", "bad_point", "bad_length"} \cup Unsupported

\* Quirks that umbrik passes over.
Foreign == {"unknown_method", "unknown_kdf"} \cup Unsupported

QuirkyCapsule(c, quirk) ==
  CASE quirk \in Unsupported -> [scheme |-> quirk]
    [] quirk = "short_salt" /\ c.scheme # "SC01" ->
         [c EXCEPT !.salt = ShortSalt]
    [] quirk = "short_password_salt" /\ c.scheme = "SC06" ->
         [c EXCEPT !.password_salt = ShortSalt]
    [] quirk = "unknown_kdf" /\ c.scheme = "SC06" ->
         [c EXCEPT !.kdf_algorithm = "unknown"]
    [] quirk = "iterations" /\ c.scheme = "SC06" ->
         [c EXCEPT !.kdf_iterations = MAX_ITERATIONS + 1]
    [] quirk = "zero_iterations" /\ c.scheme = "SC06" ->
         [c EXCEPT !.kdf_iterations = 0]
    [] quirk = "negative_iterations" /\ c.scheme = "SC06" ->
         [c EXCEPT !.kdf_iterations = -1]
    [] quirk = "bad_point" /\ c.scheme = "SC01" ->
         [c EXCEPT !.sender_public_key = NoPoint]
    [] OTHER -> c

ForeignRecord(recipient, fmk, draw, quirk) ==
  LET plain   == FreshCapsule(recipient, draw)
      capsule == QuirkyCapsule(plain, quirk)
      record  == Record(recipient, fmk,
                        IF quirk \in Unsupported THEN plain ELSE capsule)
  IN  CASE quirk \in Unsupported ->
             [record EXCEPT !.capsule = capsule]
        [] quirk = "unknown_method" ->
             [record EXCEPT !.fmk_encryption_method = "unknown"]
        [] quirk = "bad_length" ->
             [record EXCEPT !.encrypted_fmk = BadLength]
        [] OTHER -> record

ForeignContainer(recipients, quirks, method, draw, msg) ==
  Container([i \in DOMAIN recipients |->
               ForeignRecord(recipients[i], Fmk(draw), draw + 2 * i,
                             quirks[i])],
            method, Fmk(draw), draw + 1, msg)

-----------------------------------------------------------------------------
(* Parsing.  flaws are damage to what no MAC covers, and damage to the     *)
(* header beyond decoding.                                                 *)

Flaw == {"prelude", "version", "length_out_of_range", "length_past_end",
         "length_shifted", "header_garbled"}

ParseError(file) ==
  IF file.written < PrefixPieces THEN "Truncated"
  ELSE IF "prelude" \in file.flaws THEN "BadPrelude"
  ELSE IF "version" \in file.flaws THEN "UnsupportedVersion"
  ELSE IF "length_out_of_range" \in file.flaws THEN "HeaderLengthOutOfRange"
  ELSE IF \/ "length_past_end" \in file.flaws
          \/ file.written < MinPieces THEN "Truncated"
  ELSE "none"

\* The FlatBuffers verifier: a header cut or extended may still decode.
DecodeErrors(file) ==
  IF "header_garbled" \in file.flaws THEN {"MalformedHeader"}
  ELSE IF "length_shifted" \in file.flaws
  THEN {"MalformedHeader", DecodeError(file.header)}
  ELSE {DecodeError(file.header)}

EnvelopeHeaderBytes(file) ==
  HeaderBytes(file.header, "length_shifted" \notin file.flaws)

-----------------------------------------------------------------------------
(* Opening.  A key offered is [scheme, holds]: the one password or secret, *)
(* or all the key pairs of a provider.                                     *)

\* Identity::matches.
Matches(k, c) == Curve[k] = c.curve /\ k = c.recipient_public_key

\* Mutant of Candidate: any EC record is one for the provider.
CandidateAny(record, key) ==
  /\ record.fmk_encryption_method = "XOR"
  /\ record.capsule.scheme = key.scheme
  /\ key.scheme = "SC06" =>
       record.capsule.kdf_algorithm = "PBKDF2WithHmacSHA256"

\* try_kek and provider_kek: is the record one to try with this key?
Candidate(record, key) ==
  /\ record.fmk_encryption_method = "XOR"
  /\ record.capsule.scheme = key.scheme
  /\ key.scheme = "SC06" =>
       record.capsule.kdf_algorithm = "PBKDF2WithHmacSHA256"
  /\ key.scheme = "SC01" => \E k \in key.holds : Matches(k, record.capsule)

\* Mutant of KekError: the work is not weighed against what is left.
KekErrorUncharged(record, key, budget) ==
  LET c == record.capsule IN
  IF key.scheme = "SC06" /\ c.kdf_iterations < 0 THEN "InvalidKeyMaterial"
  ELSE IF key.scheme = "SC06" /\ c.kdf_iterations > MAX_ITERATIONS
  THEN "LimitExceeded"
  ELSE "none"

\* The error that deriving a candidate's KEK runs into: the budget is charged
\* first, then sc05::kek or sc06::kek look at their arguments.
KekError(record, key, budget) ==
  LET c == record.capsule IN
  CASE key.scheme = "SC01" -> "none"
    [] key.scheme = "SC05" ->
         IF key.holds \subseteq ShortSecret \/ c.salt = ShortSalt
         THEN "InvalidKeyMaterial" ELSE "none"
    [] key.scheme = "SC06" ->
         IF c.kdf_iterations < 0 THEN "InvalidKeyMaterial"
         ELSE IF c.kdf_iterations > budget THEN "LimitExceeded"
         ELSE IF c.salt = ShortSalt \/ c.kdf_iterations = 0
         THEN "InvalidKeyMaterial"
         ELSE IF c.kdf_iterations > MAX_ITERATIONS THEN "LimitExceeded"
         ELSE IF c.password_salt = ShortSalt THEN "InvalidKeyMaterial"
         ELSE "none"

\* PBKDF2 iterations that trying a candidate costs.
KdfCost(record, key) ==
  IF key.scheme = "SC06" THEN record.capsule.kdf_iterations ELSE 0

\* Mutant of ProviderKek: the sender's key first.
ProviderKekSwapped(record, k) ==
  LET c == record.capsule IN
  Sc01Kek(Ecdh(k, c.sender_public_key), c.sender_public_key,
          c.recipient_public_key)

ProviderKek(record, k) ==
  LET c == record.capsule IN
  Sc01Kek(Ecdh(k, c.sender_public_key), c.recipient_public_key,
          c.sender_public_key)

\* The KEK of a candidate.
TryKek(record, key) ==
  LET c == record.capsule
      k == CHOOSE k \in key.holds : key.scheme = "SC01" => Matches(k, c)
  IN  CASE key.scheme = "SC05" -> Sc05Kek(k, c.salt, record.key_label)
        [] key.scheme = "SC06" ->
             Sc06Kek(k, c.salt, c.password_salt, c.kdf_iterations,
                     record.key_label)
        [] key.scheme = "SC01" -> ProviderKek(record, k)

UnwrapXor(record, key) == Xor(record.encrypted_fmk, TryKek(record, key))

\* Mutant of Verify: any key authenticates any header.
VerifyNothing(file, fmk) == TRUE

Verify(file, fmk) == HeaderHmac(fmk, EnvelopeHeaderBytes(file)) = file.hmac

\* Mutant of Authentic: the tag does not cover the header.
AuthenticWithoutAad(file, fmk) ==
  file.written = Pieces /\ file.ciphertext.cek = DeriveCek(fmk)

\* The AEAD tag of the payload, over all of the ciphertext.
Authentic(file, fmk) ==
  /\ file.written = Pieces
  /\ file.ciphertext.cek = DeriveCek(fmk)
  /\ file.ciphertext.nonce = file.nonce
  /\ file.ciphertext.aad = BuildAad(EnvelopeHeaderBytes(file), file.hmac)
=============================================================================
