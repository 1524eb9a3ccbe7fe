------------------------------ MODULE Opening --------------------------------
(***************************************************************************)
(* What opening a container with one key comes to, as a function of the    *)
(* file, the key and the limits: open_header and decrypt_payload of        *)
(* container.rs without their loop.  The first record that stops the scan, *)
(* by opening the header or by an error, decides.  Decryption takes the    *)
(* same scan step by step.  This module has no state.                      *)
(***************************************************************************)
EXTENDS Container, Loops

\* PBKDF2 iterations spent on the candidates before record i.
Spent(file, key, i) ==
  Total([j \in DOMAIN file.header.recipients |->
         IF Candidate(file.header.recipients[j], key)
         THEN KdfCost(file.header.recipients[j], key) ELSE 0], i - 1)

\* What becomes of record i if the scan gets there: it is passed over, it ends
\* the scan with an error, it opens the header, or it does not.
RecordOutcome(file, key, limits, i) ==
  LET r == file.header.recipients[i]
      e == KekError(r, key, limits.max_total_kdf_iterations - Spent(file, key, i))
  IN  IF ~Candidate(r, key) THEN "passed over"
      ELSE IF e # "none" THEN e
      ELSE IF \/ key.scheme = "SC01" /\ r.capsule.sender_public_key = NoPoint
              \/ r.encrypted_fmk = BadLength THEN "InvalidKeyMaterial"
      ELSE IF Verify(file, UnwrapXor(r, key)) THEN "opens" ELSE "does not open"

\* Mutant of OpenHeader: a container at the limit is refused.
OpenHeaderAtLimit(file, key, limits) ==
  LET stops == {i \in DOMAIN file.header.recipients :
                  RecordOutcome(file, key, limits, i) = "opens"}
  IN  IF Len(file.header.recipients) >= limits.max_recipients
      THEN [error |-> "LimitExceeded", index |-> 0]
      ELSE [error |-> "none", index |-> Min(stops)]

\* open_header of a file that parses: the error, or "none" and the record.
OpenHeader(file, key, limits) ==
  LET records == file.header.recipients
      Outcome(i) == RecordOutcome(file, key, limits, i)
      stops   == {i \in DOMAIN records :
                    Outcome(i) \notin {"passed over", "does not open"}}
      Result(e, i) == [error |-> e, index |-> i]
  IN  IF Len(records) > limits.max_recipients THEN Result("LimitExceeded", 0)
      ELSE IF stops # {}
      THEN IF Outcome(Min(stops)) = "opens" THEN Result("none", Min(stops))
           ELSE Result(Outcome(Min(stops)), 0)
      ELSE IF \E i \in DOMAIN records : Outcome(i) = "does not open"
      THEN Result("HeaderHmacMismatch", 0)
      ELSE IF \E i \in DOMAIN records : records[i].capsule.scheme \in Unsupported
      THEN Result("UnsupportedCapsule", 0)
      ELSE Result("NoMatchingRecipient", 0)

\* The FMK that opened the header.
OpenedFmk(file, key, i) == UnwrapXor(file.header.recipients[i], key)

\* decrypt_payload.
PayloadError(file, fmk) ==
  IF file.header.payload_encryption_method # "CHACHA20POLY1305"
  THEN "UnsupportedPayloadEncryptionMethod"
  ELSE IF ~Authentic(file, fmk) THEN "PayloadAuthenticationFailed"
  ELSE "none"

\* Everything up to the compressed payload: the errors it may end in, "none"
\* among them.
DecryptErrors(file, key, limits) ==
  LET opened == OpenHeader(file, key, limits) IN
  IF ParseError(file) # "none" THEN {ParseError(file)}
  ELSE {IF e # "none" THEN e
        ELSE IF opened.error # "none" THEN opened.error
        ELSE PayloadError(file, OpenedFmk(file, key, opened.index)) :
        e \in DecodeErrors(file)}
=============================================================================
