------------------------------ MODULE Directory ------------------------------
(***************************************************************************)
(* What the recipient directory returns for an id code and which of the    *)
(* certificates are encrypted to: select_certificates of umbrik-ldap, with *)
(* the parsing of certificates in cert.rs.  This module has no state.      *)
(*                                                                         *)
(* A certificate is [spki, not_before, not_after].  Its public key spki is *)
(* a key of EcKey (cert.rs knows their curves) or one of BadSpki; a date   *)
(* is a set of at most one number.  A DN is what it says of the unit and   *)
(* of the organisation, whatever the spelling.                             *)
(***************************************************************************)
EXTENDS Container

CONSTANT Now   \* seconds since the epoch

ASSUME NowAssumption == Now \in Nat

\* An RSA key; an EC key on another curve; bytes that are no certificate.
BadSpki == {"rsa", "other_curve", "garbled"}

\* public_key_from_spki.
SpkiError(spki) ==
  IF spki \in EcKey THEN "none"
  ELSE IF spki = "rsa" THEN "UnsupportedCapsule"
  ELSE "InvalidKeyMaterial"

\* CertificateRecipient::validity.
Validity(c) ==
  IF \E t \in c.not_before : Now < t THEN "NotYetValid"
  ELSE IF \E t \in c.not_after : Now > t THEN "Expired"
  ELSE IF c.not_before = {} /\ c.not_after = {} THEN "Unknown"
  ELSE "Valid"

\* check_validity.
ValidityAccepted(c, allow_expired) ==
  allow_expired \/ Validity(c) \in {"Valid", "Unknown"}

\* Mutant of ClassifyDn: Mobile-ID is not told apart.
ClassifyDnUnit(dn) ==
  IF dn.ou # "Authentication" THEN "NotAuthentication" ELSE "none"

ClassifyDn(dn) ==
  IF dn.ou # "Authentication" THEN "NotAuthentication"
  ELSE IF dn.o = "Mobile-ID" THEN "MobileId"
  ELSE "none"

-----------------------------------------------------------------------------
NothingFound == [matches |-> <<>>, rejected |-> <<>>]

Reject(found, reason) == [found EXCEPT !.rejected = Append(@, reason)]

\* One certificate of a usable entry: one key is matched once.
Consider(found, c) ==
  IF SpkiError(c.spki) = "UnsupportedCapsule" THEN Reject(found, "UnsupportedKey")
  ELSE IF SpkiError(c.spki) # "none" THEN Reject(found, "Unparseable")
  ELSE IF \E i \in DOMAIN found.matches : found.matches[i].spki = c.spki
  THEN found
  ELSE [found EXCEPT !.matches = Append(@, c)]
=============================================================================
