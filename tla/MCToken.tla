------------------------------ MODULE MCToken --------------------------------
(* A small instance of Token: an ID-card that shows its authentication and   *)
(* its signing certificate in two slots of one reader, a second card of the  *)
(* same make (the same CKA_IDs) and a card with unusable certificates.       *)
EXTENDS Token

Readers == [s \in 1..3 |-> IF s = 3 THEN "r2" ELSE "r1"]

CertOf(id, k, usage) == [cka_id |-> id, key |-> k, usage |-> usage]
Authentication == <<{"digital_signature", "key_agreement"}>>
Signature == <<{"non_repudiation"}>>
Encipherment == <<{"key_encipherment"}>>
KeyOf(id, k) == [cka_id |-> id, key |-> k]

IdCard(label, auth, sign, pin1, pin2) ==
  [s \in 1..3 |->
     IF s = 2
     THEN [label |-> label, pin |-> pin2,
           certs |-> <<CertOf({1}, auth, Authentication), CertOf({2}, sign, Signature)>>,
           keys |-> <<KeyOf(2, sign)>>]
     ELSE [label |-> label, pin |-> pin1,
           certs |-> <<CertOf({2}, sign, Signature), CertOf({1}, auth, Authentication)>>,
           keys |-> <<KeyOf(2, sign), KeyOf(1, auth)>>]]

OddCard ==
  [s \in 1..3 |->
     [label |-> "odd", pin |-> "1234",
      certs |-> IF s = 2 THEN <<CertOf({}, "carol", Authentication)>>
                ELSE <<CertOf({1}, "rsa", Encipherment), CertOf({3}, "carol", <<>>)>>,
      keys |-> <<KeyOf(1, "rsa")>>]]

Views ==
  [alices |-> IdCard("alice", "alice", "sign", "1234", "12345"),
   bobs   |-> IdCard("bob", "bob", "sign2", "0000", "00000"),
   odd    |-> OddCard]
=============================================================================
