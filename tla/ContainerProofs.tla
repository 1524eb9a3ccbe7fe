--------------------------- MODULE ContainerProofs ---------------------------
(* Facts about the key hierarchy of Container and about Opening: who can     *)
(* unwrap an FMK, and what the scan of the records comes to.  They hold for  *)
(* every recipient, key and list of records.                                 *)
EXTENDS Opening, LoopProofs, TLAPS

-----------------------------------------------------------------------------
(* Sequences, whatever their elements.                                     *)

\* A sequence given by its elements is one.
LEMMA IsSeqIntro ==
  ASSUME NEW n \in Nat, NEW s, DOMAIN s = 1..n, s = [i \in 1..n |-> s[i]]
  PROVE  IsSeq(s)
  <1> DEFINE S == {s[i] : i \in DOMAIN s}
  <1>1. \A i \in 1..n : s[i] \in S
    OBVIOUS
  <1> HIDE DEF S
  <1>2. s \in [1..n -> S]
    BY <1>1
  <1>3. s \in Seq(S)
    BY <1>2
  <1> QED
    BY <1>3 DEF IsSeq, S

\* The length and the domain of a sequence.
LEMMA IsSeqFacts ==
  ASSUME NEW s, IsSeq(s)
  PROVE  /\ Len(s) \in Nat
         /\ DOMAIN s = 1..Len(s)
  <1> DEFINE S == {s[i] : i \in DOMAIN s}
  <1>1. s \in Seq(S)
    BY DEF IsSeq
  <1> HIDE DEF S
  <1> QED
    BY <1>1

\* The concatenation of two sequences.
LEMMA Concatenated ==
  ASSUME NEW a, NEW b, IsSeq(a), IsSeq(b)
  PROVE  /\ IsSeq(a \o b)
         /\ Len(a \o b) = Len(a) + Len(b)
         /\ DOMAIN (a \o b) = 1..(Len(a) + Len(b))
         /\ \A i \in DOMAIN (a \o b) :
              \/ i \in DOMAIN a /\ (a \o b)[i] = a[i]
              \/ i - Len(a) \in DOMAIN b /\ i > Len(a) /\ (a \o b)[i] = b[i - Len(a)]
  <1> DEFINE S == {a[i] : i \in DOMAIN a} \cup {b[i] : i \in DOMAIN b}
             c == a \o b
  <1>1. /\ a \in Seq({a[i] : i \in DOMAIN a}) /\ b \in Seq({b[i] : i \in DOMAIN b})
    BY DEF IsSeq
  <1>2. /\ Len(a) \in Nat /\ DOMAIN a = 1..Len(a)
        /\ Len(b) \in Nat /\ DOMAIN b = 1..Len(b)
    BY IsSeqFacts
  <1>3. a \in Seq(S) /\ b \in Seq(S)
    BY <1>1
  <1> HIDE DEF S
  <1>4. /\ c \in Seq(S) /\ Len(c) = Len(a) + Len(b)
        /\ \A i \in 1..(Len(a) + Len(b)) :
             c[i] = IF i <= Len(a) THEN a[i] ELSE b[i - Len(a)]
    BY <1>3
  <1> HIDE DEF c
  <1>5. DOMAIN c = 1..Len(c) /\ c = [i \in 1..Len(c) |-> c[i]]
    BY <1>4
  <1>6. IsSeq(c)
    BY <1>2, <1>4, <1>5, IsSeqIntro
  <1> QED
    BY <1>2, <1>4, <1>5, <1>6 DEF c

-----------------------------------------------------------------------------
(* XOR and key derivation.                                                 *)

\* XOR is undone by the same key.
LEMMA XorUndone ==
  ASSUME NEW x, NEW y
  PROVE  Xor(Xor(x, y), y) = x
  BY DEF Xor

\* XOR is undone by no other key.
LEMMA XorOnlyUndone ==
  ASSUME NEW x, NEW y, NEW z, Xor(Xor(x, y), z) = x
  PROVE  z = y
  <1>1. ASSUME NEW t PROVE t \in z <=> t \in y
    BY DEF Xor
  <1> QED
    BY <1>1

\* Different FMKs give different HHKs.
LEMMA HhkInjective ==
  ASSUME NEW f, NEW g, DeriveHhk(f) = DeriveHhk(g)
  PROVE  f = g
  BY DEF DeriveHhk

-----------------------------------------------------------------------------
(* Records.                                                                *)

\* A record whose FMK is wrapped for the recipient and capsule it names.
AddressedTo(r, recipient, fmk) ==
  /\ recipient.scheme \in Supported
  /\ r.encrypted_fmk = Xor(fmk, AuthorKek(recipient, r.capsule))
  /\ r.key_label = recipient.label
  /\ r.capsule.scheme = recipient.scheme
  /\ recipient.scheme = "SC01" => r.capsule.recipient_public_key = recipient.key

\* Every record of encrypt is one.
LEMMA FreshRecordAddressed ==
  ASSUME NEW recipient, NEW fmk, NEW draw, recipient.scheme \in Supported
  PROVE  AddressedTo(BuildRecipientRecord(recipient, fmk, draw), recipient, fmk)
  BY DEF AddressedTo, BuildRecipientRecord, Record, FreshCapsule, Supported

\* So is every record of another implementation, whatever its quirk, unless
\* the quirk makes it one that umbrik cannot use at all.
LEMMA ForeignRecordAddressed ==
  ASSUME NEW recipient, NEW fmk, NEW draw, NEW quirk,
         recipient.scheme \in Supported
  PROVE  LET r == ForeignRecord(recipient, fmk, draw, quirk) IN
         \/ r.capsule.scheme \in Unsupported
         \/ r.encrypted_fmk = BadLength
         \/ AddressedTo(r, recipient, fmk)
  <1> DEFINE plain == FreshCapsule(recipient, draw)
             capsule == QuirkyCapsule(plain, quirk)
  <1>1. CASE quirk \in Unsupported
    <2>1. capsule = [scheme |-> quirk]
      BY <1>1 DEF QuirkyCapsule, Unsupported
    <2>2. ForeignRecord(recipient, fmk, draw, quirk)
            = [Record(recipient, fmk, plain) EXCEPT !.capsule = capsule]
      BY <1>1 DEF ForeignRecord, Unsupported
    <2> QED
      BY <1>1, <2>1, <2>2 DEF Record
  <1>2. CASE quirk = "bad_length"
    BY <1>2 DEF ForeignRecord, Record, Unsupported
  <1>3. CASE quirk \notin Unsupported /\ quirk # "bad_length"
    <2>1. /\ capsule.scheme = recipient.scheme
          /\ recipient.scheme = "SC01" => capsule.recipient_public_key = recipient.key
      BY <1>3 DEF QuirkyCapsule, FreshCapsule, Supported
    <2> HIDE DEF capsule
    <2>2. LET r == Record(recipient, fmk, capsule) IN
          ForeignRecord(recipient, fmk, draw, quirk)
            \in {r, [r EXCEPT !.fmk_encryption_method = "unknown"]}
      BY <1>3 DEF ForeignRecord, capsule
    <2> QED
      BY <2>1, <2>2 DEF AddressedTo, Record
  <1> QED
    BY <1>1, <1>2, <1>3

\* The KEK of an addressed record, scheme by scheme.
LEMMA AuthorKekIs ==
  ASSUME NEW r, NEW recipient, NEW fmk, AddressedTo(r, recipient, fmk)
  PROVE  LET c == r.capsule IN
         AuthorKek(recipient, c) =
           IF recipient.scheme = "SC05"
           THEN Sc05Kek(recipient.key, c.salt, r.key_label)
           ELSE IF recipient.scheme = "SC06"
           THEN Sc06Kek(recipient.key, c.salt, c.password_salt, c.kdf_iterations,
                        r.key_label)
           ELSE ProviderKek(r, recipient.key)
  BY DEF AddressedTo, AuthorKek, ProviderKek, Supported

\* The KEK that a key derives for a candidate, from one of the secrets it holds;
\* that secret is the public key's own if it is a key pair.
LEMMA TryKekIs ==
  ASSUME NEW r, NEW key, Candidate(r, key), key.holds # {},
         key.scheme \in Supported
  PROVE  \E k \in key.holds :
           LET c == r.capsule IN
           /\ key.scheme = "SC01" => k = c.recipient_public_key
           /\ TryKek(r, key) =
                IF key.scheme = "SC05" THEN Sc05Kek(k, c.salt, r.key_label)
                ELSE IF key.scheme = "SC06"
                THEN Sc06Kek(k, c.salt, c.password_salt, c.kdf_iterations,
                             r.key_label)
                ELSE ProviderKek(r, k)
  <1> DEFINE c == r.capsule
             k == CHOOSE k \in key.holds : key.scheme = "SC01" => Matches(k, c)
  <1>1. \E l \in key.holds : key.scheme = "SC01" => Matches(l, c)
    BY DEF Candidate
  <1>2. k \in key.holds /\ (key.scheme = "SC01" => Matches(k, c))
    BY <1>1
  <1>3. TryKek(r, key) =
          IF key.scheme = "SC05" THEN Sc05Kek(k, c.salt, r.key_label)
          ELSE IF key.scheme = "SC06"
          THEN Sc06Kek(k, c.salt, c.password_salt, c.kdf_iterations, r.key_label)
          ELSE ProviderKek(r, k)
    BY DEF TryKek, Supported
  <1> HIDE DEF k
  <1> QED
    BY <1>2, <1>3 DEF Matches

\* Equal singletons have equal elements.
LEMMA SingletonEqual ==
  ASSUME NEW a, NEW b, {a} = {b}
  PROVE  a = b
  OBVIOUS

\* A symmetric KEK tells the secret it was derived from.
LEMMA SymmetricKekInjective ==
  ASSUME NEW secret, NEW other, NEW salt, NEW label,
         DeriveSymmetricKek(secret, salt, label) = DeriveSymmetricKek(other, salt, label)
  PROVE  secret = other
  <1>1. <<"kek", secret, salt, label>> = <<"kek", other, salt, label>>
    BY SingletonEqual DEF DeriveSymmetricKek
  <1> QED
    BY <1>1

\* A KEK tells whose secret it was derived from.
LEMMA KekInjective ==
  ASSUME NEW r, NEW k, NEW l
  PROVE  LET c == r.capsule IN
         /\ Sc05Kek(k, c.salt, r.key_label) = Sc05Kek(l, c.salt, r.key_label) => k = l
         /\ Sc06Kek(k, c.salt, c.password_salt, c.kdf_iterations, r.key_label)
              = Sc06Kek(l, c.salt, c.password_salt, c.kdf_iterations, r.key_label)
              => k = l
         /\ ProviderKek(r, k) = ProviderKek(r, l) => k = l
  <1> DEFINE c == r.capsule
  <1>1. Sc05Kek(k, c.salt, r.key_label) = Sc05Kek(l, c.salt, r.key_label) => k = l
    <2>1. <<"psk", k>> = <<"psk", l>> => k = l
      OBVIOUS
    <2> QED
      BY <2>1, SymmetricKekInjective DEF Sc05Kek
  <1>2. Sc06Kek(k, c.salt, c.password_salt, c.kdf_iterations, r.key_label)
          = Sc06Kek(l, c.salt, c.password_salt, c.kdf_iterations, r.key_label)
          => k = l
    <2>1. <<"pbkdf2", k, c.password_salt, c.kdf_iterations>>
            = <<"pbkdf2", l, c.password_salt, c.kdf_iterations>> => k = l
      OBVIOUS
    <2> QED
      BY <2>1, SymmetricKekInjective DEF Sc06Kek
  <1>3. ProviderKek(r, k) = ProviderKek(r, l) => k = l
    <2> DEFINE e == c.sender_public_key
               T(x) == <<"ecdh-kek", <<"ecdh", x, e>>, c.recipient_public_key, e>>
    <2>1. ProviderKek(r, k) = {T(k)} /\ ProviderKek(r, l) = {T(l)}
      BY DEF ProviderKek, Sc01Kek, Ecdh
    <2>2. T(k) = T(l) => <<"ecdh", k, e>> = <<"ecdh", l, e>>
      OBVIOUS
    <2>3. <<"ecdh", k, e>> = <<"ecdh", l, e>> => k = l
      OBVIOUS
    <2> HIDE DEF T
    <2> QED
      BY <2>1, <2>2, <2>3, SingletonEqual
  <1> QED
    BY <1>1, <1>2, <1>3

\* A recipient's own key unwraps the FMK: the password or the secret, or a
\* provider that holds the recipient's key (try_kek, provider_kek).
THEOREM OwnerUnwraps ==
  ASSUME NEW r, NEW recipient, NEW fmk, NEW key,
         AddressedTo(r, recipient, fmk), Candidate(r, key),
         key.scheme = "SC01" \/ key.holds = {recipient.key}
  PROVE  UnwrapXor(r, key) = fmk
  <1>1. key.scheme = recipient.scheme /\ key.scheme \in Supported
    BY DEF AddressedTo, Candidate
  <1>2. key.holds # {}
    BY DEF Candidate
  <1>3. PICK k \in key.holds :
           LET c == r.capsule IN
           /\ key.scheme = "SC01" => k = c.recipient_public_key
           /\ TryKek(r, key) =
                IF key.scheme = "SC05" THEN Sc05Kek(k, c.salt, r.key_label)
                ELSE IF key.scheme = "SC06"
                THEN Sc06Kek(k, c.salt, c.password_salt, c.kdf_iterations,
                             r.key_label)
                ELSE ProviderKek(r, k)
    BY <1>1, <1>2, TryKekIs
  <1>4. k = recipient.key
    BY <1>1, <1>3 DEF AddressedTo
  <1>5. TryKek(r, key) = AuthorKek(recipient, r.capsule)
    BY <1>1, <1>3, <1>4, AuthorKekIs
  <1> QED
    BY <1>5, XorUndone DEF UnwrapXor, AddressedTo

\* Nothing but the recipient's own key unwraps the FMK of a candidate record.
THEOREM OnlyOwnerUnwraps ==
  ASSUME NEW r, NEW recipient, NEW fmk, NEW key,
         AddressedTo(r, recipient, fmk), Candidate(r, key), key.holds # {},
         UnwrapXor(r, key) = fmk
  PROVE  key.scheme = recipient.scheme /\ recipient.key \in key.holds
  <1>1. key.scheme = recipient.scheme /\ key.scheme \in Supported
    BY DEF AddressedTo, Candidate
  <1>2. PICK k \in key.holds :
           LET c == r.capsule IN
           /\ key.scheme = "SC01" => k = c.recipient_public_key
           /\ TryKek(r, key) =
                IF key.scheme = "SC05" THEN Sc05Kek(k, c.salt, r.key_label)
                ELSE IF key.scheme = "SC06"
                THEN Sc06Kek(k, c.salt, c.password_salt, c.kdf_iterations,
                             r.key_label)
                ELSE ProviderKek(r, k)
    BY <1>1, TryKekIs
  <1>3. TryKek(r, key) = AuthorKek(recipient, r.capsule)
    BY XorOnlyUndone DEF UnwrapXor, AddressedTo
  <1>4. k = recipient.key
    BY <1>1, <1>2, <1>3, AuthorKekIs, KekInjective
  <1> QED
    BY <1>1, <1>4

\* In particular no key pair that the provider does not hold does, although the
\* record is a candidate for the provider: not that of another card.
LEMMA OtherPairFails ==
  ASSUME NEW r, NEW recipient, NEW fmk, NEW key, NEW k,
         AddressedTo(r, recipient, fmk), Candidate(r, key), key.scheme = "SC01",
         k \notin key.holds
  PROVE  Xor(r.encrypted_fmk, ProviderKek(r, k)) # fmk
  <1> SUFFICES ASSUME Xor(r.encrypted_fmk, ProviderKek(r, k)) = fmk
               PROVE  FALSE
    OBVIOUS
  <1>1. recipient.scheme = "SC01" /\ recipient.key \in key.holds
    BY DEF AddressedTo, Candidate, Matches
  <1>2. ProviderKek(r, k) = AuthorKek(recipient, r.capsule)
    BY XorOnlyUndone DEF AddressedTo
  <1>3. k = recipient.key
    BY <1>1, <1>2, AuthorKekIs, KekInjective
  <1> QED
    BY <1>1, <1>3


-----------------------------------------------------------------------------
(* The scan of the records.                                                *)

\* What trying record j of a header costs this key.
Cost(file, key, j) ==
  IF Candidate(file.header.recipients[j], key)
  THEN KdfCost(file.header.recipients[j], key) ELSE 0

LEMMA SpentFirst ==
  ASSUME NEW file, NEW key
  PROVE  Spent(file, key, 1) = 0
  BY TotalZero DEF Spent

LEMMA SpentNext ==
  ASSUME NEW file, NEW key, IsSeq(file.header.recipients),
         NEW i \in DOMAIN file.header.recipients
  PROVE  Spent(file, key, i + 1) = Spent(file, key, i) + Cost(file, key, i)
  <1> DEFINE g == [j \in DOMAIN file.header.recipients |-> Cost(file, key, j)]
  <1>1. i \in Nat \ {0} /\ i - 1 \in Nat /\ (i - 1) + 1 = i /\ (i + 1) - 1 = i
    BY IsSeqFacts
  <1>2. g[i] = Cost(file, key, i)
    OBVIOUS
  <1>3. \A j : Spent(file, key, j) = Total(g, j - 1)
    BY DEF Spent, Cost
  <1> HIDE DEF g
  <1>4. Total(g, (i - 1) + 1) = Total(g, i - 1) + g[(i - 1) + 1]
    BY <1>1, TotalNext
  <1> QED
    BY <1>1, <1>2, <1>3, <1>4

\* Counts of iterations are numbers, and so is what they come to.
LEMMA CostsAreInts ==
  ASSUME NEW file, NEW key, IsSeq(file.header.recipients),
         \A j \in DOMAIN file.header.recipients :
           file.header.recipients[j].capsule.scheme = "SC06" =>
             file.header.recipients[j].capsule.kdf_iterations \in Int,
         NEW i \in DOMAIN file.header.recipients
  PROVE  Cost(file, key, i) \in Int /\ Spent(file, key, i) \in Int
  <1> DEFINE g == [j \in DOMAIN file.header.recipients |-> Cost(file, key, j)]
  <1>1. \A j \in DOMAIN file.header.recipients : Cost(file, key, j) \in Int
    BY DEF Cost, Candidate, KdfCost
  <1>2. Spent(file, key, i) = Total(g, i - 1)
    BY DEF Spent, Cost
  <1>3. i - 1 \in Nat /\ \A j \in 1..(i - 1) : j \in DOMAIN file.header.recipients
    BY IsSeqFacts
  <1>4. \A j \in 1..(i - 1) : g[j] \in Int
    BY <1>1, <1>3
  <1> HIDE DEF g
  <1> QED
    BY <1>1, <1>2, <1>3, <1>4, TotalInt

\* Records that do not decide.
GoesOn == {"passed over", "does not open"}

\* open_header: a record that decides when none before it has.
LEMMA FirstDecides ==
  ASSUME NEW file, NEW key, NEW limits, IsSeq(file.header.recipients),
         limits.max_recipients \in Nat,
         Len(file.header.recipients) <= limits.max_recipients,
         NEW i \in DOMAIN file.header.recipients,
         \A j \in 1..(i - 1) : RecordOutcome(file, key, limits, j) \in GoesOn,
         RecordOutcome(file, key, limits, i) \notin GoesOn
  PROVE  OpenHeader(file, key, limits) =
           IF RecordOutcome(file, key, limits, i) = "opens"
           THEN [error |-> "none", index |-> i]
           ELSE [error |-> RecordOutcome(file, key, limits, i), index |-> 0]
  <1> DEFINE records == file.header.recipients
             stops   == {j \in DOMAIN records :
                           RecordOutcome(file, key, limits, j) \notin GoesOn}
  <1>1. /\ DOMAIN records = 1..Len(records) /\ Len(records) \in Nat
        /\ ~(Len(records) > limits.max_recipients)
    BY IsSeqFacts
  <1>2. i \in stops /\ stops \subseteq Nat
    BY <1>1
  <1>3. \A j \in stops : i <= j
    BY <1>1
  <1>4. Min(stops) = i /\ stops # {}
    <2> HIDE DEF stops
    <2> QED
      BY <1>2, <1>3, LeastIs
  <1>5. stops = {j \in DOMAIN records : RecordOutcome(file, key, limits, j)
                                          \notin {"passed over", "does not open"}}
    BY DEF GoesOn
  <1> HIDE DEF stops
  <1> QED
    BY <1>1, <1>4, <1>5 DEF OpenHeader

\* open_header: no record has decided.
LEMMA NoneDecides ==
  ASSUME NEW file, NEW key, NEW limits, IsSeq(file.header.recipients),
         limits.max_recipients \in Nat,
         Len(file.header.recipients) <= limits.max_recipients,
         \A j \in DOMAIN file.header.recipients :
           RecordOutcome(file, key, limits, j) \in GoesOn
  PROVE  LET records == file.header.recipients
             error   == OpenHeader(file, key, limits).error
             unopened == \E j \in DOMAIN records :
                           RecordOutcome(file, key, limits, j) = "does not open"
             foreign == \E j \in DOMAIN records :
                          records[j].capsule.scheme \in Unsupported
         IN  /\ unopened => error = "HeaderHmacMismatch"
             /\ ~unopened /\ foreign => error = "UnsupportedCapsule"
             /\ ~unopened /\ ~foreign => error = "NoMatchingRecipient"
  <1> DEFINE records == file.header.recipients
             stops   == {j \in DOMAIN records :
                           RecordOutcome(file, key, limits, j)
                             \notin {"passed over", "does not open"}}
  <1>0. ~(Len(records) > limits.max_recipients)
    BY IsSeqFacts
  <1>1. stops = {}
    BY DEF GoesOn
  <1> HIDE DEF stops
  <1> QED
    BY <1>0, <1>1 DEF OpenHeader, stops

\* The errors that decrypt_with_key may end in.
LEMMA OpeningFails ==
  ASSUME NEW file, NEW key, NEW limits, ParseError(file) = "none",
         "none" \in DecodeErrors(file)
  PROVE  LET opened == OpenHeader(file, key, limits) IN
         (IF opened.error # "none" THEN opened.error
          ELSE PayloadError(file, OpenedFmk(file, key, opened.index)))
           \in DecryptErrors(file, key, limits)
  BY DEF DecryptErrors

LEMMA DecodingFails ==
  ASSUME NEW file, NEW key, NEW limits, NEW e,
         \/ ParseError(file) # "none" /\ e = ParseError(file)
         \/ ParseError(file) = "none" /\ e \in DecodeErrors(file) /\ e # "none"
  PROVE  e \in DecryptErrors(file, key, limits) /\ e # "none"
  BY DEF DecryptErrors

\* A record's outcome is never that nothing went wrong.
LEMMA OutcomeIsSome ==
  ASSUME NEW file, NEW key, NEW limits, NEW i
  PROVE  RecordOutcome(file, key, limits, i) # "none"
  BY DEF RecordOutcome

-----------------------------------------------------------------------------
(* Whom a container opens for.                                             *)

\* A record as encrypt writes it: it has nothing that deriving a KEK, or
\* unwrapping the FMK, would refuse.
GoodRecord(r, recipient, fmk) ==
  /\ AddressedTo(r, recipient, fmk)
  /\ r.encrypted_fmk # BadLength
  /\ r.fmk_encryption_method = "XOR"
  /\ recipient.scheme # "SC01" => r.capsule.salt # ShortSalt
  /\ recipient.scheme = "SC06" =>
       /\ r.capsule.password_salt # ShortSalt
       /\ r.capsule.kdf_algorithm = "PBKDF2WithHmacSHA256"
       /\ r.capsule.kdf_iterations = ITERATIONS
  /\ recipient.scheme = "SC01" =>
       r.capsule.sender_public_key # NoPoint /\ r.capsule.curve = Curve[recipient.key]

\* An FMK that is wrapped has its length.
LEMMA WrappedLength ==
  ASSUME NEW draw, NEW recipient, NEW c, recipient.scheme \in Supported
  PROVE  Xor(Fmk(draw), AuthorKek(recipient, c)) # BadLength
  <1>1. <<"fmk", draw>> \notin AuthorKek(recipient, c)
    <2>1. \A a, b, d : <<"fmk", draw>> # <<"kek", a, b, d>>
      OBVIOUS
    <2>2. \A a, b, d : <<"fmk", draw>> # <<"ecdh-kek", a, b, d>>
      OBVIOUS
    <2>3. CASE recipient.scheme = "SC05"
      BY <2>1, <2>3 DEF AuthorKek, Sc05Kek, DeriveSymmetricKek
    <2>4. CASE recipient.scheme = "SC06"
      BY <2>1, <2>4 DEF AuthorKek, Sc06Kek, DeriveSymmetricKek
    <2>5. CASE recipient.scheme = "SC01"
      BY <2>2, <2>5 DEF AuthorKek, Sc01Kek
    <2> QED
      BY <2>3, <2>4, <2>5 DEF Supported
  <1>2. <<"fmk", draw>> \in Xor(Fmk(draw), AuthorKek(recipient, c))
    BY <1>1 DEF Xor, Fmk
  <1>3. <<"fmk", draw>> # <<"length">>
    OBVIOUS
  <1> QED
    BY <1>2, <1>3 DEF BadLength

\* Every record of encrypt is one.
LEMMA FreshRecordGood ==
  ASSUME NEW recipient, NEW d, NEW draw \in Nat \ {0}, recipient.scheme \in Supported
  PROVE  GoodRecord(BuildRecipientRecord(recipient, Fmk(d), draw), recipient, Fmk(d))
  <1> DEFINE r == BuildRecipientRecord(recipient, Fmk(d), draw)
             c == FreshCapsule(recipient, draw)
  <1>1. AddressedTo(r, recipient, Fmk(d))
    BY FreshRecordAddressed
  <1>2. /\ r.capsule = c /\ r.fmk_encryption_method = "XOR"
        /\ r.encrypted_fmk = Xor(Fmk(d), AuthorKek(recipient, c))
    BY DEF BuildRecipientRecord, Record
  <1>3. r.encrypted_fmk # BadLength
    BY <1>2, WrappedLength
  <1>4. draw # 0 /\ draw + 1 # 0
    OBVIOUS
  <1>5. recipient.scheme # "SC01" => c.salt = draw
    BY DEF FreshCapsule, Supported
  <1>6. recipient.scheme = "SC06" =>
          /\ c.password_salt = draw + 1
          /\ c.kdf_algorithm = "PBKDF2WithHmacSHA256" /\ c.kdf_iterations = ITERATIONS
    BY DEF FreshCapsule
  <1>7. recipient.scheme = "SC01" =>
          c.sender_public_key = draw /\ c.curve = Curve[recipient.key]
    BY DEF FreshCapsule
  <1> HIDE DEF r, c
  <1>8. GoodRecord(r, recipient, Fmk(d))
    BY <1>1, <1>2, <1>3, <1>4, <1>5, <1>6, <1>7 DEF GoodRecord, ShortSalt, NoPoint
  <1> QED
    BY <1>8 DEF r

\* A record of another implementation, with a quirk that umbrik passes over, is
\* one too if it is a candidate for any key.
LEMMA ForeignRecordGood ==
  ASSUME NEW recipient, NEW d, NEW draw \in Nat \ {0}, recipient.scheme \in Supported,
         NEW quirk \in {"none"} \cup Foreign,
         NEW key, key.scheme \in Supported,
         Candidate(ForeignRecord(recipient, Fmk(d), draw, quirk), key)
  PROVE  GoodRecord(ForeignRecord(recipient, Fmk(d), draw, quirk), recipient, Fmk(d))
  <1> DEFINE plain == FreshCapsule(recipient, draw)
             r == ForeignRecord(recipient, Fmk(d), draw, quirk)
  <1>0. plain.scheme = recipient.scheme
    BY DEF FreshCapsule, Supported
  <1>1. quirk \notin Unsupported
    <2> SUFFICES ASSUME quirk \in Unsupported PROVE FALSE
      OBVIOUS
    <2>1. r = [Record(recipient, Fmk(d), plain) EXCEPT !.capsule = [scheme |-> quirk]]
      BY DEF ForeignRecord, QuirkyCapsule, Unsupported
    <2>2. r.capsule.scheme = quirk
      BY <2>1 DEF Record
    <2> QED
      BY <2>2 DEF Candidate, Supported, Unsupported
  <1>2. quirk # "unknown_method"
    <2> SUFFICES ASSUME quirk = "unknown_method" PROVE FALSE
      OBVIOUS
    <2>1. r.fmk_encryption_method = "unknown"
      BY DEF ForeignRecord, Record, Unsupported
    <2> QED
      BY <2>1 DEF Candidate
  <1>3. QuirkyCapsule(plain, quirk) = plain
    <2>1. CASE quirk = "none"
      BY <2>1 DEF QuirkyCapsule, Unsupported
    <2>2. CASE quirk = "unknown_kdf"
      <3>1. recipient.scheme # "SC06"
        <4> SUFFICES ASSUME recipient.scheme = "SC06" PROVE FALSE
          OBVIOUS
        <4>1. r = Record(recipient, Fmk(d), [plain EXCEPT !.kdf_algorithm = "unknown"])
          BY <2>2, <1>0 DEF ForeignRecord, QuirkyCapsule, Unsupported
        <4>2. r.capsule.scheme = "SC06" /\ r.capsule.kdf_algorithm = "unknown"
          BY <4>1 DEF Record, FreshCapsule
        <4> QED
          BY <4>2 DEF Candidate
      <3> QED
        BY <1>0, <2>2, <3>1 DEF QuirkyCapsule, Unsupported
    <2> QED
      BY <1>1, <1>2, <2>1, <2>2 DEF Foreign
  <1>4. r = BuildRecipientRecord(recipient, Fmk(d), draw)
    BY <1>1, <1>2, <1>3 DEF ForeignRecord, BuildRecipientRecord, Foreign
  <1> QED
    BY <1>4, FreshRecordGood

\* Whether a good record opens the header, or not, it does not end the scan with
\* an error, as long as the budget lasts.
LEMMA GoodOutcome ==
  ASSUME NEW file, NEW key, NEW limits, NEW i, NEW recipient, NEW fmk,
         GoodRecord(file.header.recipients[i], recipient, fmk),
         Candidate(file.header.recipients[i], key),
         key.scheme = "SC05" => ~(key.holds \subseteq ShortSecret),
         KdfCost(file.header.recipients[i], key)
           <= limits.max_total_kdf_iterations - Spent(file, key, i),
         limits.max_total_kdf_iterations - Spent(file, key, i) \in Int
  PROVE  RecordOutcome(file, key, limits, i) =
           IF Verify(file, UnwrapXor(file.header.recipients[i], key))
           THEN "opens" ELSE "does not open"
  <1> DEFINE r == file.header.recipients[i]
             b == limits.max_total_kdf_iterations - Spent(file, key, i)
  <1>1. key.scheme = recipient.scheme /\ key.scheme \in Supported
    BY DEF GoodRecord, AddressedTo, Candidate
  <1>2. KekError(r, key, b) = "none"
    <2>1. CASE key.scheme = "SC01"
      BY <2>1 DEF KekError
    <2>2. CASE key.scheme = "SC05"
      BY <1>1, <2>2 DEF KekError, GoodRecord
    <2>3. CASE key.scheme = "SC06"
      <3>1. /\ r.capsule.kdf_iterations = ITERATIONS
            /\ r.capsule.salt # ShortSalt /\ r.capsule.password_salt # ShortSalt
        BY <1>1, <2>3 DEF GoodRecord
      <3>2. ITERATIONS <= b /\ b \in Int
        BY <2>3, <3>1 DEF KdfCost
      <3>3. ~(ITERATIONS < 0) /\ ~(ITERATIONS > b) /\ ITERATIONS # 0
            /\ ~(ITERATIONS > MAX_ITERATIONS)
        <4> HIDE DEF b
        <4> QED
          BY <3>2, IterationsAssumption
      <3> QED
        BY <2>3, <3>1, <3>3 DEF KekError
    <2> QED
      BY <1>1, <2>1, <2>2, <2>3 DEF Supported
  <1> QED
    BY <1>1, <1>2 DEF RecordOutcome, GoodRecord

\* A container opens for a key if a record is addressed to it, the candidates up
\* to there are good, and the budget lasts.
LEMMA OpensFor ==
  ASSUME NEW file, NEW key, NEW limits, NEW fmk, NEW to,
         IsSeq(file.header.recipients), limits.max_recipients \in Nat,
         Len(file.header.recipients) <= limits.max_recipients,
         NEW n \in DOMAIN file.header.recipients,
         \A j \in 1..n : Candidate(file.header.recipients[j], key) =>
           /\ GoodRecord(file.header.recipients[j], to[j], fmk)
           /\ KdfCost(file.header.recipients[j], key)
                <= limits.max_total_kdf_iterations - Spent(file, key, j)
           /\ limits.max_total_kdf_iterations - Spent(file, key, j) \in Int,
         Candidate(file.header.recipients[n], key),
         key.scheme = "SC01" \/ key.holds = {to[n].key},
         key.scheme = "SC05" => ~(key.holds \subseteq ShortSecret),
         Verify(file, fmk)
  PROVE  \E k \in 1..n :
           /\ OpenHeader(file, key, limits) = [error |-> "none", index |-> k]
           /\ Verify(file, OpenedFmk(file, key, k))
  <1> DEFINE records == file.header.recipients
             Out(j)  == RecordOutcome(file, key, limits, j)
             T       == {j \in 1..n : Out(j) = "opens"}
  <1>1. DOMAIN records = 1..Len(records) /\ Len(records) \in Nat /\ n \in 1..n
        /\ n \in Nat /\ 1..n \subseteq DOMAIN records
    BY IsSeqFacts
  <1>2. ASSUME NEW j \in 1..n, Candidate(records[j], key)
        PROVE  Out(j) = IF Verify(file, UnwrapXor(records[j], key))
                        THEN "opens" ELSE "does not open"
    BY <1>2, GoodOutcome
  <1>3. ASSUME NEW j \in 1..n, ~Candidate(records[j], key)
        PROVE  Out(j) = "passed over"
    BY <1>3 DEF RecordOutcome
  <1>4. UnwrapXor(records[n], key) = fmk
    BY <1>1, OwnerUnwraps DEF GoodRecord
  <1>5. n \in T
    BY <1>1, <1>2, <1>4
  <1>6. T \subseteq Nat
    OBVIOUS
  <1>7. PICK k \in T : \A j \in T : k <= j
    BY <1>5, <1>6, LeastNatural
  <1>8. k \in 1..n /\ Out(k) = "opens" /\ k \in DOMAIN records
    BY <1>1
  <1>9. \A j \in 1..(k - 1) : Out(j) \in GoesOn
    <2> SUFFICES ASSUME NEW j \in 1..(k - 1) PROVE Out(j) \in GoesOn
      OBVIOUS
    <2>1. j \in 1..n /\ ~(k <= j)
      BY <1>1, <1>8
    <2>2. Out(j) # "opens"
      BY <1>7, <2>1
    <2> QED
      BY <1>2, <1>3, <2>1, <2>2 DEF GoesOn
  <1>10. OpenHeader(file, key, limits) = [error |-> "none", index |-> k]
    <2>1. Out(k) \notin GoesOn
      BY <1>8 DEF GoesOn
    <2> QED
      BY <1>8, <1>9, <2>1, FirstDecides
  <1>11. Verify(file, OpenedFmk(file, key, k))
    BY <1>2, <1>3, <1>8 DEF OpenedFmk
  <1> QED
    BY <1>8, <1>10, <1>11

\* A whole container that opens gives its payload away.
LEMMA OpensWhole ==
  ASSUME NEW file, NEW key, NEW limits, NEW k, ParseError(file) = "none",
         DecodeErrors(file) = {"none"},
         OpenHeader(file, key, limits) = [error |-> "none", index |-> k],
         PayloadError(file, OpenedFmk(file, key, k)) = "none"
  PROVE  DecryptErrors(file, key, limits) = {"none"}
  BY DEF DecryptErrors

\* A container that is as its author sealed it gives up its payload to its FMK,
\* and to nothing else.
LEMMA SealedFile ==
  ASSUME NEW file, NEW records, NEW d, NEW nonce, NEW msg, records # <<>>,
         file = Container(records, "CHACHA20POLY1305", Fmk(d), nonce, msg)
  PROVE  /\ ParseError(file) = "none" /\ DecodeErrors(file) = {"none"}
         /\ \A x : Verify(file, x) <=> x = Fmk(d)
         /\ PayloadError(file, Fmk(d)) = "none"
         /\ file.header.recipients = records
  <1> DEFINE header == [recipients |-> records,
                        payload_encryption_method |-> "CHACHA20POLY1305"]
             bytes  == HeaderBytes(header, TRUE)
             hmac   == HeaderHmac(Fmk(d), bytes)
  <1>1. /\ file.written = Pieces /\ file.flaws = {} /\ file.header = header
        /\ file.hmac = hmac /\ file.nonce = nonce
        /\ file.ciphertext = [cek |-> DeriveCek(Fmk(d)), nonce |-> nonce,
                              aad |-> BuildAad(bytes, hmac), msg |-> msg]
    BY DEF Container
  <1>2. /\ header.recipients = records
        /\ header.payload_encryption_method = "CHACHA20POLY1305"
    OBVIOUS
  <1> HIDE DEF header, hmac, bytes
  <1>3. ParseError(file) = "none"
    BY <1>1 DEF ParseError, Pieces, PrefixPieces, MinPieces
  <1>4. DecodeErrors(file) = {"none"}
    BY <1>1, <1>2 DEF DecodeErrors, DecodeError
  <1>5. EnvelopeHeaderBytes(file) = bytes
    BY <1>1 DEF EnvelopeHeaderBytes, bytes
  <1>6. ASSUME NEW x PROVE Verify(file, x) <=> x = Fmk(d)
    BY <1>1, <1>5, HhkInjective DEF Verify, HeaderHmac, hmac
  <1>7. PayloadError(file, Fmk(d)) = "none"
    BY <1>1, <1>2, <1>5 DEF PayloadError, Authentic
  <1> QED
    BY <1>1, <1>2, <1>3, <1>4, <1>6, <1>7

\* Every candidate costs at most c.
LEMMA SpentBound ==
  ASSUME NEW file, NEW key, IsSeq(file.header.recipients),
         NEW n \in DOMAIN file.header.recipients, NEW c \in Nat,
         \A j \in 1..n : Cost(file, key, j) \in Nat /\ Cost(file, key, j) <= c
  PROVE  /\ Spent(file, key, n) \in Nat
         /\ Spent(file, key, n) + Cost(file, key, n) <= n * c
  <1> DEFINE g == [j \in DOMAIN file.header.recipients |-> Cost(file, key, j)]
  <1>1. n \in Nat \ {0} /\ n - 1 \in Nat /\ (n - 1) + 1 = n
        /\ 1..n \subseteq DOMAIN file.header.recipients
    BY IsSeqFacts
  <1>2. Spent(file, key, n) = Total(g, n - 1)
    BY DEF Spent, Cost
  <1>3. \A j \in 1..n : g[j] = Cost(file, key, j)
    BY <1>1
  <1> HIDE DEF g
  <1>4. \A j \in 1..n : g[j] \in Nat /\ g[j] \in Int /\ g[j] <= c
    BY <1>3
  <1>5. Total(g, n - 1) \in Nat
    <2>1. n - 1 \in 0..n
      BY <1>1
    <2> QED
      BY <1>1, <1>4, <2>1, TotalMonotone
  <1>6. Total(g, n) <= n * c
    BY <1>1, <1>4, TotalBound
  <1>7. Total(g, n) = Total(g, n - 1) + g[n]
    BY <1>1, TotalNext
  <1> QED
    BY <1>1, <1>2, <1>3, <1>5, <1>6, <1>7

\* No quirk but those that umbrik passes over changes the scheme of a record, or
\* whose it is.
LEMMA ForeignKeepsAddress ==
  ASSUME NEW recipient, NEW fmk, NEW draw, NEW quirk, recipient.scheme \in Supported,
         quirk \notin {"none"} \cup Foreign
  PROVE  LET r == ForeignRecord(recipient, fmk, draw, quirk) IN
         /\ r.capsule.scheme = recipient.scheme
         /\ recipient.scheme = "SC01" => r.capsule.recipient_public_key = recipient.key
  <1> DEFINE plain == FreshCapsule(recipient, draw)
             capsule == QuirkyCapsule(plain, quirk)
  <1>1. quirk \notin Unsupported /\ quirk # "unknown_method"
    BY DEF Foreign
  <1>2. /\ capsule.scheme = recipient.scheme
        /\ recipient.scheme = "SC01" => capsule.recipient_public_key = recipient.key
    BY <1>1 DEF QuirkyCapsule, FreshCapsule, Supported
  <1>3. ForeignRecord(recipient, fmk, draw, quirk).capsule = capsule
    <2> HIDE DEF capsule
    <2>1. LET r == Record(recipient, fmk, capsule) IN
          ForeignRecord(recipient, fmk, draw, quirk)
            \in {r, [r EXCEPT !.encrypted_fmk = BadLength]}
      BY <1>1 DEF ForeignRecord, capsule
    <2> QED
      BY <2>1 DEF Record
  <1> HIDE DEF capsule
  <1> QED
    BY <1>2, <1>3
=============================================================================
