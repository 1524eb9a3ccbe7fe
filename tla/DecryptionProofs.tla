-------------------------- MODULE DecryptionProofs ---------------------------
(* Theorems about Decryption, for any containers, authors, damage, keys,     *)
(* limits and cards.                                                         *)
EXTENDS Decryption, ContainerProofs, FiniteSetTheorems

USE DEF Unread

-----------------------------------------------------------------------------
(* What authors make.                                                      *)

\* The number of iterations in a capsule is a number.
LEMMA CapsuleIterations ==
  ASSUME NEW recipient, NEW draw, NEW quirk, recipient.scheme \in Supported
  PROVE  LET plain == FreshCapsule(recipient, draw)
             c     == QuirkyCapsule(plain, quirk)
         IN  /\ plain.scheme = "SC06" => plain.kdf_iterations \in Int
             /\ c.scheme = "SC06" => c.kdf_iterations \in Int
  <1> DEFINE plain == FreshCapsule(recipient, draw)
             c == QuirkyCapsule(plain, quirk)
  <1>1. plain.scheme = recipient.scheme
    BY DEF FreshCapsule, Supported
  <1>2. CASE recipient.scheme = "SC06"
    <2>1. plain = [scheme |-> "SC06", salt |-> draw, password_salt |-> draw + 1,
                   kdf_algorithm |-> "PBKDF2WithHmacSHA256",
                   kdf_iterations |-> ITERATIONS]
      BY <1>2 DEF FreshCapsule
    <2>2. ITERATIONS \in Int /\ MAX_ITERATIONS + 1 \in Int
      BY IterationsAssumption
    <2> HIDE DEF plain
    <2>3. \/ c = [scheme |-> quirk] /\ quirk \in Unsupported
          \/ c.kdf_iterations \in {ITERATIONS, MAX_ITERATIONS + 1, 0, -1}
      BY <2>1 DEF QuirkyCapsule
    <2> QED
      BY <2>1, <2>2, <2>3 DEF Unsupported, plain
  <1>3. CASE recipient.scheme # "SC06"
    <2>1. c.scheme \in {plain.scheme} \cup Unsupported
      BY <1>1, <1>3 DEF QuirkyCapsule, FreshCapsule, Supported
    <2> QED
      BY <1>1, <1>3, <2>1 DEF Unsupported
  <1> QED
    BY <1>2, <1>3

\* A record as its author writes it: addressed to the recipient, or of no use
\* to umbrik; with a number of iterations in it.
AuthorRecord(r, recipient, m) ==
  /\ \/ r.capsule.scheme \in Unsupported
     \/ r.encrypted_fmk = BadLength
     \/ AddressedTo(r, recipient, m)
  /\ r.capsule.scheme = "SC06" => r.capsule.kdf_iterations \in Int

\* Both kinds of authors write such records.
LEMMA AuthorRecords ==
  ASSUME NEW recipient, NEW m, NEW draw, NEW quirk,
         recipient.scheme \in Supported
  PROVE  /\ AuthorRecord(BuildRecipientRecord(recipient, m, draw), recipient, m)
         /\ AuthorRecord(ForeignRecord(recipient, m, draw, quirk), recipient, m)
  <1> DEFINE plain == FreshCapsule(recipient, draw)
             c == QuirkyCapsule(plain, quirk)
  <1>1. BuildRecipientRecord(recipient, m, draw).capsule = plain
    BY DEF BuildRecipientRecord, Record
  <1>2. ForeignRecord(recipient, m, draw, quirk).capsule \in {plain, c}
    BY DEF ForeignRecord, Record
  <1>3. /\ plain.scheme = "SC06" => plain.kdf_iterations \in Int
        /\ c.scheme = "SC06" => c.kdf_iterations \in Int
    BY CapsuleIterations
  <1> HIDE DEF plain, c
  <1> QED
    BY <1>1, <1>2, <1>3, FreshRecordAddressed, ForeignRecordAddressed
       DEF AuthorRecord

\* What a container is when it leaves its author.
Sealed(c, s, job, draw) ==
  /\ c.written = Pieces /\ c.flaws = {}
  /\ c.hmac = HeaderHmac(Fmk(draw), HeaderBytes(c.header, TRUE))
  /\ c.ciphertext.cek = DeriveCek(Fmk(draw))
  /\ c.ciphertext.nonce = c.nonce
  /\ c.ciphertext.aad = BuildAad(HeaderBytes(c.header, TRUE), c.hmac)
  /\ c.ciphertext.msg = s
  /\ DOMAIN c.header.recipients = DOMAIN job.to
  /\ \A i \in DOMAIN job.to :
       AuthorRecord(c.header.recipients[i], job.to[i], Fmk(draw))

\* Every container made is.
LEMMA ContainerSealed ==
  ASSUME NEW s \in Slot, NEW job \in Jobs[s], NEW draw \in Nat
  PROVE  /\ Sealed(ContainerOf(s, job, draw), s, job, draw)
         /\ FileOK(ContainerOf(s, job, draw))
  <1> DEFINE c == ContainerOf(s, job, draw)
             ours == [i \in DOMAIN job.to |->
                        BuildRecipientRecord(job.to[i], Fmk(draw), draw + 2 * i)]
             theirs == [i \in DOMAIN job.to |->
                          ForeignRecord(job.to[i], Fmk(draw), draw + 2 * i,
                                        job.quirks[i])]
             records == IF job.by = "umbrik" THEN ours ELSE theirs
             method == IF job.by = "umbrik" THEN "CHACHA20POLY1305" ELSE job.method
  <1>1. c = Container(records, method, Fmk(draw), draw + 1, s)
    BY DEF ContainerOf, Encrypted, ForeignContainer
  <1>2. /\ DOMAIN job.to = 1..Len(job.to) /\ Len(job.to) \in Nat
        /\ \A i \in DOMAIN job.to : job.to[i].scheme \in Supported
    BY JobsAssumption, IsSeqFacts
  <1>3. DOMAIN records = DOMAIN job.to /\ records = [i \in DOMAIN job.to |-> records[i]]
    OBVIOUS
  <1>4. ASSUME NEW i \in DOMAIN job.to
        PROVE  AuthorRecord(records[i], job.to[i], Fmk(draw))
    <2>1. records[i] \in {BuildRecipientRecord(job.to[i], Fmk(draw), draw + 2 * i),
                          ForeignRecord(job.to[i], Fmk(draw), draw + 2 * i,
                                        job.quirks[i])}
      OBVIOUS
    <2> HIDE DEF records
    <2> QED
      BY <1>2, <2>1, AuthorRecords
  <1> HIDE DEF records, method, c
  <1>5. IsSeq(records)
    BY <1>2, <1>3, IsSeqIntro
  <1>6. /\ c.written = Pieces /\ c.flaws = {}
        /\ c.header = [recipients |-> records, payload_encryption_method |-> method]
        /\ c.hmac = HeaderHmac(Fmk(draw), HeaderBytes(c.header, TRUE))
        /\ c.ciphertext.cek = DeriveCek(Fmk(draw))
        /\ c.ciphertext.nonce = c.nonce
        /\ c.ciphertext.aad = BuildAad(HeaderBytes(c.header, TRUE), c.hmac)
        /\ c.ciphertext.msg = s
        /\ c = [written |-> c.written, flaws |-> c.flaws, header |-> c.header,
                hmac |-> c.hmac, nonce |-> c.nonce, ciphertext |-> c.ciphertext]
    BY <1>1 DEF Container
  <1>7. c.header.recipients = records
    BY <1>6
  <1>8. Sealed(c, s, job, draw)
    BY <1>3, <1>4, <1>6, <1>7 DEF Sealed
  <1>9. FileOK(c)
    <2>1. c.written \in 0..Pieces /\ c.flaws \subseteq Flaw
      BY <1>6 DEF Pieces
    <2>2. ASSUME NEW i \in DOMAIN records
          PROVE  records[i].capsule.scheme = "SC06" => records[i].capsule.kdf_iterations \in Int
      BY <1>3, <1>4 DEF AuthorRecord
    <2> QED
      BY <1>5, <1>6, <1>7, <2>1, <2>2 DEF FileOK, HeaderOK
  <1> QED
    BY <1>8, <1>9 DEF c

-----------------------------------------------------------------------------
(* Provenance.                                                             *)

\* A file with more or less of it written.
LEMMA Rewritten ==
  ASSUME NEW f, FileOK(f), NEW n \in 0..Pieces
  PROVE  LET g == [f EXCEPT !.written = n] IN
         /\ FileOK(g) /\ g.written = n
         /\ g.hmac = f.hmac /\ g.ciphertext = f.ciphertext
         /\ g.header = f.header /\ g.flaws = f.flaws
  <1> DEFINE g == [f EXCEPT !.written = n]
  <1>1. /\ g = [written |-> n, flaws |-> f.flaws, header |-> f.header,
                hmac |-> f.hmac, nonce |-> f.nonce, ciphertext |-> f.ciphertext]
    BY DEF FileOK
  <1> HIDE DEF g
  <1>2. /\ g.written = n /\ g.flaws = f.flaws /\ g.header = f.header
        /\ g.hmac = f.hmac /\ g.ciphertext = f.ciphertext /\ g.nonce = f.nonce
    BY <1>1
  <1>3. FileOK(g)
    BY <1>1, <1>2 DEF FileOK
  <1> QED
    BY <1>2, <1>3 DEF g

\* The records that are left when one is removed.
LEMMA RecordsLeft ==
  ASSUME NEW header, IsSeq(header.recipients), NEW i \in DOMAIN header.recipients
  PROVE  LET left == SubSeq(header.recipients, 1, i - 1)
                     \o SubSeq(header.recipients, i + 1, Len(header.recipients))
         IN  /\ IsSeq(left)
             /\ \A j \in DOMAIN left : \E k \in DOMAIN header.recipients :
                  left[j] = header.recipients[k]
  <1> DEFINE r == header.recipients
             S == {r[j] : j \in DOMAIN r}
             left == SubSeq(r, 1, i - 1) \o SubSeq(r, i + 1, Len(r))
  <1>1. r \in Seq(S) /\ i \in 1..Len(r) /\ Len(r) \in Nat
    BY IsSeqFacts DEF IsSeq
  <1> HIDE DEF S
  <1>2. left \in Seq(S)
    BY <1>1
  <1> HIDE DEF left
  <1>3. /\ DOMAIN left = 1..Len(left) /\ Len(left) \in Nat
        /\ \A j \in DOMAIN left : left[j] \in S
        /\ left = [j \in 1..Len(left) |-> left[j]]
    BY <1>2
  <1>4. IsSeq(left)
    BY <1>3, IsSeqIntro
  <1> QED
    BY <1>3, <1>4 DEF left, S

\* A part of a file replaced.
LEMMA Replaced ==
  ASSUME NEW f, FileOK(f), NEW h, NEW x
  PROVE  /\ HeaderOK(h) => FileOK([f EXCEPT !.header = h])
         /\ FileOK([f EXCEPT !.hmac = x])
         /\ FileOK([f EXCEPT !.nonce = x])
         /\ FileOK([f EXCEPT !.ciphertext = x])
         /\ x \in Flaw => FileOK([f EXCEPT !.flaws = @ \cup {x}])
  <1> DEFINE File(fl, hd, hm, no, ci) ==
               [written |-> f.written, flaws |-> fl, header |-> hd, hmac |-> hm,
                nonce |-> no, ciphertext |-> ci]
  <1>1. f = File(f.flaws, f.header, f.hmac, f.nonce, f.ciphertext)
    BY DEF FileOK
  <1>2. /\ [f EXCEPT !.header = h] = File(f.flaws, h, f.hmac, f.nonce, f.ciphertext)
        /\ [f EXCEPT !.hmac = x] = File(f.flaws, f.header, x, f.nonce, f.ciphertext)
        /\ [f EXCEPT !.nonce = x] = File(f.flaws, f.header, f.hmac, x, f.ciphertext)
        /\ [f EXCEPT !.ciphertext = x] = File(f.flaws, f.header, f.hmac, f.nonce, x)
        /\ [f EXCEPT !.flaws = @ \cup {x}]
             = File(f.flaws \cup {x}, f.header, f.hmac, f.nonce, f.ciphertext)
    BY <1>1
  <1>3. ASSUME NEW fl, NEW hd, NEW hm, NEW no, NEW ci, fl \subseteq Flaw,
               HeaderOK(hd)
        PROVE  FileOK(File(fl, hd, hm, no, ci))
    BY <1>3 DEF FileOK
  <1>4. f.flaws \subseteq Flaw /\ HeaderOK(f.header)
    BY DEF FileOK
  <1>5. x \in Flaw => f.flaws \cup {x} \subseteq Flaw
    BY <1>4
  <1> HIDE DEF File
  <1> QED
    BY <1>2, <1>3, <1>4, <1>5

\* Whatever becomes of a complete file, its HMAC and its ciphertext are its own
\* or those of another complete file.
LEMMA DamagedOK ==
  ASSUME NEW f, FileOK(f), NEW g \in Damaged(f),
         \A s \in Slot : files[s] # <<>> => FileOK(files[s][1])
  PROVE  /\ FileOK(g)
         /\ \/ g.hmac = f.hmac
            \/ \E s \in Slot : /\ files[s] # <<>> /\ files[s][1].written = Pieces
                               /\ g.hmac = files[s][1].hmac
         /\ \/ g.ciphertext = f.ciphertext
            \/ \E s \in Slot : /\ files[s] # <<>> /\ files[s][1].written = Pieces
                               /\ g.ciphertext = files[s][1].ciphertext
  <1>0. f = [written |-> f.written, flaws |-> f.flaws, header |-> f.header,
             hmac |-> f.hmac, nonce |-> f.nonce, ciphertext |-> f.ciphertext]
    BY DEF FileOK
  <1>1. CASE \E flaw \in Flaw : g = [f EXCEPT !.flaws = @ \cup {flaw}]
    <2>1. PICK flaw \in Flaw : g = [f EXCEPT !.flaws = @ \cup {flaw}]
      BY <1>1
    <2>2. g.hmac = f.hmac /\ g.ciphertext = f.ciphertext
      BY <1>0, <2>1
    <2> QED
      BY <2>1, <2>2, Replaced
  <1>2. CASE \E n \in 0..(f.written - 1) : g = [f EXCEPT !.written = n]
    <2>1. PICK n \in 0..(f.written - 1) : g = [f EXCEPT !.written = n]
      BY <1>2
    <2>2. n \in 0..Pieces
      BY DEF FileOK, Pieces
    <2> QED
      BY <2>1, <2>2, Rewritten
  <1>3. CASE \E i \in DOMAIN f.header.recipients, l \in Labels :
               g = [f EXCEPT !.header.recipients[i].key_label = l]
    <2>1. PICK i \in DOMAIN f.header.recipients, l \in Labels :
               g = [f EXCEPT !.header.recipients[i].key_label = l]
      BY <1>3
    <2> DEFINE r == f.header.recipients
               q == [r EXCEPT ![i].key_label = l]
               h == [f.header EXCEPT !.recipients = q]
    <2>2. g = [f EXCEPT !.header = h]
      BY <2>1
    <2>3. g.hmac = f.hmac /\ g.ciphertext = f.ciphertext
      BY <1>0, <2>2
    <2>4. DOMAIN r = 1..Len(r) /\ Len(r) \in Nat
      BY IsSeqFacts DEF FileOK, HeaderOK
    <2>5. DOMAIN q = DOMAIN r /\ q = [j \in DOMAIN r |-> q[j]]
      OBVIOUS
    <2>6. IsSeq(q)
      <3> HIDE DEF q
      <3> QED
        BY <2>4, <2>5, IsSeqIntro
    <2>7. \A j \in DOMAIN q : q[j].capsule = r[j].capsule
      OBVIOUS
    <2> HIDE DEF q
    <2>8. h.recipients = q /\ h = [recipients |-> q,
                 payload_encryption_method |-> h.payload_encryption_method]
      BY DEF FileOK, HeaderOK
    <2>9. HeaderOK(h)
      BY <2>5, <2>6, <2>7, <2>8 DEF FileOK, HeaderOK
    <2> HIDE DEF h
    <2> QED
      BY <2>2, <2>3, <2>9, Replaced
  <1>4. CASE \E i \in DOMAIN f.header.recipients :
               g = [f EXCEPT !.header = WithoutRecord(@, i)]
    <2>1. PICK i \in DOMAIN f.header.recipients :
               g = [f EXCEPT !.header = WithoutRecord(@, i)]
      BY <1>4
    <2> DEFINE r == f.header.recipients
               q == SubSeq(r, 1, i - 1) \o SubSeq(r, i + 1, Len(r))
               h == [f.header EXCEPT !.recipients = q]
    <2>2. g = [f EXCEPT !.header = h]
      BY <2>1 DEF WithoutRecord
    <2>3. g.hmac = f.hmac /\ g.ciphertext = f.ciphertext
      BY <1>0, <2>2
    <2>4. IsSeq(q) /\ \A j \in DOMAIN q : \E k \in DOMAIN r : q[j] = r[k]
      BY RecordsLeft DEF FileOK, HeaderOK
    <2> HIDE DEF q
    <2>5. h.recipients = q /\ h = [recipients |-> q,
                 payload_encryption_method |-> h.payload_encryption_method]
      BY DEF FileOK, HeaderOK
    <2>6. HeaderOK(h)
      BY <2>4, <2>5 DEF FileOK, HeaderOK
    <2> HIDE DEF h
    <2> QED
      BY <2>2, <2>3, <2>6, Replaced
  <1>5. CASE \E s \in Slot :
               /\ files[s] # <<>> /\ files[s][1].written = Pieces
               /\ g \in {[f EXCEPT !.header = files[s][1].header],
                         [f EXCEPT !.hmac = files[s][1].hmac],
                         [f EXCEPT !.nonce = files[s][1].nonce],
                         [f EXCEPT !.ciphertext = files[s][1].ciphertext]}
    <2>1. PICK s \in Slot :
               /\ files[s] # <<>> /\ files[s][1].written = Pieces
               /\ g \in {[f EXCEPT !.header = files[s][1].header],
                         [f EXCEPT !.hmac = files[s][1].hmac],
                         [f EXCEPT !.nonce = files[s][1].nonce],
                         [f EXCEPT !.ciphertext = files[s][1].ciphertext]}
      BY <1>5
    <2>2. HeaderOK(files[s][1].header)
      BY <2>1 DEF FileOK
    <2>3. FileOK(g)
      <3>1. CASE g = [f EXCEPT !.header = files[s][1].header]
        BY <2>2, <3>1, Replaced
      <3>2. CASE g = [f EXCEPT !.hmac = files[s][1].hmac]
        BY <3>2, Replaced
      <3>3. CASE g = [f EXCEPT !.nonce = files[s][1].nonce]
        BY <3>3, Replaced
      <3>4. CASE g = [f EXCEPT !.ciphertext = files[s][1].ciphertext]
        BY <3>4, Replaced
      <3> QED
        BY <2>1, <3>1, <3>2, <3>3, <3>4
    <2>4. /\ g.hmac \in {f.hmac, files[s][1].hmac}
          /\ g.ciphertext \in {f.ciphertext, files[s][1].ciphertext}
      BY <1>0, <2>1
    <2> QED
      BY <2>1, <2>3, <2>4
  <1> QED
    BY <1>1, <1>2, <1>3, <1>4, <1>5 DEF Damaged

\* A sealed container is never taken back or replaced.
LEMMA MadeStays ==
  ASSUME TypeOK, [Next]_vars, NEW s \in Slot, made[s] # <<>>
  PROVE  made'[s] = made[s]
  <1>1. ASSUME NEW t \in Slot, Encrypt(t)
        PROVE  made'[s] = made[s]
    BY <1>1 DEF Encrypt, TypeOK
  <1>2. CASE UNCHANGED made
    BY <1>2
  <1> QED
    BY <1>1, <1>2 DEF Next, vars, storage, given, scan, WritePiece, WriterStops,
       Damage, TurnAway, Start, Parse, SkipRecord, TryRecord, CallProvider, PerformSoftware,
       AskPin, TokenFails, PinRejected, CardRefuses, PinAccepted, OtherCard,
       NoRecordLeft, DecryptPayload, Extract, ListEntries, Done

\* What is from sealed containers stays so.
LEMMA SealedStays ==
  ASSUME NEW f, NEW sealed, NEW sealed1, PartsSealed(f, sealed),
         \A s \in Slot : sealed[s] # <<>> => sealed1[s] = sealed[s]
  PROVE  PartsSealed(f, sealed1)
  BY DEF PartsSealed

\* Once it has started, the command changes neither the files nor what it was
\* given; and nothing but the command moves it.
LEMMA KindsOfStep ==
  ASSUME [Next]_vars
  PROVE  \/ \E s \in Slot : Encrypt(s) \/ WritePiece(s) \/ WriterStops(s)
         \/ Damage
         \/ TurnAway
         \/ Start
         \/ UNCHANGED <<storage, given>> /\ (pc \in Unread => UNCHANGED vars)
  BY DEF Next, vars, storage, given, scan, Parse, SkipRecord, MoreRecords,
     TryRecord, CallProvider, PerformSoftware, AskPin, TokenFails, PinRejected,
     CardRefuses, PinAccepted, OtherCard, NoRecordLeft, DecryptPayload, Extract,
     ListEntries, Done, Ended

LEMMA EncryptProvenance ==
  ASSUME TypeOK, Provenance, NEW s \in Slot, Encrypt(s),
         \A t \in Slot : made[t] # <<>> => made'[t] = made[t]
  PROVE  Provenance'
  <1>1. PICK job \in Jobs[s] :
          LET c == ContainerOf(s, job, rng) IN
          /\ files' = [files EXCEPT ![s] = <<[c EXCEPT !.written = 0]>>]
          /\ \/ /\ EncryptError(job.to) = "none"
                /\ made' = [made EXCEPT ![s] = <<c, job>>]
                /\ writer' = writer \cup {s}
             \/ UNCHANGED <<made, writer>>
          /\ rng' = rng + Draws(job.to)
    BY DEF Encrypt
  <1> DEFINE c == ContainerOf(s, job, rng)
             f == [c EXCEPT !.written = 0]
  <1>2. /\ DOMAIN files = Slot /\ DOMAIN made = Slot /\ rng \in Nat /\ rng > 0
        /\ made[s] = <<>> /\ files[s] = <<>> /\ writer \subseteq Slot
    BY DEF TypeOK, Encrypt
  <1>3. Len(job.to) \in Nat
    BY JobsAssumption, IsSeqFacts
  <1>4. rng' \in Nat /\ rng <= rng'
    BY <1>1, <1>2, <1>3 DEF Draws
  <1>5. FileOK(c)
    BY <1>2, ContainerSealed
  <1>6. FileOK(f) /\ f.written = 0 /\ f.hmac = c.hmac /\ f.ciphertext = c.ciphertext
    <2> HIDE DEF c
    <2>1. 0 \in 0..Pieces
      BY DEF Pieces
    <2> QED
      BY <1>5, <2>1, Rewritten
  <1>7. files' = [files EXCEPT ![s] = <<f>>]
    BY <1>1
  <1>8. \/ /\ made' = [made EXCEPT ![s] = <<c, job>>] /\ writer' = writer \cup {s}
           /\ EncryptError(job.to) = "none"
        \/ made' = made /\ writer' = writer
    BY <1>1
  <1> HIDE DEF c, f
  <1>9. MadeOK'
    <2> SUFFICES ASSUME NEW t \in Slot, made'[t] # <<>>
                 PROVE  /\ files'[t] # <<>>
                        /\ made'[t][2] \in Jobs[t]
                        /\ EncryptError(made'[t][2].to) = "none"
                        /\ \E draw \in 1..rng' :
                             made'[t] = <<ContainerOf(t, made'[t][2], draw), made'[t][2]>>
      BY DEF MadeOK
    <2>1. CASE t = s
      <3>1. /\ made'[t] = <<c, job>> /\ files'[t] = <<f>>
            /\ EncryptError(job.to) = "none"
        BY <1>2, <1>7, <1>8, <2>1
      <3>2. rng \in 1..rng'
        BY <1>2, <1>4
      <3> QED
        BY <2>1, <3>1, <3>2 DEF c
    <2>2. CASE t # s
      <3>1. made'[t] = made[t] /\ files'[t] = files[t]
        BY <1>2, <1>7, <1>8, <2>2
      <3>2. \A draw \in 1..rng : draw \in 1..rng'
        BY <1>2, <1>4
      <3> QED
        BY <3>1, <3>2 DEF Provenance, MadeOK
    <2> QED
      BY <2>1, <2>2
  <1>10. FilesOK'
    <2> SUFFICES ASSUME NEW t \in Slot, files'[t] # <<>>
                 PROVE  /\ files'[t] = <<files'[t][1]>>
                        /\ FileOK(files'[t][1]) /\ PartsSealed(files'[t][1], made')
      BY DEF FilesOK
    <2>1. CASE t = s
      BY <1>2, <1>6, <1>7, <2>1 DEF PartsSealed
    <2>2. CASE t # s
      <3>1. files'[t] = files[t]
        BY <1>2, <1>7, <2>2
      <3> QED
        BY <3>1, SealedStays DEF Provenance, FilesOK
    <2> QED
      BY <2>1, <2>2
  <1>11. WritersOK'
    <2> SUFFICES ASSUME NEW t \in writer'
                 PROVE  /\ made'[t] # <<>>
                        /\ files'[t][1].hmac = made'[t][1].hmac
                        /\ files'[t][1].ciphertext = made'[t][1].ciphertext
                        /\ files'[t][1].written < Pieces
      BY DEF WritersOK
    <2>1. CASE t = s /\ writer' = writer \cup {s} /\ made' = [made EXCEPT ![s] = <<c, job>>]
      <3>1. made'[t] = <<c, job>> /\ files'[t] = <<f>>
        BY <1>2, <1>7, <2>1
      <3> QED
        BY <1>6, <3>1 DEF Pieces
    <2>2. CASE t \in writer
      <3>1. made[t] # <<>> /\ t # s /\ t \in Slot
        BY <1>2, <2>2 DEF Provenance, WritersOK
      <3>2. made'[t] = made[t] /\ files'[t] = files[t]
        BY <1>2, <1>7, <1>8, <3>1
      <3> QED
        BY <2>2, <3>1, <3>2 DEF Provenance, WritersOK
    <2> QED
      BY <1>8, <2>1, <2>2
  <1>12. UNCHANGED <<pc, container>>
    BY DEF Encrypt, given
  <1> QED
    BY <1>9, <1>10, <1>11, <1>12, SealedStays DEF Provenance

LEMMA WritePieceProvenance ==
  ASSUME TypeOK, Provenance, NEW s \in Slot, WritePiece(s)
  PROVE  Provenance'
  <1> DEFINE f == files[s][1]
             g == [f EXCEPT !.written = @ + 1]
  <1>1. /\ DOMAIN files = Slot /\ DOMAIN made = Slot /\ writer \subseteq Slot
        /\ s \in writer /\ UNCHANGED <<made, rng, pc, container>>
    BY DEF TypeOK, WritePiece, given
  <1>2. /\ made[s] # <<>> /\ f.hmac = made[s][1].hmac
        /\ f.ciphertext = made[s][1].ciphertext /\ f.written < Pieces
    BY <1>1 DEF Provenance, WritersOK
  <1>3. files[s] # <<>> /\ files[s] = <<f>> /\ FileOK(f)
    BY <1>2 DEF Provenance, MadeOK, FilesOK
  <1>4. f.written + 1 \in 0..Pieces /\ f.written \in Nat
    BY <1>2, <1>3 DEF FileOK, Pieces
  <1>5. files' = [files EXCEPT ![s] = <<g>>]
    BY DEF WritePiece
  <1>6. writer' = IF f.written + 1 = Pieces THEN writer \ {s} ELSE writer
    BY DEF WritePiece
  <1> HIDE DEF f
  <1>7. FileOK(g) /\ g.written = f.written + 1 /\ g.hmac = f.hmac
        /\ g.ciphertext = f.ciphertext
    BY <1>3, <1>4, Rewritten
  <1> HIDE DEF g
  <1>8. \A t \in Slot : files'[t] = IF t = s THEN <<g>> ELSE files[t]
    BY <1>1, <1>5
  <1>9. MadeOK'
    BY <1>1, <1>8 DEF Provenance, MadeOK
  <1>10. PartsSealed(g, made)
    BY <1>2, <1>7 DEF PartsSealed
  <1>11. FilesOK'
    BY <1>1, <1>7, <1>8, <1>10 DEF Provenance, FilesOK
  <1>12. WritersOK'
    <2> SUFFICES ASSUME NEW t \in writer'
                 PROVE  /\ made[t] # <<>>
                        /\ files'[t][1].hmac = made[t][1].hmac
                        /\ files'[t][1].ciphertext = made[t][1].ciphertext
                        /\ files'[t][1].written < Pieces
      BY <1>1 DEF WritersOK
    <2>1. CASE t = s
      <3>1. f.written + 1 # Pieces /\ files'[t] = <<g>>
        BY <1>6, <1>8, <2>1
      <3> QED
        BY <1>2, <1>4, <1>7, <2>1, <3>1 DEF Pieces
    <2>2. CASE t # s
      BY <1>1, <1>6, <1>8, <2>2 DEF Provenance, WritersOK
    <2> QED
      BY <2>1, <2>2
  <1> QED
    BY <1>1, <1>9, <1>11, <1>12 DEF Provenance

LEMMA DamageProvenance ==
  ASSUME TypeOK, Provenance, Damage
  PROVE  Provenance'
  <1> DEFINE f == files[Opened][1]
  <1>1. PICK g \in Damaged(f) : files' = [files EXCEPT ![Opened] = <<g>>]
    BY DEF Damage
  <1>2. /\ DOMAIN files = Slot /\ DOMAIN made = Slot /\ writer \subseteq Slot
        /\ Opened \in Slot /\ files[Opened] # <<>> /\ f.written = Pieces
        /\ UNCHANGED <<made, rng, pc, writer>> /\ pc = "idle"
    BY OpenedAssumption DEF TypeOK, Damage
  <1>3. \A s \in Slot : files[s] # <<>> =>
          /\ FileOK(files[s][1])
          /\ files[s][1].written = Pieces =>
               /\ \E u \in Slot : made[u] # <<>> /\ files[s][1].hmac = made[u][1].hmac
               /\ \E u \in Slot : /\ made[u] # <<>>
                                  /\ files[s][1].ciphertext = made[u][1].ciphertext
    BY DEF Provenance, FilesOK, PartsSealed, Pieces
  <1>4. FileOK(f)
    BY <1>2, <1>3
  <1>5. /\ FileOK(g)
        /\ \/ g.hmac = f.hmac
           \/ \E s \in Slot : /\ files[s] # <<>> /\ files[s][1].written = Pieces
                              /\ g.hmac = files[s][1].hmac
        /\ \/ g.ciphertext = f.ciphertext
           \/ \E s \in Slot : /\ files[s] # <<>> /\ files[s][1].written = Pieces
                              /\ g.ciphertext = files[s][1].ciphertext
    <2> HIDE DEF f
    <2> QED
      BY <1>3, <1>4, DamagedOK
  <1>6. PartsSealed(g, made)
    BY <1>2, <1>3, <1>5 DEF PartsSealed
  <1>7. \A t \in Slot : files'[t] = IF t = Opened THEN <<g>> ELSE files[t]
    BY <1>1, <1>2
  <1>8. MadeOK'
    BY <1>2, <1>7 DEF Provenance, MadeOK
  <1>9. FilesOK'
    BY <1>2, <1>5, <1>6, <1>7 DEF Provenance, FilesOK
  <1>10. WritersOK'
    <2>1. Opened \notin writer
      BY <1>2 DEF Provenance, WritersOK, Pieces
    <2> QED
      BY <1>2, <1>7, <2>1 DEF Provenance, WritersOK
  <1> QED
    BY <1>2, <1>8, <1>9, <1>10 DEF Provenance

\* Whatever happens to the files, the parts that a key vouches for were made by
\* encrypt.
LEMMA ProvenanceStep ==
  ASSUME TypeOK, Provenance, [Next]_vars
  PROVE  Provenance'
  <1>1. \A s \in Slot : made[s] # <<>> => made'[s] = made[s]
    BY MadeStays
  <1>2. ASSUME NEW s \in Slot, Encrypt(s)
        PROVE  Provenance'
    BY <1>1, <1>2, EncryptProvenance
  <1>3. ASSUME NEW s \in Slot, WritePiece(s)
        PROVE  Provenance'
    BY <1>3, WritePieceProvenance
  <1>4. ASSUME NEW s \in Slot, WriterStops(s)
        PROVE  Provenance'
    BY <1>4 DEF WriterStops, given, Provenance, MadeOK, FilesOK, WritersOK
  <1>5. CASE Damage
    BY <1>5, DamageProvenance
  <1>6. CASE Start
    <2>1. /\ UNCHANGED <<files, made, rng, writer>>
          /\ files[Opened] # <<>> /\ container' = files[Opened][1]
      BY <1>6 DEF Start, storage
    <2>2. FileOK(container') /\ PartsSealed(container', made)
      BY <2>1, OpenedAssumption DEF Provenance, FilesOK
    <2> QED
      BY <2>1, <2>2 DEF Provenance, MadeOK, FilesOK, WritersOK
  <1>8. CASE TurnAway
    BY <1>8 DEF TurnAway, storage, Provenance, MadeOK, FilesOK, WritersOK
  <1>7. CASE UNCHANGED <<storage, given>> /\ (pc \in Unread => UNCHANGED vars)
    <2>1. UNCHANGED <<files, made, rng, writer, container>> /\ (pc' \notin Unread => pc \notin Unread)
      BY <1>7 DEF storage, given, vars
    <2> QED
      BY <2>1 DEF Provenance, MadeOK, FilesOK, WritersOK
  <1> QED
    BY <1>2, <1>3, <1>4, <1>5, <1>6, <1>7, <1>8, KindsOfStep

-----------------------------------------------------------------------------
(* Position.                                                               *)

\* The keys of any command are in order: one provider at most, and first.
LEMMA KeysInOrder ==
  ASSUME NEW args \in Commands
  PROVE  KeysOK(DecryptionKeys(args), args)
  <1> DEFINE provider == [i \in DOMAIN args.provider |-> Key("SC01", args.provider[i])]
             secret   == [i \in DOMAIN args.secret |-> Key("SC05", {args.secret[i]})]
             c        == PasswordCandidates(args.password[1])
             read     == [i \in DOMAIN c |-> Key("SC06", {c[i]})]
             password == IF args.password = <<>> THEN <<>> ELSE read
             named    == provider \o secret \o password
             prompted == <<Key("SC06", {args.entered})>>
             Given(k) == \E i \in DOMAIN args.provider : k.holds = args.provider[i]
             Symmetric(k) == k.scheme \in {"SC05", "SC06"} /\ k.holds # {}
  <1>1. /\ Len(args.provider) \in Nat /\ DOMAIN args.provider = 1..Len(args.provider)
        /\ Len(args.secret) \in Nat /\ DOMAIN args.secret = 1..Len(args.secret)
        /\ Len(args.provider) <= 1
    BY CommandsAssumption, IsSeqFacts
  <1>2. \A x : Key("SC05", {x}).scheme = "SC05" /\ Key("SC05", {x}).holds = {x}
            /\ Key("SC06", {x}).scheme = "SC06" /\ Key("SC06", {x}).holds = {x}
            /\ Key("SC01", x).scheme = "SC01" /\ Key("SC01", x).holds = x
    BY DEF Key
  <1>3. IsSeq(provider) /\ Len(provider) = Len(args.provider)
        /\ \A i \in DOMAIN provider : provider[i].scheme = "SC01" /\ i = 1 /\ Given(provider[i])
    <2>1. DOMAIN provider = 1..Len(args.provider)
          /\ provider = [i \in 1..Len(args.provider) |-> provider[i]]
      BY <1>1
    <2>2. \A i \in DOMAIN provider : provider[i].scheme = "SC01" /\ i = 1
                                         /\ Given(provider[i])
      <3> SUFFICES ASSUME NEW i \in DOMAIN args.provider
                   PROVE  provider[i].scheme = "SC01" /\ i = 1 /\ Given(provider[i])
        OBVIOUS
      <3>1. i = 1
        BY <1>1
      <3>2. provider[i] = Key("SC01", args.provider[i])
        OBVIOUS
      <3> HIDE DEF provider
      <3> QED
        BY <1>2, <3>1, <3>2
    <2> HIDE DEF provider
    <2>3. IsSeq(provider)
      BY <1>1, <2>1, IsSeqIntro
    <2> HIDE DEF Given
    <2>4. Len(provider) = Len(args.provider)
      BY <1>1, <2>1, <2>3, IsSeqFacts
    <2> QED
      BY <2>2, <2>3, <2>4
  <1>4. IsSeq(secret) /\ \A i \in DOMAIN secret : Symmetric(secret[i])
    <2>1. DOMAIN secret = 1..Len(args.secret)
          /\ secret = [i \in 1..Len(args.secret) |-> secret[i]]
      BY <1>1
    <2>2. \A i \in DOMAIN secret : Symmetric(secret[i])
      BY <1>2
    <2> HIDE DEF secret
    <2> QED
      BY <1>1, <2>1, <2>2, IsSeqIntro
  <1>5. IsSeq(password) /\ \A i \in DOMAIN password : Symmetric(password[i])
    <2>1. CASE args.password = <<>>
      <3>1. password = <<>>
        BY <2>1
      <3>2. DOMAIN password = 1..0 /\ password = [i \in 1..0 |-> password[i]]
        BY <3>1
      <3> HIDE DEF password
      <3>3. IsSeq(password)
        <4>1. 0 \in Nat
          OBVIOUS
        <4> QED
          BY <3>2, <4>1, IsSeqIntro
      <3>4. DOMAIN password = {}
        BY <3>2
      <3> QED
        BY <3>3, <3>4
    <2>2. CASE args.password # <<>>
      <3>1. \/ c = <<args.password[1]>>
            \/ c = <<Tail(args.password[1]), args.password[1]>>
        BY DEF PasswordCandidates
      <3>2. PICK n \in Nat : DOMAIN c = 1..n
        <4> HIDE DEF c
        <4>1. DOMAIN c = 1..1 \/ DOMAIN c = 1..2
          BY <3>1
        <4> QED
          BY <4>1
      <3>3. DOMAIN read = 1..n /\ read = [i \in 1..n |-> read[i]]
        <4> HIDE DEF c
        <4> QED
          BY <3>2
      <3>4. \A i \in DOMAIN read : Symmetric(read[i])
        <4> HIDE DEF c
        <4> QED
          BY <1>2
      <3>5. password = read
        BY <2>2
      <3> HIDE DEF read, password
      <3> QED
        BY <3>2, <3>3, <3>4, <3>5, IsSeqIntro
    <2> QED
      BY <2>1, <2>2
  <1> HIDE DEF provider, secret, password, Symmetric, Given
  <1>6. IsSeq(named) /\ \A j \in DOMAIN named :
           \/ named[j].scheme = "SC01" /\ j = 1 /\ Given(named[j])
           \/ Symmetric(named[j])
    <2> DEFINE front == provider \o secret
    <2>1. IsSeq(front) /\ \A j \in DOMAIN front :
             \/ front[j].scheme = "SC01" /\ j = 1 /\ Given(front[j])
             \/ Symmetric(front[j])
      <3>1. /\ IsSeq(front)
            /\ \A i \in DOMAIN front :
                 \/ i \in DOMAIN provider /\ front[i] = provider[i]
                 \/ /\ i - Len(provider) \in DOMAIN secret
                    /\ front[i] = secret[i - Len(provider)]
        BY <1>3, <1>4, Concatenated
      <3> HIDE DEF front
      <3> QED
        BY <1>3, <1>4, <3>1
    <2> HIDE DEF front
    <2>2. named = front \o password
      BY DEF front
    <2> HIDE DEF named
    <2> QED
      BY <1>5, <2>1, <2>2, Concatenated
  <1>7. CASE named = <<>>
    <2>1. DecryptionKeys(args) = prompted
      BY <1>7 DEF DecryptionKeys, provider, secret, password
    <2>2. /\ DOMAIN prompted = 1..1 /\ prompted = [i \in 1..1 |-> prompted[i]]
          /\ prompted # <<>> /\ prompted[1].scheme = "SC06" /\ prompted[1].holds # {}
      <3>1. PICK k : k = Key("SC06", {args.entered})
        OBVIOUS
      <3>2. k.scheme = "SC06" /\ k.holds # {}
        BY <1>2, <3>1
      <3>3. prompted = <<k>>
        BY <3>1
      <3> HIDE DEF prompted
      <3> QED
        BY <3>2, <3>3
    <2> HIDE DEF prompted
    <2>3. IsSeq(prompted)
      BY <2>2, IsSeqIntro
    <2> QED
      BY <2>1, <2>2, <2>3 DEF KeysOK, Supported
  <1>8. CASE named # <<>>
    <2>1. DecryptionKeys(args) = named
      BY <1>8 DEF DecryptionKeys, provider, secret, password
    <2> HIDE DEF named
    <2> QED
      BY <1>6, <1>8, <2>1 DEF KeysOK, Supported, Symmetric, Given
  <1> QED
    BY <1>7, <1>8

\* A step that leaves the command where it was.
LEMMA PositionStays ==
  ASSUME Position, UNCHANGED <<given, pc, turn, index, fmk, released>>
  PROVE  Position'
  BY DEF Position, given, KeysOK, record, key, Unwrapped, Verify

\* A position and the next.
LEMMA Successor ==
  ASSUME NEW n \in Nat, NEW t \in 1..n
  PROVE  /\ t + 1 \in 1..(n + 1)
         /\ t # n => t + 1 \in 1..n
  OBVIOUS

\* A key that fails.
LEMMA KeyFailsPosition ==
  ASSUME Position, pc \notin Ended \cup {"idle"}, NEW e, KeyFails(e), UNCHANGED given
  PROVE  Position'
  <1>1. Len(keys) \in Nat /\ DOMAIN keys = 1..Len(keys) /\ turn \in 1..Len(keys)
    BY IsSeqFacts DEF Position, KeysOK
  <1>2. /\ turn' = turn + 1 /\ index' = 1
        /\ pc' = IF turn = Len(keys) THEN "refused" ELSE "parse"
        /\ UNCHANGED <<keys, cmd, limits, container>>
    BY DEF KeyFails, Begin, given
  <1>3. KeysOK(keys, cmd) /\ limits \in LimitsSet /\ cmd \in Commands
    BY DEF Position, Ended
  <1>4. /\ turn' \in 1..(Len(keys) + 1)
        /\ pc' = "refused" => turn' = Len(keys) + 1
        /\ pc' \notin Ended \cup {"idle"} => turn' \in DOMAIN keys
    <2>1. turn \in Nat /\ turn >= 1 /\ turn <= Len(keys)
      BY <1>1
    <2>2. CASE turn = Len(keys)
      BY <1>1, <1>2, <2>1, <2>2 DEF Ended
    <2>3. CASE turn # Len(keys)
      <3>1. turn + 1 \in 1..Len(keys) /\ turn + 1 \in 1..(Len(keys) + 1)
        BY <1>1, <2>3, Successor
      <3>2. pc' = "parse"
        BY <1>2, <2>3
      <3> QED
        BY <1>1, <1>2, <3>1, <3>2
    <2> QED
      BY <2>2, <2>3
  <1>5. pc' \in {"refused", "parse"} /\ index' \in Nat \ {0}
    BY <1>2
  <1> QED
    BY <1>2, <1>3, <1>4, <1>5 DEF Position, Ended, Scanning

\* The key given up, the FMK found, or on to the next record.
LEMMA TryFmkPosition ==
  ASSUME Position, pc \in Scanning, UNCHANGED given,
         index \in DOMAIN container.header.recipients, Candidate(record, key),
         NEW kek, Xor(record.encrypted_fmk, kek) \in Unwrapped, NEW cost,
         TryFmk(kek, cost)
  PROVE  Position'
  <1> DEFINE unwrapped == Xor(record.encrypted_fmk, kek)
  <1>0. pc \notin Ended \cup {"idle"}
    BY DEF Scanning, Ended
  <1>1. CASE KeyFails("InvalidKeyMaterial")
    BY <1>0, <1>1, KeyFailsPosition
  <1>2. CASE /\ record.encrypted_fmk # BadLength
             /\ Verify(container, unwrapped) /\ fmk' = unwrapped /\ pc' = "payload"
             /\ UNCHANGED <<turn, index>>
    <2>1. fmk' \in Unwrapped' /\ record' = record /\ key' = key
      BY <1>2 DEF record, key, Unwrapped, given
    <2>2. /\ turn \in DOMAIN keys /\ turn \in 1..(Len(keys) + 1)
          /\ KeysOK(keys, cmd) /\ limits \in LimitsSet /\ cmd \in Commands
          /\ ParseError(container) = "none" /\ "header_garbled" \notin container.flaws
          /\ index \in Nat \ {0}
      BY <1>0 DEF Position, Scanning, Ended
    <2> HIDE DEF unwrapped
    <2>3. UNCHANGED <<keys, cmd, limits, container>>
      BY DEF given
    <2> QED
      BY <1>2, <2>1, <2>2, <2>3 DEF Position, Ended, Scanning
  <1>3. CASE pc' = "scan" /\ index' = index + 1 /\ turn' = turn
    BY <1>0, <1>3 DEF Position, given, Scanning, Ended
  <1> QED
    BY <1>1, <1>2, <1>3 DEF TryFmk

\* Deriving with the right pair or with another.
LEMMA DerivePosition ==
  ASSUME Position, pc \in {"perform", "login"}, UNCHANGED given,
         NEW kek, Xor(record.encrypted_fmk, kek) \in Unwrapped, Derive(kek)
  PROVE  Position'
  <1>1. /\ pc \in Scanning /\ pc \notin Ended \cup {"idle"}
        /\ index \in DOMAIN container.header.recipients /\ Candidate(record, key)
    BY DEF Position, Scanning, Ended
  <1>2. CASE KeyFails("InvalidKeyMaterial")
    BY <1>1, <1>2, KeyFailsPosition
  <1>3. CASE TryFmk(kek, 0)
    BY <1>1, <1>3, TryFmkPosition
  <1> QED
    BY <1>2, <1>3 DEF Derive

\* The command goes through the file record by record, and through its keys one
\* by one.
LEMMA PositionStep ==
  ASSUME TypeOK, Provenance, Position, [Next]_vars
  PROVE  Position'
  <1> USE DEF Ended
  <1>1. ASSUME NEW s \in Slot, Encrypt(s) \/ WritePiece(s) \/ WriterStops(s)
        PROVE  Position'
    BY <1>1, PositionStays DEF Encrypt, WritePiece, WriterStops, scan
  <1>2. CASE Damage
    BY <1>2, PositionStays DEF Damage, scan
  <1>13. CASE TurnAway
    BY <1>13 DEF TurnAway, scan, Position, Scanning
  <1>3. CASE Start
    <2>1. PICK args \in Commands, lim \in LimitsSet :
            cmd' = args /\ limits' = lim /\ keys' = DecryptionKeys(args) /\ index' = 1
      BY <1>3 DEF Start, Begin
    <2>2. KeysOK(keys', cmd') /\ pc' = "parse" /\ turn' = 1
      BY <1>3, <2>1, KeysInOrder DEF Start, Position
    <2>3. Len(keys') \in Nat /\ DOMAIN keys' = 1..Len(keys') /\ keys' # <<>>
      BY <2>2, IsSeqFacts DEF KeysOK
    <2>4. 1 \in DOMAIN keys'
      <3>1. keys' \in Seq({keys'[i] : i \in DOMAIN keys'})
        BY <2>2 DEF KeysOK, IsSeq
      <3> QED
        BY <2>3, <3>1
    <2> QED
      BY <2>1, <2>2, <2>3, <2>4 DEF Position, Scanning
  <1>4. CASE Parse
    <2>1. ASSUME NEW e, KeyFails(e)
          PROVE  Position'
      BY <1>4, <2>1, KeyFailsPosition DEF Parse
    <2>2. CASE /\ pc' = "scan" /\ UNCHANGED <<scan, turn, first_error>>
               /\ ParseError(container) = "none" /\ "none" \in DecodeErrors(container)
      <3>1. "header_garbled" \notin container.flaws
        BY <2>2 DEF DecodeErrors
      <3>2. pc = "parse" /\ UNCHANGED <<keys, cmd, limits, container, turn, index>>
        BY <1>4, <2>2 DEF Parse, given, scan
      <3> QED
        BY <2>2, <3>1, <3>2 DEF Position, Scanning
    <2> QED
      BY <1>4, <2>1, <2>2 DEF Parse
  <1>5. CASE SkipRecord
    BY <1>5 DEF SkipRecord, MoreRecords, Position, given, Scanning
  <1>6. CASE TryRecord \/ CallProvider
    <2>1. /\ pc = "scan" /\ Candidate(record, key) /\ UNCHANGED given
          /\ index <= Len(container.header.recipients)
      BY <1>6 DEF TryRecord, CallProvider, MoreRecords
    <2>2. index \in DOMAIN container.header.recipients
      <3>1. FileOK(container)
        BY <2>1 DEF Provenance
      <3>2. /\ DOMAIN container.header.recipients = 1..Len(container.header.recipients)
            /\ Len(container.header.recipients) \in Nat
        BY <3>1, IsSeqFacts DEF FileOK, HeaderOK
      <3> QED
        BY <2>1, <3>2 DEF Position
    <2>3. ASSUME NEW e, KeyFails(e)
          PROVE  Position'
      BY <2>1, <2>3, KeyFailsPosition
    <2>4. CASE TryFmk(TryKek(record, key), KdfCost(record, key))
      <3>1. Xor(record.encrypted_fmk, TryKek(record, key)) \in Unwrapped
        BY DEF Unwrapped
      <3>2. pc \in Scanning
        BY <2>1 DEF Scanning
      <3> QED
        BY <2>1, <2>2, <2>4, <3>1, <3>2, TryFmkPosition
    <2>5. CASE CallProvider
      <3>1. /\ pc' = "perform" /\ UNCHANGED <<keys, cmd, limits, container, turn, index>>
            /\ key.scheme = "SC01"
        BY <2>5 DEF CallProvider, given, scan
      <3>2. record' = record /\ key' = key
        BY <3>1 DEF record, key
      <3> QED
        BY <2>1, <2>2, <3>1, <3>2 DEF Position, Scanning
    <2> QED
      BY <1>6, <2>3, <2>4, <2>5 DEF TryRecord
  <1>7. CASE PerformSoftware \/ PinAccepted
    <2>1. Xor(record.encrypted_fmk, TryKek(record, key)) \in Unwrapped
      BY DEF Unwrapped
    <2> QED
      BY <1>7, <2>1, DerivePosition DEF PerformSoftware, PinAccepted
  <1>8. CASE OtherCard
    <2>1. PICK k \in EcKey \ key.holds : Derive(ProviderKek(record, k))
      BY <1>8 DEF OtherCard
    <2>2. key.scheme = "SC01" /\ pc = "login"
      BY <1>8 DEF OtherCard, Position
    <2>3. Xor(record.encrypted_fmk, ProviderKek(record, k)) \in Unwrapped
      BY <2>1, <2>2 DEF Unwrapped
    <2> QED
      BY <1>8, <2>1, <2>2, <2>3, DerivePosition DEF OtherCard
  <1>9. CASE AskPin
    <2>1. CASE KeyFails("KeyProvider")
      BY <1>9, <2>1, KeyFailsPosition DEF AskPin
    <2>2. CASE pc' = "login" /\ UNCHANGED <<turn, scan>>
      <3>1. pc = "perform" /\ UNCHANGED <<keys, cmd, limits, container, turn, index>>
        BY <1>9, <2>2 DEF AskPin, given, scan
      <3>2. record' = record /\ key' = key
        BY <3>1 DEF record, key
      <3> QED
        BY <2>2, <3>1, <3>2 DEF Position, Scanning
    <2> QED
      BY <1>9, <2>1, <2>2 DEF AskPin
  <1>10. CASE TokenFails \/ PinRejected \/ NoRecordLeft
    <2>1. pc \notin Ended \cup {"idle"} /\ UNCHANGED given
      BY <1>10 DEF TokenFails, PinRejected, CardRefuses, NoRecordLeft
    <2>2. ASSUME NEW e, KeyFails(e)
          PROVE  Position'
      BY <2>1, <2>2, KeyFailsPosition
    <2> QED
      BY <1>10, <2>2 DEF TokenFails, PinRejected, NoRecordLeft
  <1>11. CASE DecryptPayload \/ Extract \/ ListEntries
    <2>1. pc \in {"payload", "unpack"} /\ UNCHANGED <<given, fmk>>
      BY <1>11 DEF DecryptPayload, Extract, ListEntries
    <2>2. ASSUME NEW e, KeyFails(e)
          PROVE  Position'
      BY <2>1, <2>2, KeyFailsPosition
    <2>3. CASE pc' \in {"unpack", "opened"} /\ UNCHANGED <<turn, scan>>
      <3>1. UNCHANGED <<keys, cmd, limits, container, turn, index>>
        BY <2>1, <2>3 DEF given, scan
      <3>2. record' = record /\ key' = key
        BY <3>1 DEF record, key
      <3> QED
        BY <2>1, <2>3, <3>1, <3>2 DEF Position, Scanning
    <2> QED
      BY <1>11, <2>2, <2>3 DEF DecryptPayload, Extract, ListEntries
  <1>12. CASE UNCHANGED vars
    BY <1>12, PositionStays DEF vars, given
  <1> QED
    BY <1>1, <1>2, <1>3, <1>4, <1>5, <1>6, <1>7, <1>8, <1>9, <1>10, <1>11, <1>12,
       <1>13 DEF Next, Done

-----------------------------------------------------------------------------
(* What is authenticated.                                                  *)

\* A sealed container, and how it was.
LEMMA MadeSealed ==
  ASSUME TypeOK, Provenance, NEW s \in Slot, made[s] # <<>>
  PROVE  \E draw \in Nat : /\ made[s][2] \in Jobs[s]
                           /\ Sealed(made[s][1], s, made[s][2], draw)
                           /\ FileOK(made[s][1])
  <1>1. PICK draw \in 1..rng :
          made[s] = <<ContainerOf(s, made[s][2], draw), made[s][2]>>
    BY DEF Provenance, MadeOK
  <1>2. made[s][1] = ContainerOf(s, made[s][2], draw) /\ made[s][2] \in Jobs[s]
    BY <1>1 DEF Provenance, MadeOK
  <1>3. draw \in Nat
    BY DEF TypeOK
  <1> QED
    BY <1>2, <1>3, ContainerSealed

\* A file that parses has something in it, and none of the flaws that stop it.
LEMMA Parsed ==
  ASSUME NEW f, FileOK(f), ParseError(f) = "none", "header_garbled" \notin f.flaws
  PROVE  /\ f.written > 0
         /\ f.flaws \subseteq {"length_shifted"}
  <1>1. /\ f.written >= PrefixPieces
        /\ f.flaws \cap {"prelude", "version", "length_out_of_range",
                         "length_past_end"} = {}
    BY DEF ParseError, FileOK, PrefixPieces, Pieces
  <1> QED
    BY <1>1 DEF FileOK, Flaw, PrefixPieces

\* A header that verifies against the HMAC of a sealed container is that
\* container's, to the last byte, and the key is its FMK.
LEMMA VerifiedHeader ==
  ASSUME NEW f, NEW c, NEW s, NEW job, NEW draw, NEW x,
         Sealed(c, s, job, draw), f.hmac = c.hmac, Verify(f, x)
  PROVE  /\ f.header = c.header
         /\ "length_shifted" \notin f.flaws
         /\ DeriveHhk(x) = c.hmac.hhk
         /\ x = Fmk(draw)
  <1>1. [hhk |-> DeriveHhk(x), over |-> EnvelopeHeaderBytes(f)]
          = [hhk |-> DeriveHhk(Fmk(draw)), over |-> HeaderBytes(c.header, TRUE)]
    BY DEF Sealed, Verify, HeaderHmac
  <1>2. /\ DeriveHhk(x) = DeriveHhk(Fmk(draw))
        /\ EnvelopeHeaderBytes(f) = HeaderBytes(c.header, TRUE)
    BY <1>1
  <1>3. [header |-> f.header, whole |-> "length_shifted" \notin f.flaws]
          = [header |-> c.header, whole |-> TRUE]
    BY <1>2 DEF EnvelopeHeaderBytes, HeaderBytes
  <1>4. f.header = c.header /\ "length_shifted" \notin f.flaws
    BY <1>3
  <1>5. c.hmac.hhk = DeriveHhk(Fmk(draw))
    BY DEF Sealed, HeaderHmac
  <1> QED
    BY <1>2, <1>4, <1>5, HhkInjective

\* The payload is not looked at before the header is the author's.
LEMMA HeaderIsAuthors ==
  ASSUME TypeOK, Provenance, Position
  PROVE  VerifiedFirst
  <1> SUFFICES ASSUME pc \in {"payload", "unpack", "opened"}
               PROVE  \E s \in Slot :
                        /\ made[s] # <<>>
                        /\ container.header = made[s][1].header
                        /\ container.hmac = made[s][1].hmac
                        /\ DeriveHhk(fmk) = made[s][1].hmac.hhk
    BY DEF VerifiedFirst
  <1>1. /\ FileOK(container) /\ PartsSealed(container, made)
        /\ ParseError(container) = "none" /\ "header_garbled" \notin container.flaws
        /\ Verify(container, fmk)
    BY DEF Provenance, Position
  <1>2. container.written > 0
    BY <1>1, Parsed
  <1>3. PICK s \in Slot : made[s] # <<>> /\ container.hmac = made[s][1].hmac
    BY <1>1, <1>2 DEF PartsSealed
  <1>4. PICK draw \in Nat : Sealed(made[s][1], s, made[s][2], draw)
    BY <1>3, MadeSealed
  <1>5. /\ container.header = made[s][1].header
        /\ DeriveHhk(fmk) = made[s][1].hmac.hhk
    BY <1>1, <1>3, <1>4, VerifiedHeader
  <1> QED
    BY <1>3, <1>5

\* A file that verifies and is authentic under one key is a sealed container.
LEMMA AuthenticIsSealed ==
  ASSUME NEW f, NEW c, NEW s, NEW job, NEW draw, NEW x,
         Sealed(c, s, job, draw), FileOK(c), FileOK(f), ParseError(f) = "none",
         "header_garbled" \notin f.flaws,
         f.ciphertext = c.ciphertext, Verify(f, x), Authentic(f, x)
  PROVE  f = c /\ x = Fmk(draw)
  <1>1. BuildAad(EnvelopeHeaderBytes(f), f.hmac)
          = BuildAad(HeaderBytes(c.header, TRUE), c.hmac)
    BY DEF Authentic, Sealed
  <1>2. f.hmac = c.hmac
    BY <1>1 DEF BuildAad
  <1>3. f.header = c.header /\ "length_shifted" \notin f.flaws /\ x = Fmk(draw)
    BY <1>2, VerifiedHeader
  <1>4. f.flaws = {}
    BY <1>3, Parsed
  <1>5. f.written = c.written /\ f.nonce = c.nonce /\ c.flaws = {}
    BY DEF Authentic, Sealed
  <1> QED
    BY <1>2, <1>3, <1>4, <1>5 DEF FileOK

\* The record that opened the header is one that the author addressed to the
\* key used.
LEMMA OpenedByOwner ==
  ASSUME Position, pc = "payload", NEW s, NEW job, NEW draw,
         Sealed(container, s, job, draw), fmk = Fmk(draw)
  PROVE  Owns(key, job.to[index])
  <1>1. /\ index \in DOMAIN container.header.recipients /\ Candidate(record, key)
        /\ record.encrypted_fmk # BadLength /\ fmk \in Unwrapped
        /\ turn \in DOMAIN keys /\ KeysOK(keys, cmd)
    BY DEF Position, Ended
  <1>2. key.scheme \in Supported /\ key.holds # {}
    <2>1. key.scheme \in Supported /\ (key.scheme # "SC01" => key.holds # {})
      BY <1>1 DEF KeysOK, key
    <2> QED
      BY <1>1, <2>1 DEF Candidate
  <1> DEFINE recipient == job.to[index]
  <1>3. AuthorRecord(record, recipient, fmk)
    BY <1>1 DEF Sealed, record
  <1>4. record.capsule.scheme \notin Unsupported
    BY <1>1, <1>2 DEF Candidate, Supported, Unsupported
  <1>5. AddressedTo(record, recipient, fmk)
    BY <1>1, <1>3, <1>4 DEF AuthorRecord
  <1> HIDE DEF recipient
  <1>6. PICK kek \in {TryKek(record, key)}
                     \cup {ProviderKek(record, k) :
                             k \in {l \in EcKey : key.scheme = "SC01" /\ l \notin key.holds}} :
          fmk = Xor(record.encrypted_fmk, kek)
    BY <1>1 DEF Unwrapped
  <1>7. CASE kek = TryKek(record, key)
    <2>1. UnwrapXor(record, key) = fmk
      BY <1>6, <1>7 DEF UnwrapXor
    <2> QED
      BY <1>1, <1>2, <1>5, <2>1, OnlyOwnerUnwraps DEF Owns, recipient
  <1>8. CASE \E k \in {l \in EcKey : key.scheme = "SC01" /\ l \notin key.holds} :
               kek = ProviderKek(record, k)
    <2>1. PICK k \in EcKey \ key.holds :
            key.scheme = "SC01" /\ kek = ProviderKek(record, k)
      BY <1>8
    <2> QED
      BY <1>1, <1>5, <1>6, <2>1, OtherPairFails
  <1> QED
    BY <1>6, <1>7, <1>8

\* What is handed on is what an author sealed for the key.
LEMMA ReleasedStep ==
  ASSUME TypeOK, Provenance, Position, ReleasedAuthentic, [Next]_vars
  PROVE  ReleasedAuthentic'
  <1>1. \A s \in Slot : made[s] # <<>> => made'[s] = made[s]
    BY MadeStays
  <1>2. CASE released' = released
    <2>1. container' = container \/ released = {}
      BY KindsOfStep DEF Encrypt, WritePiece, WriterStops, Damage, TurnAway, Start,
         given, Position
    <2> QED
      BY <1>1, <1>2, <2>1 DEF ReleasedAuthentic
  <1>3. CASE DecryptPayload /\ released' # released
    <2>1. /\ pc = "payload" /\ Authentic(container, fmk)
          /\ released' = released \cup
               {[msg |-> container.ciphertext.msg, index |-> index, key |-> key]}
          /\ UNCHANGED <<made, container>>
      BY <1>3 DEF DecryptPayload, storage, given
    <2>2. /\ FileOK(container) /\ PartsSealed(container, made)
          /\ ParseError(container) = "none" /\ "header_garbled" \notin container.flaws
          /\ Verify(container, fmk)
      BY <2>1 DEF Provenance, Position
    <2>3. container.written > 0
      BY <2>2, Parsed
    <2>4. PICK s \in Slot : made[s] # <<>> /\ container.ciphertext = made[s][1].ciphertext
      BY <2>2, <2>3 DEF PartsSealed
    <2>5. PICK draw \in Nat : /\ Sealed(made[s][1], s, made[s][2], draw)
                              /\ FileOK(made[s][1])
      BY <2>4, MadeSealed
    <2>6. container = made[s][1] /\ fmk = Fmk(draw)
      BY <2>1, <2>2, <2>4, <2>5, AuthenticIsSealed
    <2>7. Owns(key, made[s][2].to[index])
      BY <2>1, <2>5, <2>6, OpenedByOwner
    <2>8. container.ciphertext.msg = s
      BY <2>5, <2>6 DEF Sealed
    <2> SUFFICES ASSUME NEW r \in released'
                 PROVE  \E t \in Slot : /\ made[t] # <<>> /\ container = made[t][1]
                                        /\ r.msg = t
                                        /\ Owns(r.key, made[t][2].to[r.index])
      BY <2>1 DEF ReleasedAuthentic
    <2>9. CASE r \in released
      BY <2>9 DEF ReleasedAuthentic
    <2>10. CASE r = [msg |-> container.ciphertext.msg, index |-> index, key |-> key]
      BY <2>4, <2>6, <2>7, <2>8, <2>10
    <2> QED
      BY <2>1, <2>9, <2>10
  <1> QED
    BY <1>2, <1>3 DEF Next, vars, storage, given, scan, Encrypt, WritePiece,
       WriterStops, Damage, TurnAway, Start, Parse, SkipRecord, TryRecord, CallProvider,
       PerformSoftware, AskPin, TokenFails, PinRejected, CardRefuses, PinAccepted,
       OtherCard, NoRecordLeft, Extract, ListEntries, Done

-----------------------------------------------------------------------------
(* Work and PINs.                                                          *)

\* The work that so many keys may cost.
LEMMA Products ==
  ASSUME NEW t \in Nat \ {0}, NEW m \in Nat
  PROVE  /\ (t - 1) * m \in Nat /\ t * m \in Nat
         /\ (t - 1) * m + m = t * m
         /\ ((t + 1) - 1) * m = t * m
         /\ t = 1 => (t - 1) * m = 0
  <1>1. ASSUME NEW k \in Nat
        PROVE  k * m \in Nat
    BY <1>1, SMT
  <1>2. t - 1 \in Nat
    OBVIOUS
  <1> QED
    BY <1>1, <1>2

\* The limit of a command is a number.
LEMMA LimitIsNat ==
  ASSUME Position, pc \notin Unread
  PROVE  /\ limits.max_total_kdf_iterations \in Nat
         /\ turn \in Nat \ {0}
         /\ Len(keys) \in Nat /\ DOMAIN keys = 1..Len(keys)
  BY LimitsAssumption, IsSeqFacts DEF Position, KeysOK

\* A step that leaves the account as it was.
LEMMA AccountStays ==
  ASSUME Account, UNCHANGED <<limits, keys, pc, turn, budget, work, total>>
  PROVE  Account'
  BY DEF Account

\* A key that fails has spent at most the limit.
LEMMA KeyFailsAccount ==
  ASSUME Position, pc \notin Ended \cup {"idle"}, NEW e, KeyFails(e),
         UNCHANGED given, work' \in Nat, total' \in Nat,
         work' <= limits.max_total_kdf_iterations,
         total' <= turn * limits.max_total_kdf_iterations
  PROVE  Account'
  <1> DEFINE max == limits.max_total_kdf_iterations
  <1>1. max \in Nat /\ turn \in Nat \ {0} /\ Len(keys) \in Nat
    BY LimitIsNat DEF Ended
  <1>2. /\ turn' = turn + 1 /\ budget' = max /\ limits' = limits /\ keys' = keys
        /\ pc' = IF turn = Len(keys) THEN "refused" ELSE "parse"
    BY DEF KeyFails, Begin, given
  <1>3. limits'.max_total_kdf_iterations = max
    BY <1>2
  <1>4. (turn' - 1) * max = turn * max
    BY <1>1, <1>2, Products
  <1> HIDE DEF max
  <1>5. CASE turn = Len(keys)
    BY <1>1, <1>2, <1>3, <1>5 DEF Account, Scanning, max
  <1>6. CASE turn # Len(keys)
    <2>1. pc' = "parse"
      BY <1>2, <1>6
    <2> QED
      BY <1>1, <1>2, <1>3, <1>4, <2>1 DEF Account, Scanning, max
  <1> QED
    BY <1>5, <1>6

\* A record tried within the budget.
LEMMA TryFmkAccount ==
  ASSUME Position, Account, pc \in Scanning, UNCHANGED given, NEW kek,
         NEW cost \in Nat, cost <= budget, TryFmk(kek, cost)
  PROVE  Account'
  <1> DEFINE max == limits.max_total_kdf_iterations
  <1>0. pc \notin Ended \cup {"idle"}
    BY DEF Scanning, Ended
  <1>1. max \in Nat /\ turn \in Nat \ {0}
    BY <1>0, LimitIsNat DEF Ended
  <1>2. /\ budget \in Nat /\ work \in Nat /\ total \in Nat /\ work + budget = max
        /\ turn \in DOMAIN keys
    BY DEF Account
  <1>2a. total <= (turn - 1) * max + work
    BY DEF Account
  <1>3. work' = work + cost /\ total' = total + cost
    BY DEF TryFmk
  <1>4. limits' = limits /\ keys' = keys
    BY DEF given
  <1>5. /\ (turn - 1) * max \in Nat /\ turn * max \in Nat
        /\ (turn - 1) * max + max = turn * max
    BY <1>1, Products
  <1>6. PICK base \in Nat : base = (turn - 1) * max
    BY <1>5
  <1>7. PICK top \in Nat : top = turn * max
    BY <1>5
  <1> HIDE DEF max
  <1>8. /\ work' \in Nat /\ total' \in Nat /\ budget - cost \in Nat
        /\ work' <= max /\ work' + (budget - cost) = max
        /\ total' <= base + work' /\ total' <= top
    <2>1. base + max = top /\ total <= base + work
      BY <1>2a, <1>5, <1>6, <1>7
    <2> QED
      BY <1>1, <1>2, <1>3, <2>1
  <1>9. total' <= (turn - 1) * max + work' /\ total' <= turn * max
    BY <1>6, <1>7, <1>8
  <1>10. CASE KeyFails("InvalidKeyMaterial")
    BY <1>0, <1>8, <1>9, <1>10, KeyFailsAccount DEF max
  <1>11. CASE /\ pc' \in {"payload", "scan"} /\ budget' = budget - cost
              /\ turn' = turn
    <2>1. limits'.max_total_kdf_iterations = max
      BY <1>4 DEF max
    <2> QED
      BY <1>2, <1>4, <1>8, <1>9, <1>11, <2>1 DEF Account, Scanning
  <1> QED
    BY <1>10, <1>11 DEF TryFmk

\* A key that fails without work.
LEMMA KeyFailsWithoutWork ==
  ASSUME TypeOK, Position, Account, pc \notin Ended \cup {"idle"}, NEW e, KeyFails(e),
         UNCHANGED <<given, total>>, work' \in {0, work}
  PROVE  Account'
  <1> DEFINE max == limits.max_total_kdf_iterations
  <1>1. max \in Nat /\ turn \in Nat \ {0}
    BY LimitIsNat DEF Ended
  <1>2. /\ work \in Nat /\ total \in Nat /\ work <= max
        /\ \/ total <= (turn - 1) * max
           \/ total <= (turn - 1) * max + work
    BY DEF Account, TypeOK, Scanning, Ended
  <1>3. /\ (turn - 1) * max \in Nat /\ turn * max \in Nat
        /\ (turn - 1) * max + max = turn * max
    BY <1>1, Products
  <1>4. PICK base \in Nat : base = (turn - 1) * max
    BY <1>3
  <1>5. PICK top \in Nat : top = turn * max
    BY <1>3
  <1> HIDE DEF max
  <1>6. total <= top
    BY <1>1, <1>2, <1>3, <1>4, <1>5
  <1>7. work' \in Nat /\ work' <= max /\ total' \in Nat /\ total' <= turn * max
    BY <1>1, <1>2, <1>5, <1>6
  <1> QED
    BY <1>7, KeyFailsAccount DEF max

\* A step within the turn of a key, without work.
LEMMA TurnAccount ==
  ASSUME Account, UNCHANGED <<given, turn, budget, work, total>>,
         pc \in Scanning \cup {"payload", "unpack"},
         pc' \in Scanning \cup {"payload", "unpack", "opened"},
         pc' \in Scanning => pc \in Scanning
  PROVE  Account'
  <1>1. limits' = limits /\ keys' = keys
    BY DEF given
  <1>2. pc' \notin Unread \cup {"parse", "refused"} /\ pc \notin Unread
    BY DEF Scanning
  <1> QED
    BY <1>1, <1>2 DEF Account

\* What a candidate costs is within the budget, or it is not tried.
LEMMA CostInBudget ==
  ASSUME Provenance, Account, pc \notin Unread, MoreRecords, Position, Candidate(record, key),
         key.scheme \in {"SC05", "SC06"}, KekError(record, key, budget) = "none"
  PROVE  KdfCost(record, key) \in Nat /\ KdfCost(record, key) <= budget
  <1>1. budget \in Nat
    BY DEF Account
  <1>2. CASE key.scheme = "SC05"
    BY <1>1, <1>2 DEF KdfCost
  <1>3. CASE key.scheme = "SC06"
    <2>1. HeaderOK(container.header)
      BY DEF Provenance, FileOK
    <2>2. /\ DOMAIN container.header.recipients = 1..Len(container.header.recipients)
          /\ Len(container.header.recipients) \in Nat
      BY <2>1, IsSeqFacts DEF HeaderOK
    <2>3. index \in DOMAIN container.header.recipients
      BY <2>2 DEF MoreRecords, Position
    <2>4. record.capsule.kdf_iterations \in Int
      BY <1>3, <2>1, <2>3 DEF HeaderOK, Candidate, record
    <2>5. /\ ~(record.capsule.kdf_iterations < 0)
          /\ ~(record.capsule.kdf_iterations > budget)
      BY <1>3 DEF KekError
    <2> QED
      BY <1>1, <1>3, <2>4, <2>5 DEF KdfCost
  <1> QED
    BY <1>2, <1>3

\* The account is kept by every step.
LEMMA AccountStep ==
  ASSUME TypeOK, Provenance, Position, Account, [Next]_vars
  PROVE  Account'
  <1> USE DEF Ended
  <1>1. ASSUME NEW s \in Slot, Encrypt(s) \/ WritePiece(s) \/ WriterStops(s)
        PROVE  Account'
    BY <1>1, AccountStays DEF Encrypt, WritePiece, WriterStops, scan, given
  <1>2. CASE Damage
    BY <1>2, AccountStays DEF Damage, scan, given
  <1>13. CASE TurnAway
    BY <1>13 DEF TurnAway, scan, Account, Scanning
  <1>3. CASE Start
    <2>1. PICK lim \in LimitsSet : /\ limits' = lim
                                   /\ budget' = lim.max_total_kdf_iterations
      BY <1>3 DEF Start, Begin
    <2>2. /\ pc' = "parse" /\ turn' = 1 /\ work' = 0 /\ total' = 0
      BY <1>3 DEF Start, Position, Account
    <2>3. lim.max_total_kdf_iterations \in Nat
      BY LimitsAssumption
    <2>4. (1 - 1) * lim.max_total_kdf_iterations = 0
      BY <2>3
    <2> QED
      BY <2>1, <2>2, <2>3, <2>4 DEF Account, Scanning
  <1>4. ASSUME NEW e, KeyFails(e), pc \notin Ended \cup {"idle"},
               UNCHANGED <<given, total>>, work' \in {0, work}
        PROVE  Account'
    BY <1>4, KeyFailsWithoutWork
  <1>5. CASE Parse
    <2>1. CASE pc' = "scan" /\ UNCHANGED <<scan, turn, first_error>>
      <3>1. /\ pc = "parse" /\ UNCHANGED <<limits, keys, turn, budget, total>>
            /\ work' = 0
        BY <1>5, <2>1 DEF Parse, given, scan
      <3>2. limits.max_total_kdf_iterations \in Nat /\ turn \in DOMAIN keys
            /\ turn \in Nat \ {0}
        BY <3>1, LimitIsNat DEF Position
      <3>3. PICK base \in Nat : base = (turn - 1) * limits.max_total_kdf_iterations
        BY <3>2, Products
      <3>4. total <= base /\ total \in Nat /\ budget = limits.max_total_kdf_iterations
        BY <3>1, <3>3 DEF Account
      <3>5. total <= base + 0 /\ 0 + budget = budget /\ budget \in Nat
        BY <3>2, <3>3, <3>4
      <3>6. total' <= (turn' - 1) * limits'.max_total_kdf_iterations + work'
        BY <3>1, <3>3, <3>5
      <3> QED
        BY <2>1, <3>1, <3>2, <3>4, <3>5, <3>6 DEF Account, Scanning
    <2> QED
      BY <1>4, <1>5, <2>1 DEF Parse, given
  <1>6. CASE SkipRecord \/ CallProvider
    BY <1>6, TurnAccount DEF SkipRecord, CallProvider, MoreRecords, Scanning, scan
  <1>7. CASE TryRecord
    <2>1. /\ pc = "scan" /\ MoreRecords /\ Candidate(record, key)
          /\ UNCHANGED given /\ key.scheme # "SC01"
      BY <1>7 DEF TryRecord, MoreRecords
    <2>2. key.scheme \in {"SC05", "SC06"}
      BY <2>1 DEF Position, KeysOK, key, Supported
    <2>3. CASE KekError(record, key, budget) # "none"
      BY <1>4, <1>7, <2>1, <2>3 DEF TryRecord, given
    <2>4. CASE /\ KekError(record, key, budget) = "none"
               /\ TryFmk(TryKek(record, key), KdfCost(record, key))
      <3>1. KdfCost(record, key) \in Nat /\ KdfCost(record, key) <= budget
        BY <2>1, <2>2, <2>4, CostInBudget
      <3> QED
        BY <2>1, <2>4, <3>1, TryFmkAccount DEF Scanning
    <2> QED
      BY <1>7, <2>3, <2>4 DEF TryRecord
  <1>8. ASSUME NEW kek, Derive(kek), pc \in {"perform", "login"}, UNCHANGED given
        PROVE  Account'
    <2>1. pc \in Scanning /\ budget \in Nat
      BY <1>8 DEF Scanning, Account
    <2>2. CASE TryFmk(kek, 0)
      <3>1. 0 \in Nat /\ 0 <= budget
        BY <2>1
      <3> QED
        BY <1>8, <2>1, <2>2, <3>1, TryFmkAccount
    <2>3. CASE KeyFails("InvalidKeyMaterial") /\ UNCHANGED <<fmk, work, total>>
      BY <1>4, <1>8, <2>3
    <2> QED
      BY <1>8, <2>2, <2>3 DEF Derive
  <1>9. CASE PerformSoftware \/ PinAccepted \/ OtherCard
    BY <1>8, <1>9 DEF PerformSoftware, PinAccepted, OtherCard
  <1>10. CASE AskPin \/ TokenFails \/ PinRejected \/ NoRecordLeft
    <2>1. /\ pc \in {"perform", "login", "scan"} /\ UNCHANGED <<given, work, total>>
      BY <1>10 DEF AskPin, TokenFails, PinRejected, CardRefuses, NoRecordLeft
    <2>2. ASSUME NEW e, KeyFails(e)
          PROVE  Account'
      BY <1>4, <2>1, <2>2
    <2>3. CASE pc' = "login" /\ UNCHANGED <<turn, first_error, scan, mishap>>
      BY <2>1, <2>3, TurnAccount DEF Scanning, scan
    <2> QED
      BY <1>10, <2>2, <2>3 DEF AskPin, TokenFails, PinRejected, NoRecordLeft
  <1>11. CASE DecryptPayload \/ Extract \/ ListEntries
    <2>1. /\ pc \in {"payload", "unpack"} /\ UNCHANGED <<given, work, total>>
      BY <1>11 DEF DecryptPayload, Extract, ListEntries
    <2>2. ASSUME NEW e, KeyFails(e)
          PROVE  Account'
      BY <1>4, <2>1, <2>2
    <2>3. CASE pc' \in {"unpack", "opened"} /\ UNCHANGED <<turn, first_error, scan>>
      BY <2>1, <2>3, TurnAccount DEF Scanning, scan
    <2> QED
      BY <1>11, <2>2, <2>3 DEF DecryptPayload, Extract, ListEntries
  <1>12. CASE UNCHANGED vars
    BY <1>12, AccountStays DEF vars
  <1> QED
    BY <1>1, <1>2, <1>3, <1>5, <1>6, <1>7, <1>9, <1>10, <1>11, <1>12,
       <1>13 DEF Next, Done

\* Elements of a set of positions up to the next one.
LEMMA CountBefore ==
  ASSUME NEW n \in Nat, NEW A \in SUBSET (1..n), NEW i \in Nat
  PROVE  LET B(k) == {j \in A : j < k} IN
         /\ Cardinality(A) \in Nat /\ Cardinality(B(i)) \in Nat
         /\ Cardinality(B(i + 1)) \in Nat
         /\ Cardinality(B(i)) <= Cardinality(B(i + 1))
         /\ i \in A => /\ Cardinality(B(i + 1)) = Cardinality(B(i)) + 1
                       /\ Cardinality(B(i)) + 1 <= Cardinality(A)
  <1> DEFINE B(k) == {j \in A : j < k}
  <1>1. IsFiniteSet(1..n)
    BY FS_Interval
  <1>2. IsFiniteSet(A)
    BY <1>1, FS_Subset
  <1>3. B(i) \in SUBSET A /\ B(i + 1) \in SUBSET A
    OBVIOUS
  <1>4. IsFiniteSet(B(i)) /\ IsFiniteSet(B(i + 1))
    BY <1>2, <1>3, FS_Subset
  <1>5. \A j \in A : j \in Nat
    OBVIOUS
  <1>5a. \A j \in A : (j < i => j < i + 1) /\ (j < i + 1 <=> j < i \/ j = i)
    BY <1>5
  <1>5b. B(i) \in SUBSET B(i + 1)
    BY <1>5a
  <1>6. i \in A => B(i + 1) = B(i) \cup {i} /\ i \notin B(i)
    <2> SUFFICES ASSUME i \in A
                 PROVE  B(i + 1) = B(i) \cup {i} /\ i \notin B(i)
      OBVIOUS
    <2>1. ASSUME NEW j
          PROVE  j \in B(i + 1) <=> j \in B(i) \cup {i}
      BY <1>5a
    <2>2. ~(i < i)
      OBVIOUS
    <2> QED
      BY <2>1, <2>2
  <1> HIDE DEF B
  <1>7. /\ Cardinality(A) \in Nat /\ Cardinality(B(i)) \in Nat
        /\ Cardinality(B(i + 1)) \in Nat
    BY <1>2, <1>4, FS_CardinalityType
  <1>8. Cardinality(B(i)) <= Cardinality(B(i + 1))
    BY <1>4, <1>5b, FS_Subset
  <1>9. i \in A => Cardinality(B(i + 1)) = Cardinality(B(i)) + 1
    BY <1>4, <1>6, FS_AddElement
  <1>10. Cardinality(B(i + 1)) <= Cardinality(A)
    BY <1>2, <1>3, FS_Subset
  <1> QED
    BY <1>7, <1>8, <1>9, <1>10 DEF B

\* The counts at the record at hand.
LEMMA AddressedCounts ==
  ASSUME Provenance, Position, pc \notin Unread
  PROVE  LET next == {i \in AddressedToProvider : i < index + 1} IN
         /\ Cardinality(AddressedToProvider) \in Nat
         /\ Cardinality(AddressedBefore) \in Nat /\ Cardinality(next) \in Nat
         /\ Cardinality(AddressedBefore) <= Cardinality(next)
         /\ index \in AddressedToProvider =>
              /\ Cardinality(next) = Cardinality(AddressedBefore) + 1
              /\ Cardinality(AddressedBefore) + 1 <= Cardinality(AddressedToProvider)
  <1>1. HeaderOK(container.header) /\ index \in Nat
    BY DEF Provenance, FileOK, Position
  <1>2. /\ DOMAIN container.header.recipients = 1..Len(container.header.recipients)
        /\ Len(container.header.recipients) \in Nat
    BY <1>1, IsSeqFacts DEF HeaderOK
  <1>3. AddressedToProvider \in SUBSET (1..Len(container.header.recipients))
    BY <1>2 DEF AddressedToProvider
  <1> QED
    BY <1>1, <1>2, <1>3, CountBefore DEF AddressedBefore

\* Only a record addressed to the provider, and only the provider's turn, leads
\* to its private-key operation.
LEMMA PerformAddressed ==
  ASSUME Position, pc \in {"perform", "login"}
  PROVE  index \in AddressedToProvider /\ turn = 1
  <1>1. /\ index \in DOMAIN container.header.recipients /\ Candidate(record, key)
        /\ key.scheme = "SC01" /\ turn \in DOMAIN keys /\ KeysOK(keys, cmd)
    BY DEF Position, Ended
  <1>2. turn = 1 /\ \E i \in DOMAIN cmd.provider : key.holds = cmd.provider[i]
    BY <1>1 DEF KeysOK, key
  <1>3. /\ record.capsule.scheme = "SC01"
        /\ record.capsule.recipient_public_key \in key.holds
    BY <1>1 DEF Candidate, Matches
  <1> QED
    BY <1>1, <1>2, <1>3 DEF AddressedToProvider, record

\* The records addressed to the provider are the same while the file and the
\* command are.
LEMMA AddressedStays ==
  ASSUME UNCHANGED given
  PROVE  AddressedToProvider' = AddressedToProvider
  BY DEF AddressedToProvider, given

\* A step that leaves the counts as they were.
LEMMA PinsStay ==
  ASSUME PinsCounted, UNCHANGED <<given, pc, turn, index, prompts, tries>>
  PROVE  PinsCounted'
  <1>1. AddressedToProvider' = AddressedToProvider
    BY AddressedStays
  <1>2. AddressedBefore' = AddressedBefore
    BY <1>1 DEF AddressedBefore
  <1> QED
    BY <1>1, <1>2 DEF PinsCounted, PinOnlyIfAddressed, OneWrongPin

\* A step to where nothing is asked any more in this turn.
LEMMA TurnPins ==
  ASSUME PinsCounted, UNCHANGED <<given, turn, prompts, tries>>,
         pc' \in {"payload", "unpack", "opened"}
  PROVE  PinsCounted'
  <1>1. AddressedToProvider' = AddressedToProvider
    BY AddressedStays
  <1> QED
    BY <1>1 DEF PinsCounted, PinOnlyIfAddressed, OneWrongPin

\* A key that fails ends its turn.
LEMMA KeyFailsPins ==
  ASSUME Position, pc \notin Unread, NEW e, KeyFails(e), UNCHANGED given,
         prompts' \in Nat, tries' \in Nat, tries' <= 1,
         prompts' > 0 => prompts' <= Cardinality(AddressedToProvider)
  PROVE  PinsCounted'
  <1>1. AddressedToProvider' = AddressedToProvider
    BY AddressedStays
  <1>2. turn' # 1 /\ pc' \in {"parse", "refused"}
    BY LimitIsNat DEF KeyFails
  <1> QED
    BY <1>1, <1>2 DEF PinsCounted, PinOnlyIfAddressed, OneWrongPin

\* On to the next record: a PIN asked for was for a record addressed.
LEMMA NextRecordPins ==
  ASSUME Provenance, Position, PinsCounted, pc \in Scanning, pc' = "scan",
         index' = index + 1, UNCHANGED <<given, turn, prompts, tries>>
  PROVE  PinsCounted'
  <1> DEFINE next == {i \in AddressedToProvider : i < index + 1}
  <1>1. AddressedToProvider' = AddressedToProvider
    BY AddressedStays
  <1>2. AddressedBefore' = next
    BY <1>1 DEF AddressedBefore
  <1>3. pc \notin Unread
    BY DEF Scanning
  <1>4. /\ Cardinality(AddressedBefore) \in Nat /\ Cardinality(next) \in Nat
        /\ Cardinality(AddressedBefore) <= Cardinality(next)
        /\ index \in AddressedToProvider =>
             Cardinality(next) = Cardinality(AddressedBefore) + 1
    BY <1>3, AddressedCounts
  <1> HIDE DEF next
  <1>5. prompts \in Nat
    BY DEF PinsCounted
  <1>6. turn = 1 => prompts <= Cardinality(next)
    <2> SUFFICES ASSUME turn = 1
                 PROVE  prompts <= Cardinality(next)
      OBVIOUS
    <2>1. CASE pc = "login"
      <3>1. index \in AddressedToProvider
        BY <2>1, PerformAddressed
      <3>2. prompts <= Cardinality(AddressedBefore) + 1
        BY <2>1 DEF PinsCounted
      <3> QED
        BY <1>4, <3>1, <3>2
    <2>2. CASE pc # "login"
      <3>1. prompts <= Cardinality(AddressedBefore)
        BY <2>2 DEF PinsCounted, Scanning
      <3> QED
        BY <1>4, <1>5, <3>1
    <2> QED
      BY <2>1, <2>2
  <1> QED
    BY <1>1, <1>2, <1>6 DEF PinsCounted, PinOnlyIfAddressed, OneWrongPin

\* The counts are kept by every step.
LEMMA PinsStep ==
  ASSUME TypeOK, Provenance, Position, PinsCounted, [Next]_vars
  PROVE  PinsCounted'
  <1>0. /\ prompts \in Nat /\ tries \in Nat /\ tries <= 1
        /\ prompts > 0 => prompts <= Cardinality(AddressedToProvider)
    BY DEF PinsCounted, PinOnlyIfAddressed, OneWrongPin
  <1>1. ASSUME NEW s \in Slot, Encrypt(s) \/ WritePiece(s) \/ WriterStops(s)
        PROVE  PinsCounted'
    BY <1>1, PinsStay DEF Encrypt, WritePiece, WriterStops, scan
  <1>2. CASE Damage
    BY <1>2, PinsStay DEF Damage, scan
  <1>17. CASE TurnAway
    <2>1. pc' = "stopped" /\ turn' = turn /\ prompts' = 0 /\ tries' = tries
      BY <1>17 DEF TurnAway, PinsCounted
    <2> QED
      BY <1>0, <2>1 DEF PinsCounted, PinOnlyIfAddressed, OneWrongPin
  <1>3. CASE Start
    <2>1. pc' = "parse" /\ turn' = turn /\ prompts' = 0 /\ tries' = tries
      BY <1>3 DEF Start, PinsCounted
    <2> QED
      BY <1>0, <2>1 DEF PinsCounted, PinOnlyIfAddressed, OneWrongPin
  <1>4. ASSUME NEW e, KeyFails(e), pc \notin Unread, UNCHANGED <<given, prompts, tries>>
        PROVE  PinsCounted'
    <2>1. /\ prompts' \in Nat /\ tries' \in Nat /\ tries' <= 1
          /\ prompts' > 0 => prompts' <= Cardinality(AddressedToProvider)
      BY <1>0, <1>4
    <2> QED
      BY <1>4, <2>1, KeyFailsPins
  <1>5. CASE Parse
    <2>1. CASE pc' = "scan" /\ UNCHANGED <<scan, turn, first_error>>
      <3>1. pc = "parse" /\ UNCHANGED <<given, turn, index, prompts, tries>>
        BY <1>5, <2>1 DEF Parse, scan
      <3>2. AddressedToProvider' = AddressedToProvider
        BY <3>1, AddressedStays
      <3>3. AddressedBefore' = AddressedBefore
        BY <3>1, <3>2 DEF AddressedBefore
      <3>4. Cardinality(AddressedBefore) \in Nat
        BY <3>1, AddressedCounts
      <3>5. turn = 1 => prompts <= Cardinality(AddressedBefore)
        BY <3>1, <3>4 DEF PinsCounted
      <3> QED
        BY <2>1, <3>1, <3>2, <3>3, <3>5 DEF PinsCounted, PinOnlyIfAddressed, OneWrongPin
    <2> QED
      BY <1>4, <1>5, <2>1 DEF Parse
  <1>6. CASE SkipRecord
    BY <1>6, NextRecordPins DEF SkipRecord, MoreRecords, Scanning
  <1>7. CASE CallProvider
    <2>1. pc = "scan" /\ pc' = "perform" /\ UNCHANGED <<given, turn, index, prompts, tries>>
      BY <1>7 DEF CallProvider, MoreRecords, scan
    <2>2. AddressedToProvider' = AddressedToProvider
      BY <2>1, AddressedStays
    <2>3. AddressedBefore' = AddressedBefore
      BY <2>1, <2>2 DEF AddressedBefore
    <2> QED
      BY <2>1, <2>2, <2>3 DEF PinsCounted, PinOnlyIfAddressed, OneWrongPin
  <1>8. ASSUME NEW kek, NEW cost, TryFmk(kek, cost), pc \in Scanning,
               UNCHANGED <<given, prompts, tries>>
        PROVE  PinsCounted'
    <2>1. pc \notin Unread
      BY <1>8 DEF Scanning
    <2>2. CASE KeyFails("InvalidKeyMaterial")
      BY <1>4, <1>8, <2>1, <2>2
    <2>3. CASE pc' = "payload" /\ turn' = turn
      BY <1>8, <2>3, TurnPins
    <2>4. CASE pc' = "scan" /\ index' = index + 1 /\ turn' = turn
      BY <1>8, <2>4, NextRecordPins
    <2> QED
      BY <1>8, <2>2, <2>3, <2>4 DEF TryFmk
  <1>9. CASE TryRecord
    BY <1>4, <1>8, <1>9 DEF TryRecord, MoreRecords, Scanning
  <1>10. ASSUME NEW kek, Derive(kek), pc \in {"perform", "login"},
                UNCHANGED <<given, prompts, tries>>
         PROVE  PinsCounted'
    BY <1>4, <1>8, <1>10 DEF Derive, Scanning
  <1>11. CASE PerformSoftware \/ PinAccepted \/ OtherCard
    BY <1>10, <1>11 DEF PerformSoftware, PinAccepted, OtherCard
  <1>12. CASE AskPin
    <2>1. pc = "perform" /\ prompts' = prompts + 1 /\ UNCHANGED <<given, tries>>
      BY <1>12 DEF AskPin
    <2>2. index \in AddressedToProvider /\ turn = 1
      BY <2>1, PerformAddressed
    <2>3. /\ Cardinality(AddressedBefore) \in Nat /\ Cardinality(AddressedToProvider) \in Nat
          /\ Cardinality(AddressedBefore) + 1 <= Cardinality(AddressedToProvider)
      BY <2>1, <2>2, AddressedCounts
    <2>4. prompts <= Cardinality(AddressedBefore)
      BY <2>1, <2>2 DEF PinsCounted
    <2>5. /\ prompts' \in Nat /\ prompts' <= Cardinality(AddressedBefore) + 1
          /\ prompts' <= Cardinality(AddressedToProvider)
      BY <1>0, <2>1, <2>3, <2>4
    <2>6. CASE KeyFails("KeyProvider")
      BY <1>0, <2>1, <2>5, <2>6, KeyFailsPins
    <2>7. CASE pc' = "login" /\ UNCHANGED <<turn, scan>>
      <3>1. AddressedToProvider' = AddressedToProvider
        BY <2>1, AddressedStays
      <3>2. AddressedBefore' = AddressedBefore
        BY <2>7, <3>1 DEF AddressedBefore, scan
      <3> QED
        BY <2>1, <2>5, <2>7, <3>1, <3>2 DEF PinsCounted, PinOnlyIfAddressed, OneWrongPin
    <2> QED
      BY <1>12, <2>6, <2>7 DEF AskPin
  <1>13. CASE PinRejected
    <2>1. /\ pc = "login" /\ tries' = tries + 1 /\ UNCHANGED <<given, prompts>>
          /\ KeyFails("KeyProvider")
      BY <1>13 DEF PinRejected, CardRefuses
    <2>2. turn = 1
      BY <2>1, PerformAddressed
    <2>3. tries = 0
      BY <2>2 DEF PinsCounted
    <2>4. tries' \in Nat /\ tries' <= 1
      BY <2>1, <2>3
    <2> QED
      BY <1>0, <2>1, <2>4, KeyFailsPins
  <1>14. CASE TokenFails \/ NoRecordLeft
    BY <1>4, <1>14 DEF TokenFails, NoRecordLeft
  <1>15. CASE DecryptPayload \/ Extract \/ ListEntries
    <2>1. pc \in {"payload", "unpack"} /\ UNCHANGED <<given, prompts, tries>>
      BY <1>15 DEF DecryptPayload, Extract, ListEntries
    <2>2. ASSUME NEW e, KeyFails(e)
          PROVE  PinsCounted'
      BY <1>4, <2>1, <2>2
    <2>3. CASE pc' \in {"unpack", "opened"} /\ UNCHANGED <<turn, first_error, scan>>
      BY <2>1, <2>3, TurnPins
    <2> QED
      BY <1>15, <2>2, <2>3 DEF DecryptPayload, Extract, ListEntries
  <1>16. CASE UNCHANGED vars
    BY <1>16, PinsStay DEF vars, given
  <1> QED
    BY <1>1, <1>2, <1>3, <1>5, <1>6, <1>7, <1>9, <1>11, <1>12, <1>13, <1>14, <1>15,
       <1>16, <1>17 DEF Next, Done

-----------------------------------------------------------------------------
(* The inductive invariant and what follows.                               *)

-----------------------------------------------------------------------------
(* What the scan comes to.                                                 *)

\* A step that leaves the scan where it was.
LEMMA ScanStays ==
  ASSUME ScanSoFar, Refusals,
         UNCHANGED <<given, pc, turn, scan, fmk, first_error, mishap>>
  PROVE  ScanSoFar' /\ Refusals'
  BY DEF ScanSoFar, Refusals, given, scan, key, Scanning

\* A step out of the scan, to where nothing is said of it.
LEMMA ScanLeft ==
  ASSUME Refusals, UNCHANGED <<given, turn, first_error>>, mishap' = mishap,
         pc' \in {"unpack", "opened"}, pc \notin Unread
  PROVE  ScanSoFar' /\ Refusals'
  BY DEF ScanSoFar, Refusals, given, Scanning

\* A key that fails with an error that DecryptErrors knows of, or by a mishap.
LEMMA KeyFailsScan ==
  ASSUME Position, Refusals, pc \notin Ended \cup {"idle"}, NEW e, KeyFails(e),
         UNCHANGED given, mishap' = TRUE \/ mishap' = mishap,
         ~mishap' => e \in DecryptErrors(container, key, limits) /\ e # "none"
  PROVE  ScanSoFar' /\ Refusals'
  <1>1. /\ turn' = turn + 1 /\ turn \in Nat \ {0}
        /\ pc' \in {"parse", "refused"}
        /\ first_error' = IF first_error = "none" THEN e ELSE first_error
        /\ UNCHANGED <<keys, limits, container>>
        /\ index' = 1 /\ ~saw_candidate' /\ ~unsupported'
    <2>1. turn \in Nat \ {0}
      BY LimitIsNat DEF Ended
    <2> QED
      BY <2>1 DEF KeyFails, Begin, given
  <1>2. ScanSoFar'
    BY <1>1 DEF ScanSoFar, Scanning
  <1>3. ASSUME ~mishap'
        PROVE  /\ first_error' \in DecryptErrors(container', keys'[1], limits')
               /\ first_error' # "none"
               /\ \A j \in 1..(turn' - 1) :
                    DecryptErrors(container', keys'[j], limits') # {"none"}
    <2>1. ~mishap
      BY <1>3
    <2>2. e \in DecryptErrors(container, keys[turn], limits) /\ e # "none"
      BY <1>3 DEF key
    <2>3. CASE turn = 1
      <3>1. first_error' = e /\ turn' - 1 = 1
        BY <1>1, <2>3 DEF Refusals
      <3>2. DecryptErrors(container, keys[1], limits) # {"none"}
        BY <2>2, <2>3
      <3> QED
        BY <1>1, <2>2, <2>3, <3>1, <3>2
    <2>4. CASE turn > 1
      <3>1. /\ first_error \in DecryptErrors(container, keys[1], limits)
            /\ first_error # "none"
            /\ \A j \in 1..(turn - 1) :
                 DecryptErrors(container, keys[j], limits) # {"none"}
        BY <2>1, <2>4 DEF Refusals, Ended
      <3>2. DecryptErrors(container, keys[turn], limits) # {"none"}
        BY <2>2
      <3>3. \A j \in 1..(turn' - 1) : j \in 1..(turn - 1) \/ j = turn
        BY <1>1
      <3> QED
        BY <1>1, <3>1, <3>2, <3>3
    <2> QED
      BY <1>1, <2>3, <2>4
  <1>4. Refusals'
    BY <1>1, <1>3 DEF Refusals
  <1> QED
    BY <1>2, <1>4

\* The file as read, while the scan goes on.
LEMMA ScannedFile ==
  ASSUME Provenance, Position, pc \in Scanning \cup {"payload"}
  PROVE  /\ IsSeq(container.header.recipients)
         /\ DOMAIN container.header.recipients = 1..Len(container.header.recipients)
         /\ Len(container.header.recipients) \in Nat
         /\ ParseError(container) = "none"
         /\ index \in Nat \ {0}
         /\ limits.max_recipients \in Nat /\ limits.max_total_kdf_iterations \in Nat
         /\ key.scheme \in Supported
  <1>1. FileOK(container) /\ limits \in LimitsSet /\ turn \in DOMAIN keys
        /\ KeysOK(keys, cmd)
    BY DEF Provenance, Position, Scanning, Ended
  <1>2. IsSeq(container.header.recipients)
    BY <1>1 DEF FileOK, HeaderOK
  <1>3. /\ ParseError(container) = "none" /\ index \in Nat \ {0}
    BY DEF Position
  <1> QED
    BY <1>1, <1>2, <1>3, IsSeqFacts, LimitsAssumption DEF KeysOK, key

\* A record that decides against the key makes it fail with its outcome.
LEMMA RecordFails ==
  ASSUME Provenance, Position, ScanSoFar, Refusals, pc \in Scanning, UNCHANGED given,
         index \in DOMAIN container.header.recipients, NEW e, KeyFails(e),
         mishap' = TRUE \/ mishap' = mishap,
         ~mishap' => RecordOutcome(container, key, limits, index) = e,
         e \notin GoesOn \cup {"opens"}
  PROVE  ScanSoFar' /\ Refusals'
  <1> SUFFICES ASSUME ~mishap'
               PROVE  e \in DecryptErrors(container, key, limits) /\ e # "none"
    BY KeyFailsScan DEF Scanning, Ended
  <1>1. ~mishap
    OBVIOUS
  <1>2. /\ IsSeq(container.header.recipients) /\ limits.max_recipients \in Nat
        /\ ParseError(container) = "none"
    BY ScannedFile
  <1>3. /\ Len(container.header.recipients) <= limits.max_recipients
        /\ "none" \in DecodeErrors(container)
        /\ \A j \in 1..(index - 1) :
             RecordOutcome(container, key, limits, j) \in GoesOn
    BY <1>1 DEF ScanSoFar, GoesOn
  <1>4. RecordOutcome(container, key, limits, index) = e /\ e # "none"
    BY OutcomeIsSome
  <1>5. OpenHeader(container, key, limits) = [error |-> e, index |-> 0]
    BY <1>2, <1>3, <1>4, FirstDecides
  <1> QED
    BY <1>2, <1>3, <1>4, <1>5, OpeningFails

\* What a step makes of the account and the flags when the record at hand does
\* not decide.
PassesOn ==
  /\ RecordOutcome(container, key, limits, index) \in GoesOn
  /\ budget' = budget - Cost(container, key, index)
  /\ saw_candidate' <=>
       \/ saw_candidate
       \/ RecordOutcome(container, key, limits, index) = "does not open"
  /\ unsupported' <=> unsupported \/ record.capsule.scheme \in Unsupported

\* The scan goes on to the next record.
LEMMA NextRecordScan ==
  ASSUME Provenance, Position, ScanSoFar, Refusals, pc \in Scanning, pc' = "scan",
         UNCHANGED <<given, turn, first_error>>,
         mishap' = TRUE \/ mishap' = mishap,
         index \in DOMAIN container.header.recipients, index' = index + 1,
         ~mishap' => PassesOn
  PROVE  ScanSoFar' /\ Refusals'
  <1> DEFINE records == container.header.recipients
             Out(j)  == RecordOutcome(container, key, limits, j)
             max     == limits.max_total_kdf_iterations
  <1>0. UNCHANGED <<keys, limits, container, key>>
    BY DEF given, key
  <1>1. /\ IsSeq(records) /\ DOMAIN records = 1..Len(records) /\ Len(records) \in Nat
        /\ index \in Nat \ {0} /\ max \in Nat
    BY ScannedFile
  <1>5. /\ index' = index + 1 /\ index' - 1 = index /\ index <= Len(records)
        /\ index' <= Len(records) + 1
    <2>1. PICK n \in Nat : n = Len(records)
      BY <1>1
    <2>2. index \in 1..n
      BY <1>1, <2>1
    <2>3. PICK i \in 1..n : i = index
      BY <2>2
    <2>4. (i + 1) - 1 = i /\ i <= n /\ i + 1 <= n + 1
      OBVIOUS
    <2> QED
      BY <2>1, <2>3, <2>4
  <1>2. Refusals'
    BY <1>0 DEF Refusals, Scanning
  <1>3. ASSUME ~mishap'
        PROVE  /\ "none" \in DecodeErrors(container')
               /\ Len(container'.header.recipients) <= limits'.max_recipients
               /\ index' <= Len(container'.header.recipients) + 1
               /\ \A j \in 1..(index' - 1) : RecordOutcome(container', key', limits', j)
                                               \in {"passed over", "does not open"}
               /\ budget' = limits'.max_total_kdf_iterations
                              - Spent(container', key', index')
               /\ saw_candidate' <=>
                    \E j \in 1..(index' - 1) :
                      RecordOutcome(container', key', limits', j) = "does not open"
               /\ unsupported' <=>
                    \E j \in 1..(index' - 1) :
                      container'.header.recipients[j].capsule.scheme \in Unsupported
    <2>0. ~mishap
      BY <1>3
    <2>1. /\ "none" \in DecodeErrors(container)
          /\ Len(records) <= limits.max_recipients
          /\ \A j \in 1..(index - 1) : Out(j) \in {"passed over", "does not open"}
          /\ budget = max - Spent(container, key, index)
          /\ saw_candidate <=> \E j \in 1..(index - 1) : Out(j) = "does not open"
          /\ unsupported <=>
               \E j \in 1..(index - 1) : records[j].capsule.scheme \in Unsupported
      BY <2>0 DEF ScanSoFar, Scanning
    <2>2. \A j : j \in 1..(index' - 1) <=> j \in 1..(index - 1) \/ j = index
      <3>1. \A i \in Nat \ {0} : \A j : j \in 1..i <=> j \in 1..(i - 1) \/ j = i
        OBVIOUS
      <3> QED
        BY <1>1, <1>5, <3>1
    <2>3. Spent(container, key, index + 1)
            = Spent(container, key, index) + Cost(container, key, index)
      BY <1>1, SpentNext
    <2>4. Spent(container, key, index) \in Int /\ Cost(container, key, index) \in Int
      <3>1. \A j \in DOMAIN records :
              records[j].capsule.scheme = "SC06" =>
                records[j].capsule.kdf_iterations \in Int
        BY DEF Provenance, FileOK, HeaderOK, Scanning
      <3> QED
        BY <1>1, <3>1, CostsAreInts
    <2>5. budget' = max - Spent(container, key, index')
      <3>1. \A m, x, c \in Int : (m - x) - c = m - (x + c)
        OBVIOUS
      <3>2. budget' = (max - Spent(container, key, index)) - Cost(container, key, index)
        BY <1>3, <2>1 DEF PassesOn
      <3>3. (max - Spent(container, key, index)) - Cost(container, key, index)
              = max - (Spent(container, key, index) + Cost(container, key, index))
        BY <1>1, <2>4, <3>1
      <3> QED
        BY <1>5, <2>3, <3>2, <3>3
    <2>6. Out(index) \in {"passed over", "does not open"}
      BY <1>3 DEF GoesOn, PassesOn
    <2>7. saw_candidate' <=> \E j \in 1..(index' - 1) : Out(j) = "does not open"
      BY <1>3, <2>1, <2>2 DEF PassesOn
    <2>8. unsupported' <=>
            \E j \in 1..(index' - 1) : records[j].capsule.scheme \in Unsupported
      BY <1>3, <2>1, <2>2 DEF record, PassesOn
    <2>9. \A j \in 1..(index' - 1) : Out(j) \in {"passed over", "does not open"}
      BY <2>1, <2>2, <2>6
    <2> QED
      BY <1>0, <1>5, <2>1, <2>5, <2>7, <2>8, <2>9
  <1>4. ScanSoFar'
    BY <1>3 DEF ScanSoFar, Scanning
  <1> QED
    BY <1>2, <1>4

\* A step within one record of the scan.
LEMMA ScanWithin ==
  ASSUME ScanSoFar, Refusals, pc \in Scanning, pc' \in Scanning,
         UNCHANGED <<given, turn, scan, first_error, mishap>>
  PROVE  ScanSoFar' /\ Refusals'
  <1>1. UNCHANGED <<container, keys, limits, turn, index, budget, saw_candidate,
                    unsupported, key>>
    BY DEF given, scan, key
  <1>2. Refusals'
    BY <1>1 DEF Refusals, Scanning
  <1>3. pc # "parse" /\ pc # "payload" /\ pc' # "parse" /\ pc' # "payload"
    BY DEF Scanning
  <1> QED
    BY <1>1, <1>2, <1>3 DEF ScanSoFar

\* What the key of the record at hand comes to, when its KEK has been derived.
Derived(kek, cost) ==
  /\ kek = TryKek(record, key) /\ cost = Cost(container, key, index)
  /\ KekError(record, key, limits.max_total_kdf_iterations
                             - Spent(container, key, index)) = "none"
  /\ key.scheme = "SC01" => record.capsule.sender_public_key # NoPoint

\* The FMK is unwrapped and tried.
LEMMA TryFmkScan ==
  ASSUME Provenance, Position, ScanSoFar, Refusals, pc \in Scanning,
         UNCHANGED given, mishap' = TRUE \/ mishap' = mishap,
         index \in DOMAIN container.header.recipients, Candidate(record, key),
         NEW kek, NEW cost, TryFmk(kek, cost), ~mishap' => Derived(kek, cost)
  PROVE  ScanSoFar' /\ Refusals'
  <1> DEFINE out == RecordOutcome(container, key, limits, index)
             x   == Xor(record.encrypted_fmk, kek)
  <1>1. ASSUME ~mishap'
        PROVE  /\ out = IF record.encrypted_fmk = BadLength THEN "InvalidKeyMaterial"
                        ELSE IF Verify(container, x) THEN "opens" ELSE "does not open"
               /\ x = OpenedFmk(container, key, index)
               /\ cost = Cost(container, key, index)
    BY <1>1 DEF Derived, RecordOutcome, UnwrapXor, OpenedFmk, record
  <1> HIDE DEF out
  <1>2. CASE record.encrypted_fmk = BadLength /\ KeyFails("InvalidKeyMaterial")
    <2>1. ~mishap' => out = "InvalidKeyMaterial"
      BY <1>1, <1>2
    <2>2. "InvalidKeyMaterial" \notin GoesOn \cup {"opens"}
      BY DEF GoesOn
    <2> QED
      BY <1>2, <2>1, <2>2, RecordFails DEF out
  <1>3. CASE /\ record.encrypted_fmk # BadLength /\ Verify(container, x)
             /\ fmk' = x /\ pc' = "payload"
             /\ UNCHANGED <<turn, first_error, index, unsupported>>
    <2>1. UNCHANGED <<container, keys, limits, turn, index, key>>
      BY <1>3 DEF given, key
    <2>2. Refusals'
      BY <1>3, <2>1 DEF Refusals, Scanning
    <2>3. ASSUME ~mishap'
          PROVE  /\ RecordOutcome(container', key', limits', index') = "opens"
                 /\ fmk' = OpenedFmk(container', key', index')
      BY <1>1, <1>3, <2>1, <2>3 DEF out
    <2>4. ASSUME ~mishap'
          PROVE  /\ "none" \in DecodeErrors(container')
                 /\ Len(container'.header.recipients) <= limits'.max_recipients
                 /\ index' <= Len(container'.header.recipients) + 1
                 /\ \A i \in 1..(index' - 1) :
                      RecordOutcome(container', key', limits', i)
                        \in {"passed over", "does not open"}
      BY <2>1, <2>4 DEF ScanSoFar
    <2>5. ScanSoFar'
      BY <1>3, <2>3, <2>4 DEF ScanSoFar
    <2> QED
      BY <2>2, <2>5
  <1>4. CASE /\ record.encrypted_fmk # BadLength /\ ~Verify(container, x)
             /\ index' = index + 1 /\ budget' = budget - cost
             /\ saw_candidate' = TRUE /\ pc' = "scan"
             /\ UNCHANGED <<turn, first_error, unsupported, fmk>>
    <2>1. ASSUME ~mishap'
          PROVE  PassesOn
      <3>1. out = "does not open" /\ cost = Cost(container, key, index)
        BY <1>1, <1>4, <2>1
      <3>2. record.capsule.scheme \notin Unsupported
        BY ScannedFile DEF Candidate, Supported, Unsupported
      <3>3. unsupported' <=> unsupported \/ record.capsule.scheme \in Unsupported
        BY <1>4, <3>2
      <3>4. /\ out \in GoesOn
            /\ budget' = budget - Cost(container, key, index)
            /\ saw_candidate' <=> saw_candidate \/ out = "does not open"
        BY <1>4, <3>1 DEF GoesOn
      <3> QED
        BY <3>3, <3>4 DEF PassesOn, out
    <2> QED
      BY <1>4, <2>1, NextRecordScan
  <1> QED
    BY <1>2, <1>3, <1>4 DEF TryFmk

\* The private-key operation of a provider, and what follows.
LEMMA DeriveScan ==
  ASSUME Provenance, Position, ScanSoFar, Refusals, pc \in {"perform", "login"},
         UNCHANGED given, mishap' = TRUE \/ mishap' = mishap,
         NEW kek, Derive(kek), ~mishap' => kek = TryKek(record, key)
  PROVE  ScanSoFar' /\ Refusals'
  <1>1. /\ index \in DOMAIN container.header.recipients /\ Candidate(record, key)
        /\ key.scheme = "SC01"
    BY DEF Position
  <1>2. KekError(record, key, limits.max_total_kdf_iterations
                                - Spent(container, key, index)) = "none"
    BY <1>1 DEF KekError
  <1>3. Cost(container, key, index) = 0
    BY <1>1 DEF Cost, KdfCost
  <1>4. CASE /\ record.capsule.sender_public_key = NoPoint
             /\ KeyFails("InvalidKeyMaterial")
    <2>1. RecordOutcome(container, key, limits, index) = "InvalidKeyMaterial"
      BY <1>1, <1>2, <1>4 DEF RecordOutcome, record
    <2>2. "InvalidKeyMaterial" \notin GoesOn \cup {"opens"}
      BY DEF GoesOn
    <2> QED
      BY <1>1, <1>4, <2>1, <2>2, RecordFails DEF Scanning
  <1>5. CASE record.capsule.sender_public_key # NoPoint /\ TryFmk(kek, 0)
    <2>1. ~mishap' => Derived(kek, 0)
      BY <1>2, <1>3, <1>5 DEF Derived
    <2> QED
      BY <1>1, <1>5, <2>1, TryFmkScan DEF Scanning
  <1> QED
    BY <1>4, <1>5 DEF Derive

\* Deriving a KEK fails with one of these errors.
LEMMA KekErrors ==
  ASSUME NEW r, NEW k, NEW b, k.scheme \in Supported
  PROVE  KekError(r, k, b) \in {"none", "InvalidKeyMaterial", "LimitExceeded"}
  BY DEF KekError, Supported

LEMMA ParseScan ==
  ASSUME Provenance, Position, Account, ScanSoFar, Refusals, Parse
  PROVE  ScanSoFar' /\ Refusals'
  <1>1. /\ pc = "parse" /\ UNCHANGED <<given, mishap>>
    BY DEF Parse
  <1>2. /\ IsSeq(container.header.recipients) /\ limits.max_recipients \in Nat
        /\ Len(container.header.recipients) \in Nat
        /\ limits.max_total_kdf_iterations \in Nat
    <2>1. FileOK(container) /\ limits \in LimitsSet
      BY <1>1 DEF Provenance, Position
    <2> QED
      BY <2>1, IsSeqFacts, LimitsAssumption DEF FileOK, HeaderOK
  <1>3. PICK e \in IF ParseError(container) # "none" THEN {ParseError(container)}
                   ELSE DecodeErrors(container) :
          \/ e # "none" /\ KeyFails(e)
          \/ /\ e = "none"
             /\ Len(container.header.recipients) > limits.max_recipients
             /\ KeyFails("LimitExceeded")
          \/ /\ e = "none"
             /\ Len(container.header.recipients) <= limits.max_recipients
             /\ pc' = "scan"
             /\ UNCHANGED <<scan, turn, first_error>>
    BY DEF Parse
  <1>4. CASE e # "none" /\ KeyFails(e)
    <2>1. e \in DecryptErrors(container, key, limits) /\ e # "none"
      BY <1>3, <1>4, DecodingFails
    <2> QED
      BY <1>1, <1>4, <2>1, KeyFailsScan DEF Ended
  <1>5. CASE /\ e = "none" /\ KeyFails("LimitExceeded")
             /\ Len(container.header.recipients) > limits.max_recipients
    <2>1. ParseError(container) = "none" /\ "none" \in DecodeErrors(container)
      BY <1>3, <1>5
    <2>2. OpenHeader(container, key, limits).error = "LimitExceeded"
      BY <1>5 DEF OpenHeader
    <2>3. "LimitExceeded" \in DecryptErrors(container, key, limits)
      BY <2>1, <2>2, OpeningFails
    <2> QED
      BY <1>1, <1>5, <2>3, KeyFailsScan DEF Ended
  <1>6. CASE /\ e = "none" /\ pc' = "scan" /\ UNCHANGED <<scan, turn, first_error>>
             /\ Len(container.header.recipients) <= limits.max_recipients
    <2>1. UNCHANGED <<container, keys, limits, turn, index, budget, saw_candidate,
                      unsupported, key>>
      BY <1>1, <1>6 DEF given, scan, key
    <2>2. Refusals'
      BY <1>1, <1>6, <2>1 DEF Refusals
    <2>3. index' = 1 /\ ~saw_candidate' /\ ~unsupported'
      BY <1>1, <2>1 DEF ScanSoFar
    <2>4. 1..(index' - 1) = {}
      BY <2>3
    <2>5. "none" \in DecodeErrors(container')
      BY <1>3, <1>6, <2>1
    <2>6. budget' = limits'.max_total_kdf_iterations - Spent(container', key', index')
      <3>1. budget = limits.max_total_kdf_iterations
        BY <1>1 DEF Account
      <3>2. Spent(container', key', index') = 0
        BY <2>3, SpentFirst
      <3> QED
        BY <1>2, <2>1, <3>1, <3>2
    <2>7. index' <= Len(container'.header.recipients) + 1
      BY <1>2, <2>1, <2>3
    <2>8. Len(container'.header.recipients) <= limits'.max_recipients
      BY <1>6, <2>1
    <2>9. ScanSoFar'
      BY <1>6, <2>3, <2>4, <2>5, <2>6, <2>7, <2>8 DEF ScanSoFar
    <2> QED
      BY <2>2, <2>9
  <1> QED
    BY <1>3, <1>4, <1>5, <1>6

LEMMA RecordScan ==
  ASSUME Provenance, Position, Account, ScanSoFar, Refusals, SkipRecord \/ TryRecord
  PROVE  ScanSoFar' /\ Refusals'
  <1>1. /\ pc = "scan" /\ UNCHANGED <<given, mishap>> /\ pc \in Scanning
        /\ index <= Len(container.header.recipients)
    BY DEF SkipRecord, TryRecord, MoreRecords, Scanning
  <1>2. index \in DOMAIN container.header.recipients
    BY <1>1, ScannedFile
  <1>3. CASE SkipRecord
    <2>1. RecordOutcome(container, key, limits, index) = "passed over"
      BY <1>3 DEF SkipRecord, RecordOutcome, record
    <2>2. Cost(container, key, index) = 0
      BY <1>3 DEF SkipRecord, Cost, record
    <2>3. budget' = budget - Cost(container, key, index)
      BY <1>3, <2>2 DEF SkipRecord, Account
    <2>4. PassesOn
      BY <1>3, <2>1, <2>3 DEF SkipRecord, PassesOn, GoesOn
    <2> QED
      BY <1>1, <1>2, <1>3, <2>4, NextRecordScan DEF SkipRecord
  <1>4. CASE TryRecord
    <2>1. Candidate(record, key) /\ key.scheme # "SC01"
      BY <1>4 DEF TryRecord
    <2>2. ~mishap =>
            budget = limits.max_total_kdf_iterations - Spent(container, key, index)
      BY <1>1 DEF ScanSoFar
    <2>3. CASE KekError(record, key, budget) # "none"
      <3>1. PICK e : /\ e = KekError(record, key, budget) /\ e # "none"
                     /\ KeyFails(e)
        BY <1>4, <2>3 DEF TryRecord
      <3>2. ~mishap' => RecordOutcome(container, key, limits, index) = e
        BY <1>1, <2>1, <2>2, <3>1 DEF RecordOutcome, record
      <3>3. e \notin GoesOn \cup {"opens"}
        <4>1. key.scheme \in Supported
          BY <1>1, ScannedFile
        <4> QED
          BY <3>1, <4>1, KekErrors DEF GoesOn
      <3> QED
        BY <1>1, <1>2, <3>1, <3>2, <3>3, RecordFails
    <2>4. CASE KekError(record, key, budget) = "none"
      <3>1. TryFmk(TryKek(record, key), KdfCost(record, key))
        BY <1>4, <2>4 DEF TryRecord
      <3>2. ~mishap' => Derived(TryKek(record, key), KdfCost(record, key))
        BY <1>1, <2>1, <2>2, <2>4 DEF Derived, Cost, record
      <3> QED
        BY <1>1, <1>2, <2>1, <3>1, <3>2, TryFmkScan
    <2> QED
      BY <2>3, <2>4
  <1> QED
    BY <1>3, <1>4

LEMMA NoRecordScan ==
  ASSUME Provenance, Position, ScanSoFar, Refusals, NoRecordLeft
  PROVE  ScanSoFar' /\ Refusals'
  <1> DEFINE records == container.header.recipients
             e == IF saw_candidate THEN "HeaderHmacMismatch"
                  ELSE IF unsupported THEN "UnsupportedCapsule"
                  ELSE "NoMatchingRecipient"
             Out(j) == RecordOutcome(container, key, limits, j)
  <1>1. /\ pc = "scan" /\ pc \in Scanning /\ UNCHANGED <<given, mishap>>
        /\ index > Len(records) /\ KeyFails(e)
    BY DEF NoRecordLeft, Scanning
  <1>2. /\ IsSeq(records) /\ DOMAIN records = 1..Len(records) /\ Len(records) \in Nat
        /\ ParseError(container) = "none"
        /\ index \in Nat \ {0} /\ limits.max_recipients \in Nat
    BY <1>1, ScannedFile
  <1>3. ASSUME ~mishap
        PROVE  e \in DecryptErrors(container, key, limits)
    <2>1. /\ "none" \in DecodeErrors(container) /\ Len(records) <= limits.max_recipients
          /\ index <= Len(records) + 1
          /\ \A i \in 1..(index - 1) : Out(i) \in GoesOn
          /\ saw_candidate <=> \E i \in 1..(index - 1) : Out(i) = "does not open"
          /\ unsupported <=>
               \E i \in 1..(index - 1) : records[i].capsule.scheme \in Unsupported
      BY <1>1, <1>3 DEF ScanSoFar, GoesOn
    <2>2. 1..(index - 1) = DOMAIN records
      <3>0. \A n, i \in Nat : i > n /\ i <= n + 1 => i - 1 = n
        OBVIOUS
      <3>1. index - 1 = Len(records)
        BY <1>1, <1>2, <2>1, <3>0
      <3> QED
        BY <1>2, <3>1
    <2>3. OpenHeader(container, key, limits).error = e
      <3> DEFINE unopened == \E j \in DOMAIN records : Out(j) = "does not open"
                 foreign  == \E j \in DOMAIN records :
                               records[j].capsule.scheme \in Unsupported
                 error    == OpenHeader(container, key, limits).error
      <3>1. /\ unopened => error = "HeaderHmacMismatch"
            /\ ~unopened /\ foreign => error = "UnsupportedCapsule"
            /\ ~unopened /\ ~foreign => error = "NoMatchingRecipient"
        BY <1>2, <2>1, <2>2, NoneDecides
      <3>2. (saw_candidate <=> unopened) /\ (unsupported <=> foreign)
        BY <2>1, <2>2
      <3> HIDE DEF unopened, foreign, error
      <3>3. error = e
        BY <3>1, <3>2
      <3> QED
        BY <3>3 DEF error
    <2> QED
      BY <1>2, <2>1, <2>3, OpeningFails
  <1>4. e # "none"
    OBVIOUS
  <1> HIDE DEF e
  <1> QED
    BY <1>1, <1>3, <1>4, KeyFailsScan DEF Ended

LEMMA PayloadScan ==
  ASSUME Provenance, Position, ScanSoFar, Refusals, DecryptPayload
  PROVE  ScanSoFar' /\ Refusals'
  <1>1. pc = "payload" /\ UNCHANGED <<given, mishap>>
    BY DEF DecryptPayload
  <1>2. ASSUME ~mishap
        PROVE  PayloadError(container, fmk) # "none" =>
                 PayloadError(container, fmk) \in DecryptErrors(container, key, limits)
    <2>1. /\ IsSeq(container.header.recipients) /\ ParseError(container) = "none"
          /\ limits.max_recipients \in Nat
      BY <1>1, ScannedFile
    <2>2. index \in DOMAIN container.header.recipients
      BY <1>1 DEF Position
    <2>3. /\ "none" \in DecodeErrors(container)
          /\ Len(container.header.recipients) <= limits.max_recipients
          /\ \A j \in 1..(index - 1) :
               RecordOutcome(container, key, limits, j) \in GoesOn
          /\ RecordOutcome(container, key, limits, index) = "opens"
          /\ fmk = OpenedFmk(container, key, index)
      BY <1>1, <1>2 DEF ScanSoFar, GoesOn
    <2>4. RecordOutcome(container, key, limits, index) \notin GoesOn
      BY <2>3 DEF GoesOn
    <2>5. OpenHeader(container, key, limits) = [error |-> "none", index |-> index]
      BY <2>1, <2>2, <2>3, <2>4, FirstDecides
    <2> QED
      BY <2>1, <2>3, <2>5, OpeningFails
  <1>3. ASSUME NEW e, KeyFails(e), e = PayloadError(container, fmk), e # "none"
        PROVE  ScanSoFar' /\ Refusals'
    BY <1>1, <1>2, <1>3, KeyFailsScan DEF Ended
  <1>4. CASE pc' = "unpack" /\ UNCHANGED <<turn, first_error, scan>>
    BY <1>1, <1>4, ScanLeft
  <1> QED
    BY <1>3, <1>4 DEF DecryptPayload, PayloadError

LEMMA ScanStep ==
  ASSUME TypeOK, Provenance, Position, Account, ScanSoFar, Refusals, [Next]_vars
  PROVE  ScanSoFar' /\ Refusals'
  <1>1. ASSUME NEW s \in Slot, Encrypt(s) \/ WritePiece(s) \/ WriterStops(s)
        PROVE  ScanSoFar' /\ Refusals'
    BY <1>1, ScanStays DEF Encrypt, WritePiece, WriterStops
  <1>2. CASE Damage
    BY <1>2, ScanStays DEF Damage
  <1>12. CASE TurnAway
    BY <1>12 DEF TurnAway, ScanSoFar, Refusals, Scanning
  <1>3. CASE Start
    <2>1. /\ pc' = "parse" /\ turn' = 1 /\ first_error' = "none"
          /\ index' = 1 /\ ~saw_candidate' /\ ~unsupported'
      <3>1. turn = 1 /\ first_error = "none"
        BY <1>3 DEF Start, Position, Refusals
      <3>2. PICK args \in Commands, lim \in LimitsSet : Begin(lim)
        BY <1>3 DEF Start
      <3>3. index' = 1 /\ ~saw_candidate' /\ ~unsupported'
        BY <3>2 DEF Begin
      <3> QED
        BY <1>3, <3>1, <3>3 DEF Start
    <2>2. ScanSoFar'
      BY <2>1 DEF ScanSoFar, Scanning
    <2>3. Refusals'
      BY <2>1 DEF Refusals
    <2> QED
      BY <2>2, <2>3
  <1>4. CASE CallProvider
    BY <1>4, ScanWithin DEF CallProvider, MoreRecords, Scanning
  <1>5. CASE PerformSoftware \/ PinAccepted
    BY <1>5, DeriveScan DEF PerformSoftware, PinAccepted
  <1>6. CASE OtherCard
    <2>1. PICK k : Derive(ProviderKek(record, k))
      BY <1>6 DEF OtherCard
    <2> QED
      BY <1>6, <2>1, DeriveScan DEF OtherCard
  <1>7. ASSUME NEW e, KeyFails(e), mishap' = TRUE, UNCHANGED given,
               pc \in {"perform", "login", "unpack"}
        PROVE  ScanSoFar' /\ Refusals'
    BY <1>7, KeyFailsScan DEF Ended
  <1>8. CASE AskPin
    <2>1. CASE pc' = "login" /\ UNCHANGED <<turn, first_error, scan, mishap>>
      BY <1>8, <2>1, ScanWithin DEF AskPin, Scanning
    <2> QED
      BY <1>7, <1>8, <2>1 DEF AskPin
  <1>9. CASE TokenFails \/ PinRejected
    BY <1>7, <1>9 DEF TokenFails, PinRejected, CardRefuses
  <1>10. CASE Extract \/ ListEntries
    <2>1. CASE pc' = "opened" /\ UNCHANGED <<turn, first_error, scan, mishap>>
      BY <1>10, <2>1, ScanLeft DEF Extract, ListEntries
    <2> QED
      BY <1>7, <1>10, <2>1 DEF Extract, ListEntries
  <1>11. CASE UNCHANGED vars
    BY <1>11, ScanStays DEF vars, given, scan
  <1> QED
    BY <1>1, <1>2, <1>3, <1>4, <1>5, <1>6, <1>8, <1>9, <1>10, <1>11, <1>12,
       ParseScan, RecordScan, NoRecordScan, PayloadScan DEF Next, Done

\* Nothing but TurnAway turns a command away.
LEMMA TurnedAwayStep ==
  ASSUME TurnedAway, [Next]_vars
  PROVE  TurnedAway'
  <1>1. ASSUME NEW e, KeyFails(e)
        PROVE  pc' # "stopped"
    BY <1>1 DEF KeyFails
  <1>2. ASSUME NEW kek, NEW cost, TryFmk(kek, cost)
        PROVE  pc' # "stopped"
    BY <1>1, <1>2 DEF TryFmk
  <1>3. ASSUME NEW kek, Derive(kek)
        PROVE  pc' # "stopped"
    BY <1>1, <1>2, <1>3 DEF Derive
  <1>4. CASE TurnAway
    BY <1>4 DEF TurnAway, TurnedAway
  <1>5. CASE UNCHANGED <<pc, cmd, mishap>>
    BY <1>5 DEF TurnedAway, Undecodable
  <1>6. CASE pc' # "stopped"
    BY <1>6 DEF TurnedAway
  <1> QED
    BY <1>1, <1>2, <1>3, <1>4, <1>5, <1>6 DEF Next, vars, given, Encrypt, WritePiece,
       WriterStops, Damage, Start, Parse, SkipRecord, TryRecord, CallProvider,
       PerformSoftware, AskPin, TokenFails, PinRejected, PinAccepted, OtherCard,
       NoRecordLeft, DecryptPayload, Extract, ListEntries, Done

LEMMA InitInv ==
  ASSUME Init
  PROVE  IndInv
  <1> USE DEF Init
  <1>1. /\ \A s \in Slot : files[s] = <<>> /\ made[s] = <<>>
        /\ DOMAIN files = Slot /\ DOMAIN made = Slot
    OBVIOUS
  <1>2. TypeOK
    BY <1>1, BoundsAssumption DEF TypeOK, Ended
  <1>3. Provenance
    BY <1>1 DEF Provenance, MadeOK, FilesOK, WritersOK
  <1>4. Position
    BY DEF Position, Ended, Scanning
  <1>5. Account
    BY DEF Account, Scanning
  <1>6. PinsCounted
    BY DEF PinsCounted, PinOnlyIfAddressed, OneWrongPin
  <1>7. ReleasedAuthentic
    BY DEF ReleasedAuthentic
  <1>8. ScanSoFar /\ Refusals
    BY DEF ScanSoFar, Refusals, Scanning
  <1>9. TurnedAway
    BY DEF TurnedAway
  <1> QED
    BY <1>2, <1>3, <1>4, <1>5, <1>6, <1>7, <1>8, <1>9 DEF IndInv

LEMMA TypeStep ==
  ASSUME TypeOK, [Next]_vars, Provenance', Position', Account'
  PROVE  TypeOK'
  <1> USE DEF Ended
  <1>1. /\ DOMAIN files' = Slot /\ DOMAIN made' = Slot /\ rng' \in Nat \ {0}
        /\ writer' \subseteq Slot /\ damage' \in 0..MaxDamage
    <2>1. ASSUME NEW s \in Slot, Encrypt(s)
          PROVE  /\ DOMAIN files' = Slot /\ DOMAIN made' = Slot /\ rng' \in Nat \ {0}
                 /\ writer' \subseteq Slot /\ damage' = damage
      <3>1. PICK job \in Jobs[s] : rng' = rng + Draws(job.to)
        BY <2>1 DEF Encrypt
      <3>2. Len(job.to) \in Nat
        BY JobsAssumption, IsSeqFacts
      <3>3. rng' \in Nat \ {0}
        BY <3>1, <3>2 DEF Draws, TypeOK
      <3> QED
        BY <2>1, <3>3 DEF Encrypt, TypeOK
    <2>2. ASSUME NEW s \in Slot, WritePiece(s) \/ WriterStops(s)
          PROVE  /\ DOMAIN files' = Slot /\ DOMAIN made' = Slot /\ rng' \in Nat \ {0}
                 /\ writer' \subseteq Slot /\ damage' = damage
      BY <2>2 DEF WritePiece, WriterStops, TypeOK
    <2>3. CASE Damage
      BY <2>3, BoundsAssumption DEF Damage, TypeOK
    <2>4. CASE Start
      BY <2>4 DEF Start, storage, TypeOK
    <2>5. CASE UNCHANGED storage
      BY <2>5 DEF storage, TypeOK
    <2>6. CASE TurnAway
      BY <2>6 DEF TurnAway, storage, TypeOK
    <2> QED
      BY <2>1, <2>2, <2>3, <2>4, <2>5, <2>6, KindsOfStep DEF TypeOK
  <1>2. writer' \subseteq {s \in Slot : made'[s] # <<>>}
    BY <1>1 DEF Provenance, WritersOK
  <1>3. \A s \in Slot : files'[s] # <<>> => files'[s][1].written \in 0..Pieces
    BY DEF Provenance, FilesOK, FileOK
  <1>4. pc' \in {"idle", "parse", "scan", "perform", "login", "payload", "unpack",
                 "opened", "refused", "stopped"}
    <2>1. ASSUME NEW e, KeyFails(e)
          PROVE  pc' \in {"parse", "refused"}
      BY <2>1 DEF KeyFails
    <2>2. ASSUME NEW kek, NEW cost, TryFmk(kek, cost)
          PROVE  pc' \in {"parse", "refused", "payload", "scan"}
      BY <2>1, <2>2 DEF TryFmk
    <2>3. ASSUME NEW kek, Derive(kek)
          PROVE  pc' \in {"parse", "refused", "payload", "scan"}
      BY <2>1, <2>2, <2>3 DEF Derive
    <2>4. CASE UNCHANGED pc
      BY <2>4 DEF TypeOK
    <2> QED
      BY <2>1, <2>2, <2>3, <2>4 DEF Next, vars, Encrypt, WritePiece, WriterStops,
         Damage, TurnAway, Start, Parse, SkipRecord, TryRecord, CallProvider, PerformSoftware,
         AskPin, TokenFails, PinRejected, PinAccepted, OtherCard, NoRecordLeft,
         DecryptPayload, Extract, ListEntries, Done
  <1>5. retries' \in 0..MaxTries
    <2>1. CASE UNCHANGED retries
      BY <2>1 DEF TypeOK
    <2>2. CASE retries' = IF retries = 0 THEN 0 ELSE retries - 1
      BY <2>2, BoundsAssumption DEF TypeOK
    <2>3. CASE retries' = MaxTries
      BY <2>3, BoundsAssumption
    <2> QED
      BY <2>1, <2>2, <2>3 DEF Next, vars, Encrypt, WritePiece, WriterStops,
         Damage, TurnAway, Start, Parse, SkipRecord, TryRecord, CallProvider, PerformSoftware,
         AskPin, TokenFails, PinRejected, CardRefuses, PinAccepted, OtherCard,
         NoRecordLeft, DecryptPayload, Extract, ListEntries, Done
  <1>6. /\ pc' \notin Ended \cup {"idle"} => turn' \in DOMAIN keys'
        /\ pc' \in {"perform", "login", "payload", "unpack"} =>
             index' \in DOMAIN container'.header.recipients
    BY DEF Position
  <1>7. budget' \in Nat
    BY DEF Account
  <1> QED
    BY <1>1, <1>2, <1>3, <1>4, <1>5, <1>6, <1>7 DEF TypeOK

LEMMA StepInv ==
  ASSUME IndInv, [Next]_vars
  PROVE  IndInv'
  <1>1. /\ TypeOK /\ Provenance /\ Position /\ TurnedAway /\ Account /\ PinsCounted
        /\ ScanSoFar /\ Refusals /\ ReleasedAuthentic
    BY DEF IndInv
  <1>2. Provenance'
    BY <1>1, ProvenanceStep
  <1>3. Position'
    BY <1>1, PositionStep
  <1>4. Account'
    BY <1>1, AccountStep
  <1>5. PinsCounted'
    BY <1>1, PinsStep
  <1>6. ReleasedAuthentic'
    BY <1>1, ReleasedStep
  <1>7. TypeOK'
    BY <1>1, <1>2, <1>3, <1>4, TypeStep
  <1>8. ScanSoFar' /\ Refusals'
    BY <1>1, ScanStep
  <1>9. TurnedAway'
    BY <1>1, TurnedAwayStep
  <1> QED
    BY <1>2, <1>3, <1>4, <1>5, <1>6, <1>7, <1>8, <1>9 DEF IndInv

\* Every reachable state satisfies the invariant: whatever authors write, the
\* storage does, keys are offered and cards answer.
THEOREM Invariance == Spec => []IndInv
  BY InitInv, StepInv, PTL DEF Spec

\* The variables of the command keep their types, and its cursors stay within
\* the list of keys and the list of records (try_keys, open_header).
THEOREM TypeCorrect == Spec => []TypeOK
  <1>1. IndInv => TypeOK
    BY DEF IndInv
  <1> QED
    BY <1>1, Invariance, PTL

\* The HMAC and the ciphertext of whatever file is read were made by encrypt,
\* though maybe for different containers (encrypt, fs::read).
THEOREM PartsFromAuthors == Spec => []Provenance
  <1>1. IndInv => Provenance
    BY DEF IndInv
  <1> QED
    BY <1>1, Invariance, PTL

\* Nothing is decrypted but a whole sealed container, by a record its author
\* addressed to the key, and to what its author put in (open_header,
\* decrypt_payload): for any number of files, records, keys and changes.
THEOREM OnlyAuthenticReleased == Spec => []ReleasedAuthentic
  <1>1. IndInv => ReleasedAuthentic
    BY DEF IndInv
  <1> QED
    BY <1>1, Invariance, PTL

\* The header is the author's before the payload is looked at
\* (VerifiedHeader::verify).
THEOREM HeaderFirst == Spec => []VerifiedFirst
  <1>1. IndInv => VerifiedFirst
    BY HeaderIsAuthors DEF IndInv
  <1> QED
    BY <1>1, Invariance, PTL

\* A PIN is asked for only on account of records addressed to the card's key
\* (provider_kek).
THEOREM PinOnlyForOwner == Spec => []PinOnlyIfAddressed
  <1>1. IndInv => PinOnlyIfAddressed
    BY DEF IndInv, PinsCounted
  <1> QED
    BY <1>1, Invariance, PTL

\* A command never sends a second wrong PIN (perform's error ends the scan).
THEOREM SingleWrongPin == Spec => []OneWrongPin
  <1>1. IndInv => OneWrongPin
    BY DEF IndInv, PinsCounted
  <1> QED
    BY <1>1, Invariance, PTL

\* One key runs no more PBKDF2 iterations than the limit, whatever the records
\* ask for (kdf_budget).
THEOREM KeyWorkBounded == Spec => []KdfWorkBounded
  <1>1. IndInv => KdfWorkBounded
    BY DEF IndInv, Account, KdfWorkBounded
  <1> QED
    BY <1>1, Invariance, PTL

\* More of the same costs more.
LEMMA ProductsOrdered ==
  ASSUME NEW a \in Nat, NEW b \in Nat, NEW m \in Nat, a <= b
  PROVE  a * m <= b * m
  <1>1. PICK d \in Nat : b = a + d
    <2>1. b - a \in Nat /\ b = a + (b - a)
      OBVIOUS
    <2> QED
      BY <2>1
  <1>2. b * m = a * m + d * m
    BY <1>1, SMT
  <1>3. a * m \in Nat /\ d * m \in Nat
    BY SMT
  <1> QED
    BY <1>2, <1>3

\* Every element of a concatenation's parts is in it.
LEMMA ConcatenationHas ==
  ASSUME NEW a, NEW b, IsSeq(a), IsSeq(b)
  PROVE  /\ \A i \in DOMAIN a : \E j \in DOMAIN (a \o b) : (a \o b)[j] = a[i]
         /\ \A i \in DOMAIN b : \E j \in DOMAIN (a \o b) : (a \o b)[j] = b[i]
  <1> DEFINE S == {a[i] : i \in DOMAIN a} \cup {b[i] : i \in DOMAIN b}
             c == a \o b
  <1>1. /\ a \in Seq({a[i] : i \in DOMAIN a}) /\ b \in Seq({b[i] : i \in DOMAIN b})
    BY DEF IsSeq
  <1>2. /\ Len(a) \in Nat /\ DOMAIN a = 1..Len(a)
        /\ Len(b) \in Nat /\ DOMAIN b = 1..Len(b)
    BY IsSeqFacts
  <1>3. a \in Seq(S) /\ b \in Seq(S)
    BY <1>1
  <1> HIDE DEF S
  <1>4. \A i \in 1..(Len(a) + Len(b)) :
          c[i] = IF i <= Len(a) THEN a[i] ELSE b[i - Len(a)]
    BY <1>3
  <1>5. DOMAIN c = 1..(Len(a) + Len(b))
    BY Concatenated
  <1> HIDE DEF c
  <1>6. \A i \in DOMAIN a : i \in DOMAIN c /\ c[i] = a[i]
    BY <1>2, <1>4, <1>5
  <1>7. \A i \in DOMAIN b : Len(a) + i \in DOMAIN c /\ c[Len(a) + i] = b[i]
    <2> SUFFICES ASSUME NEW i \in DOMAIN b
                 PROVE  Len(a) + i \in DOMAIN c /\ c[Len(a) + i] = b[i]
      OBVIOUS
    <2>1. PICK m \in Nat : m = Len(a)
      BY <1>2
    <2>2. PICK n \in Nat : n = Len(b)
      BY <1>2
    <2>3. i \in 1..n
      BY <1>2, <2>2
    <2>4. m + i \in 1..(m + n) /\ ~(m + i <= m) /\ (m + i) - m = i
      BY <2>3
    <2> QED
      BY <1>4, <1>5, <2>1, <2>2, <2>4
  <1> QED
    BY <1>6, <1>7 DEF c

\* A key that the arguments of a command hold is one of those it tries.
LEMMA OfferedIsTried ==
  ASSUME NEW args \in Commands, NEW recipient, recipient.scheme \in Supported,
         Offers(args, recipient)
  PROVE  \E t \in DOMAIN DecryptionKeys(args) :
           LET k == DecryptionKeys(args)[t] IN
           /\ k.scheme = recipient.scheme
           /\ k.scheme = "SC01" =>
                /\ recipient.key \in k.holds
                /\ \E j \in DOMAIN args.provider : k.holds = args.provider[j]
           /\ k.scheme # "SC01" => k.holds = {recipient.key}
  <1> DEFINE provider == [i \in DOMAIN args.provider |-> Key("SC01", args.provider[i])]
             secret   == [i \in DOMAIN args.secret |-> Key("SC05", {args.secret[i]})]
             c        == PasswordCandidates(args.password[1])
             read     == [i \in DOMAIN c |-> Key("SC06", {c[i]})]
             password == IF args.password = <<>> THEN <<>> ELSE read
             front    == provider \o secret
             named    == provider \o secret \o password
             Fits(k) == /\ k.scheme = recipient.scheme
                        /\ k.scheme = "SC01" =>
                             /\ recipient.key \in k.holds
                             /\ \E j \in DOMAIN args.provider :
                                  k.holds = args.provider[j]
                        /\ k.scheme # "SC01" => k.holds = {recipient.key}
  <1>1. /\ Len(args.provider) \in Nat /\ DOMAIN args.provider = 1..Len(args.provider)
        /\ Len(args.secret) \in Nat /\ DOMAIN args.secret = 1..Len(args.secret)
        /\ Len(args.password) \in Nat /\ DOMAIN args.password = 1..Len(args.password)
        /\ Len(args.password) <= 1
    BY CommandsAssumption, IsSeqFacts
  <1>2. \A x : Key("SC05", {x}).scheme = "SC05" /\ Key("SC05", {x}).holds = {x}
            /\ Key("SC06", {x}).scheme = "SC06" /\ Key("SC06", {x}).holds = {x}
            /\ Key("SC01", x).scheme = "SC01" /\ Key("SC01", x).holds = x
    BY DEF Key
  <1>3. IsSeq(provider) /\ IsSeq(secret)
    <2>1. /\ DOMAIN provider = 1..Len(args.provider)
          /\ provider = [i \in 1..Len(args.provider) |-> provider[i]]
          /\ DOMAIN secret = 1..Len(args.secret)
          /\ secret = [i \in 1..Len(args.secret) |-> secret[i]]
      BY <1>1
    <2> HIDE DEF provider, secret
    <2> QED
      BY <1>1, <2>1, IsSeqIntro
  <1>4. \/ c = <<args.password[1]>>
        \/ c = <<Tail(args.password[1]), args.password[1]>>
    BY DEF PasswordCandidates
  <1>5. \E n \in Nat : DOMAIN c = 1..n
    <2> HIDE DEF c
    <2>1. DOMAIN c = 1..1 \/ DOMAIN c = 1..2
      BY <1>4
    <2> QED
      BY <2>1
  <1>6. IsSeq(password)
    <2>1. CASE args.password = <<>>
      <3>1. password = <<>>
        BY <2>1
      <3>2. DOMAIN password = 1..0 /\ password = [i \in 1..0 |-> password[i]]
        BY <3>1
      <3> HIDE DEF password
      <3>3. 0 \in Nat
        OBVIOUS
      <3> QED
        BY <3>2, <3>3, IsSeqIntro
    <2>2. CASE args.password # <<>>
      <3>1. PICK n \in Nat : DOMAIN c = 1..n
        BY <1>5
      <3>2. DOMAIN read = 1..n /\ read = [i \in 1..n |-> read[i]]
        <4> HIDE DEF c
        <4> QED
          BY <3>1
      <3>3. password = read
        BY <2>2
      <3> HIDE DEF read, password
      <3> QED
        BY <3>1, <3>2, <3>3, IsSeqIntro
    <2> QED
      BY <2>1, <2>2
  <1>7. \/ \E i \in DOMAIN provider : Fits(provider[i])
        \/ \E i \in DOMAIN secret : Fits(secret[i])
        \/ \E i \in DOMAIN password : Fits(password[i])
    <2>1. CASE recipient.scheme = "SC01"
      <3>1. PICK j \in DOMAIN args.provider : recipient.key \in args.provider[j]
        BY <2>1 DEF Offers
      <3>2. provider[j] = Key("SC01", args.provider[j]) /\ j \in DOMAIN provider
        OBVIOUS
      <3>3. provider[j].scheme = "SC01" /\ provider[j].holds = args.provider[j]
        BY <1>2, <3>2
      <3> HIDE DEF provider
      <3>4. Fits(provider[j])
        BY <2>1, <3>1, <3>3
      <3> QED
        BY <3>2, <3>4
    <2>2. CASE recipient.scheme = "SC05"
      <3>1. PICK j \in DOMAIN args.secret : recipient.key = args.secret[j]
        BY <2>2 DEF Offers
      <3>2. secret[j] = Key("SC05", {args.secret[j]}) /\ j \in DOMAIN secret
        OBVIOUS
      <3>3. secret[j].scheme = "SC05" /\ secret[j].holds = {recipient.key}
        BY <1>2, <3>1, <3>2
      <3> HIDE DEF secret
      <3>4. Fits(secret[j])
        BY <2>2, <3>3
      <3> QED
        BY <3>2, <3>4
    <2>3. CASE recipient.scheme = "SC06"
      <3>1. PICK j \in DOMAIN args.password :
              \/ args.password[j] = recipient.key
              \/ Len(args.password[j]) > 1 /\ args.password[j][1] # ""
                 /\ Tail(args.password[j]) # <<"">>
                 /\ Tail(args.password[j]) = recipient.key
        BY <2>3 DEF Offers
      <3>2. j = 1 /\ args.password # <<>>
        <4>1. j = 1
          BY <1>1
        <4>2. args.password # <<>>
          BY <1>1
        <4> QED
          BY <4>1, <4>2
      <3>3. \E i \in DOMAIN c : c[i] = recipient.key
        <4>1. CASE args.password[1] = recipient.key
          <5>1. CASE c = <<args.password[1]>>
            <6> HIDE DEF c
            <6>1. 1 \in DOMAIN c /\ c[1] = args.password[1]
              BY <5>1
            <6> QED
              BY <4>1, <6>1
          <5>2. CASE c = <<Tail(args.password[1]), args.password[1]>>
            <6> HIDE DEF c
            <6>1. 2 \in DOMAIN c /\ c[2] = args.password[1]
              BY <5>2
            <6> QED
              BY <4>1, <6>1
          <5> QED
            BY <1>4, <5>1, <5>2
        <4>2. CASE /\ Len(args.password[1]) > 1 /\ args.password[1][1] # ""
                   /\ Tail(args.password[1]) # <<"">>
                   /\ Tail(args.password[1]) = recipient.key
          <5>1. c = <<Tail(args.password[1]), args.password[1]>>
            BY <4>2 DEF PasswordCandidates
          <5> HIDE DEF c
          <5>2. 1 \in DOMAIN c /\ c[1] = Tail(args.password[1])
            BY <5>1
          <5> QED
            BY <4>2, <5>2
        <4> QED
          BY <3>1, <3>2, <4>1, <4>2
      <3> HIDE DEF c
      <3>4. PICK i \in DOMAIN c : c[i] = recipient.key
        BY <3>3
      <3>5. password = read /\ read[i] = Key("SC06", {recipient.key}) /\ i \in DOMAIN read
        BY <3>2, <3>4
      <3> HIDE DEF password, read
      <3>6. password[i].scheme = "SC06" /\ password[i].holds = {recipient.key}
        BY <1>2, <3>5
      <3>7. Fits(password[i])
        BY <2>3, <3>6
      <3> QED
        BY <3>5, <3>7
    <2> QED
      BY <2>1, <2>2, <2>3 DEF Supported
  <1> HIDE DEF provider, secret, password, Fits
  <1>8. IsSeq(front)
    BY <1>3, Concatenated
  <1>9. \E t \in DOMAIN named : Fits(named[t])
    <2>1. named = front \o password
      OBVIOUS
    <2>2. /\ \A i \in DOMAIN provider : \E j \in DOMAIN front : front[j] = provider[i]
          /\ \A i \in DOMAIN secret : \E j \in DOMAIN front : front[j] = secret[i]
      BY <1>3, ConcatenationHas
    <2> HIDE DEF front
    <2>3. /\ \A i \in DOMAIN front : \E j \in DOMAIN (front \o password) :
                (front \o password)[j] = front[i]
          /\ \A i \in DOMAIN password : \E j \in DOMAIN (front \o password) :
                (front \o password)[j] = password[i]
      BY <1>6, <1>8, ConcatenationHas
    <2>4. /\ \A i \in DOMAIN front : \E j \in DOMAIN named : named[j] = front[i]
          /\ \A i \in DOMAIN password : \E j \in DOMAIN named : named[j] = password[i]
      BY <2>1, <2>3
    <2> HIDE DEF named
    <2> QED
      BY <1>7, <2>2, <2>4
  <1>10. named # <<>>
    <2> HIDE DEF named
    <2> QED
      BY <1>9
  <1>11. DecryptionKeys(args) = named
    BY <1>10 DEF DecryptionKeys, provider, secret, password
  <1> HIDE DEF named
  <1> QED
    BY <1>9, <1>11 DEF Fits

\* What an author makes of a job: records by the job, its method and its FMK.
LEMMA ContainerOfIs ==
  ASSUME NEW s, NEW job, NEW draw
  PROVE  LET Made(i) == IF job.by = "umbrik"
                        THEN BuildRecipientRecord(job.to[i], Fmk(draw), draw + 2 * i)
                        ELSE ForeignRecord(job.to[i], Fmk(draw), draw + 2 * i,
                                           job.quirks[i])
             method == IF job.by = "umbrik" THEN "CHACHA20POLY1305" ELSE job.method
         IN  ContainerOf(s, job, draw) =
               Container([i \in DOMAIN job.to |-> Made(i)], method, Fmk(draw),
                         draw + 1, s)
  BY DEF ContainerOf, Encrypted, ForeignContainer

\* A container made for a job that can be opened opens for some key of the
\* command.
LEMMA CanOpenOpens ==
  ASSUME NEW s \in Slot, NEW job \in Jobs[s], NEW draw \in Nat \ {0},
         EncryptError(job.to) = "none", CanOpen(job),
         cmd \in Commands, limits \in LimitsSet, keys = DecryptionKeys(cmd)
  PROVE  \E t \in DOMAIN keys :
           DecryptErrors(ContainerOf(s, job, draw), keys[t], limits) = {"none"}
  <1> DEFINE Made(i) == IF job.by = "umbrik"
                        THEN BuildRecipientRecord(job.to[i], Fmk(draw), draw + 2 * i)
                        ELSE ForeignRecord(job.to[i], Fmk(draw), draw + 2 * i,
                                           job.quirks[i])
             method == IF job.by = "umbrik" THEN "CHACHA20POLY1305" ELSE job.method
             records == [i \in DOMAIN job.to |-> Made(i)]
             file == ContainerOf(s, job, draw)
             max == limits.max_total_kdf_iterations
  <1>1. file = Container(records, method, Fmk(draw), draw + 1, s)
    BY ContainerOfIs
  <1>2. /\ DOMAIN job.to = 1..Len(job.to) /\ Len(job.to) \in Nat
        /\ \A i \in DOMAIN job.to : job.to[i].scheme \in Supported
        /\ max \in Nat /\ limits.max_recipients \in Nat
    BY JobsAssumption, LimitsAssumption, IsSeqFacts
  <1>3. PICK n \in DOMAIN job.to :
          /\ job.quirks[n] = "none" /\ Offers(cmd, job.to[n])
          /\ \A j \in 1..(n - 1) : Harmless(job, j, n)
    BY DEF CanOpen
  <1>4. PICK t \in DOMAIN keys :
          /\ keys[t].scheme = job.to[n].scheme
          /\ keys[t].scheme = "SC01" =>
               /\ job.to[n].key \in keys[t].holds
               /\ \E j \in DOMAIN cmd.provider : keys[t].holds = cmd.provider[j]
          /\ keys[t].scheme # "SC01" => keys[t].holds = {job.to[n].key}
    <2> HIDE DEF Made, method, records, file, max
    <2>1. /\ cmd \in Commands /\ job.to[n].scheme \in Supported
          /\ Offers(cmd, job.to[n])
      BY <1>2, <1>3
    <2>2. \E t \in DOMAIN DecryptionKeys(cmd) :
            /\ DecryptionKeys(cmd)[t].scheme = job.to[n].scheme
            /\ DecryptionKeys(cmd)[t].scheme = "SC01" =>
                 /\ job.to[n].key \in DecryptionKeys(cmd)[t].holds
                 /\ \E j \in DOMAIN cmd.provider :
                      DecryptionKeys(cmd)[t].holds = cmd.provider[j]
            /\ DecryptionKeys(cmd)[t].scheme # "SC01" =>
                 DecryptionKeys(cmd)[t].holds = {job.to[n].key}
      BY <2>1, OfferedIsTried, Zenon
    <2> QED
      BY <2>2
  <1> DEFINE k == keys[t]
  <1>5. records # <<>> /\ method = "CHACHA20POLY1305"
    <2>1. job.to # <<>>
      BY DEF EncryptError
    <2>2. DOMAIN records = DOMAIN job.to
      OBVIOUS
    <2> HIDE DEF records
    <2>3. records # <<>>
      BY <1>3, <2>2
    <2> QED
      BY <2>3 DEF CanOpen
  <1>6. /\ IsSeq(records) /\ DOMAIN records = DOMAIN job.to /\ Len(records) = Len(job.to)
    <2>1. /\ DOMAIN records = 1..Len(job.to)
          /\ records = [i \in 1..Len(job.to) |-> records[i]]
      BY <1>2
    <2> HIDE DEF records
    <2>2. IsSeq(records)
      BY <1>2, <2>1, IsSeqIntro
    <2> QED
      BY <1>2, <2>1, <2>2, IsSeqFacts
  <1>7. \A i \in DOMAIN job.to : records[i] = Made(i)
    OBVIOUS
  <1>8. /\ ParseError(file) = "none" /\ DecodeErrors(file) = {"none"}
        /\ \A x : Verify(file, x) <=> x = Fmk(draw)
        /\ PayloadError(file, Fmk(draw)) = "none"
        /\ file.header.recipients = records
    <2> HIDE DEF Made, records, method, file
    <2>1. /\ file = Container(records, "CHACHA20POLY1305", Fmk(draw), draw + 1, s)
          /\ records # <<>>
      BY <1>1, <1>5
    <2> QED
      BY <2>1, SealedFile
  <1>9. n \in 1..Len(job.to) /\ n \in Nat \ {0}
    BY <1>2
  <1>10. ASSUME NEW j \in 1..n, Candidate(records[j], k)
         PROVE  GoodRecord(records[j], job.to[j], Fmk(draw))
    <2>1. j \in DOMAIN job.to /\ draw + 2 * j \in Nat \ {0} /\ records[j] = Made(j)
      <3>1. j \in 1..Len(job.to) /\ j \in Nat
        BY <1>2, <1>9
      <3>2. draw + 2 * j \in Nat \ {0}
        BY <3>1
      <3> QED
        BY <1>2, <3>1, <3>2
    <2> HIDE DEF records
    <2>2. CASE job.by = "umbrik"
      BY <1>2, <2>1, <2>2, FreshRecordGood
    <2>3. CASE job.by # "umbrik"
      <3>1. records[j] = ForeignRecord(job.to[j], Fmk(draw), draw + 2 * j, job.quirks[j])
        BY <2>1, <2>3
      <3>2. /\ k.scheme \in Supported /\ job.to[j].scheme \in Supported
        BY <1>2, <1>4, <2>1
      <3>3. job.quirks[j] \in {"none"} \cup Foreign
        <4>1. CASE j = n
          BY <1>3, <4>1
        <4>2. CASE j # n
          <5>1. Harmless(job, j, n)
            <6>1. j \in 1..(n - 1)
              BY <1>9, <4>2
            <6> QED
              BY <1>3, <6>1
          <5>2. AuthorRecord(records[j], job.to[j], Fmk(draw))
            BY <3>1, <3>2, AuthorRecords
          <5>3. records[j].capsule.scheme = k.scheme
            BY <1>10 DEF Candidate
          <5>4. job.quirks[j] \notin {"none"} \cup Foreign =>
                  /\ records[j].capsule.scheme = job.to[j].scheme
                  /\ job.to[j].scheme = "SC01" =>
                       records[j].capsule.recipient_public_key = job.to[j].key
            BY <3>1, <3>2, ForeignKeepsAddress
          <5>5. CASE job.to[j].scheme # job.to[n].scheme
            BY <1>4, <5>3, <5>4, <5>5
          <5>6. CASE job.to[n].scheme = "SC01" /\ ~Offers(cmd, job.to[j])
            <6>1. k.scheme = "SC01"
              BY <1>4, <5>6
            <6>2. \E l \in k.holds : l = records[j].capsule.recipient_public_key
              BY <1>10, <6>1 DEF Candidate, Matches
            <6>3. PICK i \in DOMAIN cmd.provider : k.holds = cmd.provider[i]
              BY <1>4, <6>1
            <6> SUFFICES ASSUME job.quirks[j] \notin {"none"} \cup Foreign
                         PROVE  FALSE
              OBVIOUS
            <6>4. job.to[j].scheme = "SC01" /\ job.to[j].key \in cmd.provider[i]
              BY <5>3, <5>4, <6>1, <6>2, <6>3
            <6> QED
              BY <5>6, <6>4 DEF Offers
          <5> QED
            BY <5>1, <5>5, <5>6 DEF Harmless
        <4> QED
          BY <4>1, <4>2
      <3> QED
        BY <1>10, <2>1, <3>1, <3>2, <3>3, ForeignRecordGood
    <2> QED
      BY <2>2, <2>3
  <1> HIDE DEF records, method, file, k
  <1>11. ASSUME NEW j \in 1..n, Candidate(records[j], k)
         PROVE  /\ KdfCost(records[j], k) <= max - Spent(file, k, j)
                /\ max - Spent(file, k, j) \in Int
    <2>1. \A i \in 1..j : Cost(file, k, i) \in Nat /\ Cost(file, k, i) <= ITERATIONS
      <3> SUFFICES ASSUME NEW i \in 1..j
                   PROVE  Cost(file, k, i) \in {0, ITERATIONS}
        BY IterationsAssumption
      <3>1. i \in 1..n
        BY <1>9
      <3>2. CASE ~Candidate(records[i], k)
        BY <1>8, <3>2 DEF Cost
      <3>3. CASE Candidate(records[i], k)
        <4>1. GoodRecord(records[i], job.to[i], Fmk(draw))
          BY <1>10, <3>1, <3>3
        <4>2. k.scheme = job.to[i].scheme
          BY <3>3, <4>1 DEF Candidate, GoodRecord, AddressedTo
        <4> QED
          BY <1>8, <3>3, <4>1, <4>2 DEF Cost, KdfCost, GoodRecord
      <3> QED
        BY <3>2, <3>3
    <2>2. j \in DOMAIN file.header.recipients /\ j \in Nat /\ j <= Len(job.to)
      BY <1>2, <1>6, <1>8, <1>9
    <2>3. /\ Spent(file, k, j) \in Nat
          /\ Spent(file, k, j) + Cost(file, k, j) <= j * ITERATIONS
      BY <1>6, <1>8, <2>1, <2>2, SpentBound, IterationsAssumption
    <2>4. j * ITERATIONS <= Len(job.to) * ITERATIONS
      BY <1>2, <2>2, ProductsOrdered, IterationsAssumption
    <2>5. Len(job.to) * ITERATIONS <= max
      BY DEF CanOpen, max
    <2>6. Cost(file, k, j) = KdfCost(records[j], k)
      BY <1>8, <1>11 DEF Cost
    <2>7. Cost(file, k, j) \in Nat
      BY <1>9, <2>1
    <2>8. j * ITERATIONS \in Nat /\ Len(job.to) * ITERATIONS \in Nat
      <3>1. \A x, y \in Nat : x * y \in Nat
        OBVIOUS
      <3>2. j \in Nat /\ Len(job.to) \in Nat /\ ITERATIONS \in Nat
        BY <1>2, <2>2, IterationsAssumption
      <3> HIDE DEF max
      <3> QED
        BY <3>1, <3>2, Zenon
    <2>9. \A x, y, p, q, m \in Nat : x + y <= p /\ p <= q /\ q <= m
                                       => y <= m - x /\ m - x \in Int
      OBVIOUS
    <2> HIDE DEF max
    <2>10. Cost(file, k, j) <= max - Spent(file, k, j) /\ max - Spent(file, k, j) \in Int
      BY <1>2, <2>3, <2>4, <2>5, <2>7, <2>8, <2>9
    <2> QED
      BY <2>6, <2>10
  <1>12. Candidate(records[n], k)
    <2>1. job.quirks[n] = "none"
      BY <1>3
    <2>2. draw + 2 * n \in Nat \ {0}
      BY <1>9
    <2>3. records[n] = BuildRecipientRecord(job.to[n], Fmk(draw), draw + 2 * n)
      <3>1. records[n] = Made(n)
        BY <1>7
      <3>2. job.by # "umbrik" =>
              ForeignRecord(job.to[n], Fmk(draw), draw + 2 * n, "none")
                = BuildRecipientRecord(job.to[n], Fmk(draw), draw + 2 * n)
        BY DEF ForeignRecord, QuirkyCapsule, Unsupported, BuildRecipientRecord
      <3> QED
        BY <2>1, <3>1, <3>2
    <2>4. GoodRecord(records[n], job.to[n], Fmk(draw))
      BY <1>2, <2>2, <2>3, FreshRecordGood
    <2> QED
      BY <1>4, <2>4 DEF GoodRecord, AddressedTo, Candidate, Matches, k
  <1>13. k.scheme = "SC05" => ~(k.holds \subseteq ShortSecret)
    <2> SUFFICES ASSUME k.scheme = "SC05" PROVE job.to[n].key \notin ShortSecret
      BY <1>4 DEF k
    <2>1. ~CannotAddress(job.to[n])
      BY DEF EncryptError
    <2> QED
      BY <1>4, <2>1 DEF CannotAddress, k
  <1>14. k.scheme = "SC01" \/ k.holds = {job.to[n].key}
    BY <1>4 DEF k
  <1>15. Len(records) <= limits.max_recipients
    BY <1>6 DEF CanOpen
  <1>16. \E i \in 1..n : /\ OpenHeader(file, k, limits) = [error |-> "none", index |-> i]
                         /\ Verify(file, OpenedFmk(file, k, i))
    BY <1>2, <1>6, <1>8, <1>10, <1>11, <1>12, <1>13, <1>14, <1>15, OpensFor
  <1>17. DecryptErrors(file, k, limits) = {"none"}
    BY <1>8, <1>16, OpensWhole
  <1> QED
    BY <1>17 DEF k, file

\* No recipient is refused (open_header, try_keys): from the reasons of the keys
\* that failed, and what opening comes to with the recipient's.
LEMMA RecipientOpens ==
  ASSUME IndInv
  PROVE  RecipientCanOpen
  <1>0. (pc = "stopped" /\ ~mishap) => Undecodable(cmd)
    BY DEF IndInv, TurnedAway
  <1> SUFFICES ASSUME pc = "refused", ~mishap, NEW s \in Slot, made[s] # <<>>,
                      container = made[s][1], CanOpen(made[s][2])
               PROVE  FALSE
    BY <1>0 DEF RecipientCanOpen
  <1>1. /\ cmd \in Commands /\ limits \in LimitsSet /\ keys = DecryptionKeys(cmd)
        /\ turn = Len(keys) + 1 /\ KeysOK(keys, cmd)
    BY DEF IndInv, Position
  <1>2. DOMAIN keys = 1..Len(keys) /\ Len(keys) \in Nat
    BY <1>1, IsSeqFacts DEF KeysOK
  <1>3. PICK draw \in 1..rng :
          made[s] = <<ContainerOf(s, made[s][2], draw), made[s][2]>>
    BY DEF IndInv, Provenance, MadeOK
  <1>4. /\ made[s][2] \in Jobs[s] /\ EncryptError(made[s][2].to) = "none"
        /\ draw \in Nat \ {0}
    BY DEF IndInv, Provenance, MadeOK, TypeOK
  <1>5. container = ContainerOf(s, made[s][2], draw)
    BY <1>3
  <1>6. PICK t \in DOMAIN keys : DecryptErrors(container, keys[t], limits) = {"none"}
    <2> DEFINE job == made[s][2]
    <2>1. /\ job \in Jobs[s] /\ EncryptError(job.to) = "none" /\ draw \in Nat \ {0}
          /\ CanOpen(job) /\ cmd \in Commands /\ limits \in LimitsSet
          /\ keys = DecryptionKeys(cmd) /\ KeysOK(keys, cmd)
          /\ container = ContainerOf(s, job, draw)
      BY <1>1, <1>4, <1>5
    <2> HIDE DEF job
    <2>2. \E t \in DOMAIN keys :
            DecryptErrors(ContainerOf(s, job, draw), keys[t], limits) = {"none"}
      BY ONLY <2>1, s \in Slot, CanOpenOpens
    <2> QED
      BY <2>1, <2>2
  <1>7. t \in 1..(turn - 1) /\ turn > 1
    BY <1>1, <1>2
  <1> QED
    BY <1>6, <1>7 DEF IndInv, Refusals

\* A container that a key offered can open is never refused: wherever the record
\* is in the list, whatever other records, keys and readings of the password are
\* tried before it, for any number of them (open_header, try_keys). And a command
\* that nothing went wrong for is turned away before it looks at the container
\* only because of a secret that decode_secret does not take.
THEOREM RecipientNotRefused == Spec => []RecipientCanOpen
  <1>1. IndInv => RecipientCanOpen
    BY RecipientOpens
  <1> QED
    BY <1>1, Invariance, PTL

LEMMA ScanIsOpening ==
  ASSUME IndInv
  PROVE  ScanAgrees
  <1> USE DEF IndInv
  <1>1. ASSUME pc = "payload", ~mishap
        PROVE  OpenHeader(container, key, limits) = [error |-> "none", index |-> index]
    <2>1. /\ IsSeq(container.header.recipients) /\ limits.max_recipients \in Nat
      BY <1>1, ScannedFile
    <2>2. index \in DOMAIN container.header.recipients
      BY <1>1 DEF Position
    <2>3. /\ Len(container.header.recipients) <= limits.max_recipients
          /\ \A j \in 1..(index - 1) :
               RecordOutcome(container, key, limits, j) \in GoesOn
          /\ RecordOutcome(container, key, limits, index) = "opens"
      BY <1>1 DEF ScanSoFar, GoesOn
    <2>4. RecordOutcome(container, key, limits, index) \notin GoesOn
      BY <2>3 DEF GoesOn
    <2> QED
      BY <2>1, <2>2, <2>3, <2>4, FirstDecides
  <1>2. ASSUME pc = "refused", ~mishap
        PROVE  first_error \in DecryptErrors(container, keys[1], limits)
    <2>1. turn = Len(keys) + 1 /\ KeysOK(keys, cmd)
      BY <1>2 DEF Position
    <2>2. Len(keys) \in Nat /\ Len(keys) > 0
      <3>1. keys \in Seq({keys[i] : i \in DOMAIN keys}) /\ keys # <<>>
        BY <2>1 DEF KeysOK, IsSeq
      <3> QED
        BY <3>1
    <2>3. turn > 1
      BY <2>1, <2>2
    <2> QED
      BY <1>2, <2>3 DEF Refusals
  <1> QED
    BY <1>1, <1>2 DEF ScanAgrees

\* The scan, record by record with its budget and flags, comes to what the
\* records say as a whole, and the command's error is that of its first key
\* (open_header, try_keys).
THEOREM ScanIsFaithful == Spec => []ScanAgrees
  <1>1. IndInv => ScanAgrees
    BY ScanIsOpening
  <1> QED
    BY <1>1, Invariance, PTL
=============================================================================
