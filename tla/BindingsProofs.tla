--------------------------- MODULE BindingsProofs ----------------------------
(* Theorems about Bindings, for any number of threads and any containers,    *)
(* dictionaries, limits and arguments.                                       *)
EXTENDS Bindings, ContainerProofs, FiniteSetTheorems

-----------------------------------------------------------------------------
(* What encrypt makes.                                                     *)

\* A function of a sequence's places is a sequence.
LEMMA OverPlaces ==
  ASSUME NEW s, IsSeq(s), NEW q, q = [i \in DOMAIN s |-> q[i]]
  PROVE  IsSeq(q) /\ DOMAIN q = DOMAIN s /\ Len(q) = Len(s)
  <1>1. Len(s) \in Nat /\ DOMAIN s = 1..Len(s)
    BY IsSeqFacts
  <1>2. DOMAIN q = 1..Len(s) /\ q = [i \in 1..Len(s) |-> q[i]]
    BY <1>1
  <1>3. IsSeq(q)
    BY <1>1, <1>2, IsSeqIntro
  <1> QED
    BY <1>1, <1>2, <1>3, IsSeqFacts

\* The recipients of a call: every scheme is supported, and a password is first.
LEMMA RecipientsAre ==
  ASSUME NEW a \in EncryptArgs
  PROVE  /\ IsSeq(Recipients(a))
         /\ \A i \in DOMAIN Recipients(a) :
              /\ Recipients(a)[i].scheme \in Supported
              /\ Recipients(a)[i].scheme = "SC06" => i = 1
  <1> DEFINE p == [i \in DOMAIN a.password |->
                     To("SC06", Password(a.password[i].label), a.password[i].value)]
             s == [i \in DOMAIN a.secret |->
                     To("SC05", Secret(a.secret[i].label), a.secret[i].value)]
             c == [i \in DOMAIN a.certificate |->
                     To("SC01", Certificate(a.certificate[i].common_name, Word("sha1"), <<>>),
                        a.certificate[i].spki)]
             f == p \o s
             r == f \o c
  <1>1. /\ IsSeq(a.password) /\ IsSeq(a.secret) /\ IsSeq(a.certificate)
        /\ Len(a.password) <= 1
    BY EncryptArgsAssumption
  <1>2. /\ p = [i \in DOMAIN a.password |-> p[i]] /\ s = [i \in DOMAIN a.secret |-> s[i]]
        /\ c = [i \in DOMAIN a.certificate |-> c[i]]
        /\ \A i \in DOMAIN p : p[i].scheme = "SC06"
        /\ \A i \in DOMAIN s : s[i].scheme = "SC05"
        /\ \A i \in DOMAIN c : c[i].scheme = "SC01"
    BY DEF To
  <1>3. Recipients(a) = r
    BY DEF Recipients
  <1> HIDE DEF p, s, c
  <1>4. IsSeq(p) /\ IsSeq(s) /\ IsSeq(c) /\ Len(p) <= 1
    BY <1>1, <1>2, OverPlaces
  <1>5. \A i \in DOMAIN p : i = 1
    BY <1>4, IsSeqFacts
  <1>6. /\ IsSeq(f)
        /\ \A i \in DOMAIN f : f[i].scheme \in Supported /\ (f[i].scheme = "SC06" => i = 1)
    <2>1. /\ IsSeq(f)
          /\ \A i \in DOMAIN f : \/ i \in DOMAIN p /\ f[i] = p[i]
                                 \/ i - Len(p) \in DOMAIN s /\ f[i] = s[i - Len(p)]
      BY <1>4, Concatenated
    <2> HIDE DEF f
    <2>2. ASSUME NEW i \in DOMAIN f
          PROVE  f[i].scheme \in Supported /\ (f[i].scheme = "SC06" => i = 1)
      <3>1. CASE i \in DOMAIN p /\ f[i] = p[i]
        BY <1>2, <1>5, <3>1 DEF Supported
      <3>2. CASE i - Len(p) \in DOMAIN s /\ f[i] = s[i - Len(p)]
        <4>1. f[i].scheme = "SC05"
          BY <1>2, <3>2
        <4> QED
          BY <4>1 DEF Supported
      <3> QED
        BY <2>1, <3>1, <3>2
    <2> QED
      BY <2>1, <2>2
  <1> HIDE DEF f
  <1>7. /\ IsSeq(r)
        /\ \A i \in DOMAIN r : r[i].scheme \in Supported /\ (r[i].scheme = "SC06" => i = 1)
    <2>1. /\ IsSeq(r)
          /\ \A i \in DOMAIN r : \/ i \in DOMAIN f /\ r[i] = f[i]
                                 \/ i - Len(f) \in DOMAIN c /\ r[i] = c[i - Len(f)]
      BY <1>4, <1>6, Concatenated
    <2> HIDE DEF r
    <2>2. ASSUME NEW i \in DOMAIN r
          PROVE  r[i].scheme \in Supported /\ (r[i].scheme = "SC06" => i = 1)
      <3>1. CASE i \in DOMAIN f /\ r[i] = f[i]
        BY <1>6, <3>1
      <3>2. CASE i - Len(f) \in DOMAIN c /\ r[i] = c[i - Len(f)]
        <4>1. r[i].scheme = "SC01"
          BY <1>2, <3>2
        <4> QED
          BY <4>1 DEF Supported
      <3> QED
        BY <2>1, <3>1, <3>2
    <2> QED
      BY <2>1, <2>2
  <1> HIDE DEF r
  <1> QED
    BY <1>3, <1>7

\* pack: an entry per file.
LEMMA PackedIs ==
  ASSUME NEW payload \in Dicts
  PROVE  /\ IsSeq(Packed(payload).archive) /\ DOMAIN Packed(payload).archive = DOMAIN payload
         /\ Len(Packed(payload).archive) = Len(payload)
         /\ Packed(payload).compressed \in Nat
         /\ \A i \in DOMAIN payload :
              /\ Packed(payload).archive[i].type = "file"
              /\ Packed(payload).archive[i].name = payload[i].name
              /\ Packed(payload).archive[i].data = payload[i].data
              /\ Packed(payload).archive[i].size \in Nat
  <1> DEFINE ar == [i \in DOMAIN payload |->
                      [type |-> "file", name |-> payload[i].name,
                       size |-> payload[i].data.size, data |-> payload[i].data]]
             z == [i \in DOMAIN payload |-> payload[i].data.zipped]
             n == Len(payload)
  <1>1. /\ IsSeq(payload) /\ n \in Nat /\ DOMAIN payload = 1..n
        /\ \A i \in 1..n : payload[i].data.size \in Nat /\ payload[i].data.zipped \in Nat
    BY DictsAssumption, IsSeqFacts
  <1>2. Packed(payload).archive = ar /\ Packed(payload).compressed = Total(z, n)
    BY DEF Packed
  <1>3. /\ ar = [i \in DOMAIN payload |-> ar[i]]
        /\ \A i \in DOMAIN payload : /\ ar[i].type = "file" /\ ar[i].name = payload[i].name
                                     /\ ar[i].data = payload[i].data /\ ar[i].size \in Nat
    BY <1>1
  <1>4. \A i \in 1..n : z[i] \in Nat
    BY <1>1
  <1> HIDE DEF ar, z, n
  <1>5. IsSeq(ar) /\ DOMAIN ar = DOMAIN payload /\ Len(ar) = Len(payload)
    BY <1>1, <1>3, OverPlaces
  <1>6. Total(z, n) \in Nat
    <2>1. 0 \in 0..n
      BY <1>1
    <2> QED
      BY <1>1, <1>4, <2>1, TotalMonotone
  <1> QED
    BY <1>2, <1>3, <1>5, <1>6

\* A sequence without its first element.
LEMMA TailIs ==
  ASSUME NEW s, IsSeq(s), s # <<>>
  PROVE  /\ IsSeq(Tail(s))
         /\ \A i \in DOMAIN Tail(s) : i + 1 \in DOMAIN s /\ Tail(s)[i] = s[i + 1]
  <1> DEFINE S == {s[i] : i \in DOMAIN s}
             q == Tail(s)
  <1>1. s \in Seq(S)
    BY DEF IsSeq
  <1>2. Len(s) \in Nat /\ DOMAIN s = 1..Len(s)
    BY IsSeqFacts
  <1> HIDE DEF S
  <1>3. q \in Seq(S) /\ Len(q) = Len(s) - 1
    BY <1>1
  <1>4. \A i \in 1..Len(q) : q[i] = s[i + 1]
    BY <1>1
  <1>5. Len(q) \in Nat /\ DOMAIN q = 1..Len(q) /\ q = [i \in 1..Len(q) |-> q[i]]
    <2> HIDE DEF q
    <2>1. Len(q) \in Nat /\ q \in [1..Len(q) -> S]
      BY <1>3
    <2> QED
      BY <2>1
  <1>6. \A i \in 1..Len(q) : i + 1 \in 1..Len(s)
    BY <1>2, <1>3, <1>5
  <1> HIDE DEF q
  <1>7. IsSeq(q)
    BY <1>5, IsSeqIntro
  <1>8. \A i \in DOMAIN q : i + 1 \in DOMAIN s /\ q[i] = s[i + 1]
    BY <1>2, <1>4, <1>5, <1>6
  <1> QED
    BY <1>7, <1>8 DEF q

\* What a container of encrypt has in it.
LEMMA EncryptedHas ==
  ASSUME NEW rs, IsSeq(rs), NEW d, NEW msg
  PROVE  LET f == Encrypted(rs, d, msg) IN
         /\ DOMAIN f = {"written", "flaws", "header", "hmac", "nonce", "ciphertext"}
         /\ DOMAIN f.header = {"recipients", "payload_encryption_method"}
         /\ f.ciphertext.msg = msg
         /\ IsSeq(f.header.recipients) /\ DOMAIN f.header.recipients = DOMAIN rs
         /\ Len(f.header.recipients) = Len(rs)
         /\ \A i \in DOMAIN rs : f.header.recipients[i]
              = BuildRecipientRecord(rs[i], Fmk(d), d + 2 * i)
  <1> DEFINE records == [i \in DOMAIN rs |->
                           BuildRecipientRecord(rs[i], Fmk(d), d + 2 * i)]
             f == Encrypted(rs, d, msg)
  <1>1. /\ records = [i \in DOMAIN rs |-> records[i]]
        /\ \A i \in DOMAIN rs : records[i] = BuildRecipientRecord(rs[i], Fmk(d), d + 2 * i)
    OBVIOUS
  <1>2. f = Container(records, "CHACHA20POLY1305", Fmk(d), d + 1, msg)
    BY DEF Encrypted
  <1> HIDE DEF records
  <1>3. IsSeq(records) /\ DOMAIN records = DOMAIN rs /\ Len(records) = Len(rs)
    BY <1>1, OverPlaces
  <1>4. /\ DOMAIN f = {"written", "flaws", "header", "hmac", "nonce", "ciphertext"}
        /\ f.header = [recipients |-> records,
                       payload_encryption_method |-> "CHACHA20POLY1305"]
        /\ f.ciphertext.msg = msg
    BY <1>2 DEF Container
  <1> HIDE DEF f
  <1>5. /\ DOMAIN f.header = {"recipients", "payload_encryption_method"}
        /\ f.header.recipients = records
    BY <1>4
  <1> QED
    BY <1>1, <1>3, <1>4, <1>5 DEF f

\* A container of encrypt is well formed.
LEMMA EncryptedWellFormed ==
  ASSUME NEW a \in EncryptArgs, NEW payload \in Dicts, NEW d
  PROVE  WellFormed(Encrypted(Recipients(a), d, Packed(payload)))
  <1> DEFINE rs == Recipients(a)
             msg == Packed(payload)
             f == Encrypted(rs, d, msg)
  <1>1. IsSeq(rs) /\ \A i \in DOMAIN rs : rs[i].scheme \in Supported
    BY RecipientsAre
  <1>2. /\ IsSeq(msg.archive) /\ msg.compressed \in Nat
        /\ \A i \in DOMAIN msg.archive : msg.archive[i].size \in Nat
    BY PackedIs
  <1> HIDE DEF rs, msg
  <1>3. /\ IsSeq(f.header.recipients) /\ DOMAIN f.header.recipients = DOMAIN rs
        /\ f.ciphertext.msg = msg
        /\ \A i \in DOMAIN rs : f.header.recipients[i]
             = BuildRecipientRecord(rs[i], Fmk(d), d + 2 * i)
    BY <1>1, EncryptedHas
  <1> HIDE DEF f
  <1>4. ASSUME NEW i \in DOMAIN rs, f.header.recipients[i].capsule.scheme = "SC06"
        PROVE  f.header.recipients[i].capsule.kdf_iterations \in Int
    <2> DEFINE c == FreshCapsule(rs[i], d + 2 * i)
    <2>0. f.header.recipients[i] = BuildRecipientRecord(rs[i], Fmk(d), d + 2 * i)
      BY <1>3
    <2>1. f.header.recipients[i].capsule = c
      BY <2>0 DEF BuildRecipientRecord, Record
    <2>2. c.scheme = "SC06" => c.kdf_iterations = ITERATIONS
      BY <1>1 DEF FreshCapsule, Supported
    <2> HIDE DEF c
    <2> QED
      BY <1>4, <2>1, <2>2, IterationsAssumption
  <1>5. WellFormed(f)
    BY <1>2, <1>3, <1>4 DEF WellFormed
  <1> QED
    BY <1>5 DEF f, rs, msg

\* So are the bytes after damage.
LEMMA AlteredWellFormed ==
  ASSUME NEW a \in EncryptArgs, NEW payload \in Dicts, NEW d,
         SealError(Recipients(a), payload) = "none",
         NEW file, file = Encrypted(Recipients(a), d, Packed(payload)),
         NEW f \in Alterations(file)
  PROVE  WellFormed(f)
  <1> DEFINE rs == Recipients(a)
             records == file.header.recipients
  <1>1. IsSeq(rs) /\ rs # <<>>
    <2>1. EncryptError(rs) = "none"
      BY DEF SealError
    <2> QED
      BY <2>1, RecipientsAre DEF EncryptError
  <1>2. WellFormed(file)
    BY EncryptedWellFormed
  <1>3. /\ DOMAIN file = {"written", "flaws", "header", "hmac", "nonce", "ciphertext"}
        /\ DOMAIN file.header = {"recipients", "payload_encryption_method"}
        /\ IsSeq(records) /\ DOMAIN records = DOMAIN rs
        /\ \A i \in DOMAIN rs : records[i]
             = BuildRecipientRecord(rs[i], Fmk(d), d + 2 * i)
    BY <1>1, EncryptedHas
  <1>4. CASE /\ f.header = file.header /\ f.ciphertext = file.ciphertext
    BY <1>2, <1>4 DEF WellFormed
  <1>5. ASSUME NEW q, IsSeq(q),
               \A i \in DOMAIN q : \E j \in DOMAIN records : q[i].capsule = records[j].capsule,
               f = [file EXCEPT !.header = [file.header EXCEPT !.recipients = q]]
        PROVE  WellFormed(f)
    <2>1. f.header.recipients = q /\ f.ciphertext = file.ciphertext
      BY <1>3, <1>5
    <2>2. ASSUME NEW i \in DOMAIN q, q[i].capsule.scheme = "SC06"
          PROVE  q[i].capsule.kdf_iterations \in Int
      BY <1>2, <1>5, <2>2 DEF WellFormed
    <2> QED
      BY <1>2, <1>5, <2>1, <2>2 DEF WellFormed
  <1>6. 1 \in DOMAIN records /\ records # <<>>
    <2>1. Len(rs) \in Nat /\ DOMAIN rs = 1..Len(rs) /\ Len(rs) # 0
      BY <1>1, IsSeqFacts
    <2> QED
      BY <1>3, <2>1
  <1>7. /\ IsSeq(Tail(records))
        /\ \A i \in DOMAIN Tail(records) : \E j \in DOMAIN records :
             Tail(records)[i].capsule = records[j].capsule
    <2>1. \A i \in DOMAIN Tail(records) :
            i + 1 \in DOMAIN records /\ Tail(records)[i] = records[i + 1]
      BY <1>3, <1>6, TailIs
    <2> QED
      BY <1>3, <1>6, <2>1, TailIs
  <1>8. LET q == [records EXCEPT ![1] = [records[1] EXCEPT !.key_label = <<Control>>]]
        IN  /\ IsSeq(q)
            /\ \A i \in DOMAIN q : \E j \in DOMAIN records : q[i].capsule = records[j].capsule
    <2> DEFINE r == [records[1] EXCEPT !.key_label = <<Control>>]
               q == [records EXCEPT ![1] = r]
    <2>1. r.capsule = records[1].capsule
      <3>1. records[1] = BuildRecipientRecord(rs[1], Fmk(d), d + 2 * 1)
        BY <1>3, <1>6
      <3>2. DOMAIN records[1]
              = {"key_label", "encrypted_fmk", "fmk_encryption_method", "capsule"}
        BY <3>1 DEF BuildRecipientRecord, Record
      <3> HIDE DEF records
      <3> QED
        BY <3>2
    <2> HIDE DEF r, records
    <2>2. /\ DOMAIN q = DOMAIN records /\ q[1] = r /\ q = [i \in DOMAIN records |-> q[i]]
          /\ \A i \in DOMAIN records : i # 1 => q[i] = records[i]
      BY <1>6
    <2> HIDE DEF q
    <2>3. IsSeq(q)
      BY <1>3, <2>2, OverPlaces DEF records
    <2>4. \A i \in DOMAIN q : q[i].capsule = records[i].capsule
      BY <2>1, <2>2
    <2> QED
      BY <2>2, <2>3, <2>4 DEF q, r
  <1>9. CASE \E n : f = [file EXCEPT !.written = n]
    <2>1. f.header = file.header /\ f.ciphertext = file.ciphertext
      BY <1>9
    <2> QED
      BY <1>4, <2>1
  <1>10. CASE \E x : f = [file EXCEPT !.flaws = {x}]
    <2>1. f.header = file.header /\ f.ciphertext = file.ciphertext
      BY <1>10
    <2> QED
      BY <1>4, <2>1
  <1>11. CASE f = [file EXCEPT !.nonce = 0]
    <2>1. f.header = file.header /\ f.ciphertext = file.ciphertext
      BY <1>11
    <2> QED
      BY <1>4, <2>1
  <1>12. CASE f = [file EXCEPT !.header = [file.header EXCEPT !.recipients = Tail(records)]]
    BY <1>5, <1>7, <1>12
  <1>13. CASE f = [file EXCEPT !.header = [file.header EXCEPT !.recipients =
                     [records EXCEPT ![1] = [records[1] EXCEPT !.key_label = <<Control>>]]]]
    BY <1>5, <1>8, <1>13
  <1> QED
    BY <1>9, <1>10, <1>11, <1>12, <1>13 DEF Alterations

-----------------------------------------------------------------------------
(* The inductive invariant.                                                *)

\* What holds of a call still does when more has been drawn.
LEMMA DrawnMore ==
  ASSUME NEW c, NEW m \in Nat, NEW n \in Nat, m <= n, CallOK(c, m)
  PROVE  CallOK(c, n)
  <1>1. 1..m \subseteq 1..n
    OBVIOUS
  <1>2. ASSUME NEW h, HeldOK(h, m) PROVE HeldOK(h, n)
    BY <1>1, <1>2 DEF HeldOK
  <1>3. ASSUME NEW g, GivenOK(g, m) PROVE GivenOK(g, n)
    BY <1>2, <1>3 DEF GivenOK
  <1> QED
    BY <1>3 DEF CallOK

\* A call that is refused.
LEMMA RaisedOK ==
  ASSUME NEW op, op # "decrypt", NEW x, NEW n
  PROVE  CallOK([pc |-> "raised", op |-> op, exception |-> x], n)
  BY DEF CallOK, Ended

\* A decrypt call that ends.
LEMMA ResultOK ==
  ASSUME NEW given, NEW n, GivenOK(given, n),
         NEW e \in DecryptErrors(given.held.file, KeyOf(given.args), given.limits)
  PROVE  CallOK(Result(given, given.limits, e), n)
  <1> DEFINE c == Result(given, given.limits, e)
  <1>1. c.given = given /\ c.pc \in {"returned", "raised"}
    BY DEF Result
  <1> HIDE DEF c
  <1>2. c = Result(c.given, c.given.limits, e)
    BY <1>1 DEF c
  <1>3. CallOK(c, n)
    BY <1>1, <1>2 DEF CallOK
  <1> QED
    BY <1>3 DEF c

\* A step of one call.
LEMMA OneCall ==
  ASSUME IndInv, NEW t \in Thread, NEW c, Becomes(t, c),
         draw' \in Nat, draw <= draw', CallOK(c, draw')
  PROVE  DOMAIN call' = Thread /\ \A s \in Thread : CallOK(call'[s], draw')
  <1>1. DOMAIN call' = Thread
    BY DEF IndInv, Becomes
  <1>2. ASSUME NEW s \in Thread PROVE CallOK(call'[s], draw')
    <2>1. CASE s = t
      <3>1. call'[s] = c
        BY <2>1 DEF IndInv, Becomes
      <3> QED
        BY <3>1
    <2>2. CASE s # t
      <3>1. call'[s] = call[s]
        BY <2>2 DEF IndInv, Becomes
      <3> QED
        BY <3>1, DrawnMore DEF IndInv
    <2> QED
      BY <2>1, <2>2
  <1> QED
    BY <1>1, <1>2

\* A call that is over, other than of decrypt, or has yet to be made.
LEMMA OtherOK ==
  ASSUME NEW c, NEW n, c.pc \in {"none", "raised", "returned"},
         c.pc # "none" => c.op # "decrypt"
  PROVE  CallOK(c, n)
  BY DEF CallOK, Ended

\* It holds at first.
LEMMA InitInv == Init => IndInv
  <1> SUFFICES ASSUME Init PROVE IndInv
    OBVIOUS
  <1>1. HeldOK(held, draw)
    <2>1. PICK f \in Elsewhere : held = [file |-> f, by |-> <<>>]
      BY DEF Init
    <2>2. held.file = f /\ held.by = <<>>
      BY <2>1
    <2> QED
      BY <2>2, ElsewhereAssumption DEF HeldOK
  <1>2. DOMAIN call = Thread /\ \A t \in Thread : CallOK(call[t], draw)
    <2>1. DOMAIN call = Thread /\ \A t \in Thread : call[t].pc = "none"
      BY DEF Init
    <2> QED
      BY <2>1, OtherOK
  <1> QED
    BY <1>1, <1>2 DEF Init, IndInv

\* A step of one call that changes nothing that is shared.
LEMMA CallStep ==
  ASSUME IndInv, NEW t \in Thread, NEW c, Becomes(t, c), CallOK(c, draw),
         UNCHANGED <<shared, draw>>
  PROVE  IndInv'
  <1>1. draw' = draw /\ draw \in Nat
    BY DEF IndInv
  <1>2. DOMAIN call' = Thread /\ \A s \in Thread : CallOK(call'[s], draw')
    BY <1>1, OneCall
  <1> QED
    BY <1>2 DEF IndInv, shared

LEMMA EncryptCallStep ==
  ASSUME IndInv, NEW t \in Thread, EncryptCall(t)
  PROVE  IndInv'
  <1>1. UNCHANGED <<shared, draw>>
    BY DEF EncryptCall
  <1>2. PICK a \in EncryptArgs :
          \/ \E x : Raises(t, "encrypt", x)
          \/ Becomes(t, [pc |-> "encrypting", args |-> a, payload |-> files])
    BY DEF EncryptCall
  <1>3. CASE \E x : Raises(t, "encrypt", x)
    <2>1. PICK x : Raises(t, "encrypt", x)
      BY <1>3
    <2>2. CallOK([pc |-> "raised", op |-> "encrypt", exception |-> x], draw)
      BY RaisedOK
    <2> QED
      BY <1>1, <2>1, <2>2, CallStep DEF Raises
  <1>4. CASE Becomes(t, [pc |-> "encrypting", args |-> a, payload |-> files])
    <2>1. CallOK([pc |-> "encrypting", args |-> a, payload |-> files], draw)
      BY DEF CallOK, Ended, IndInv
    <2> QED
      BY <1>1, <1>4, <2>1, CallStep
  <1> QED
    BY <1>2, <1>3, <1>4

\* The bytes that encrypt returns are of what it was called with.
LEMMA EncryptReturnStep ==
  ASSUME IndInv, NEW t \in Thread, EncryptReturn(t)
  PROVE  IndInv'
  <1> DEFINE a == call[t].args
             p == call[t].payload
             rs == Recipients(a)
             f == Encrypted(rs, draw, Packed(p))
  <1>1. /\ call[t].pc = "encrypting" /\ Seal(t, p)
        /\ UNCHANGED <<files, limits, calls, changes>>
    BY DEF EncryptReturn
  <1>2. a \in EncryptArgs /\ p \in Dicts /\ draw \in Nat \ {0}
    BY <1>1 DEF IndInv, CallOK
  <1>3. CASE \E x : Raises(t, "encrypt", x) /\ UNCHANGED <<held, draw>>
    <2>1. PICK x : Raises(t, "encrypt", x) /\ UNCHANGED <<held, draw>>
      BY <1>3
    <2>2. CallOK([pc |-> "raised", op |-> "encrypt", exception |-> x], draw)
      BY RaisedOK
    <2>3. UNCHANGED <<shared, draw>>
      BY <1>1, <2>1 DEF shared
    <2> QED
      BY <2>1, <2>2, <2>3, CallStep DEF Raises
  <1>4. CASE /\ SealError(rs, p) = "none"
             /\ held' = [file |-> f, by |-> <<[args |-> a, payload |-> p]>>]
             /\ draw' = draw + Draws(rs)
             /\ Becomes(t, [pc |-> "returned", op |-> "encrypt"])
    <2>1. Len(rs) \in Nat
      BY <1>2, RecipientsAre, IsSeqFacts
    <2>2. draw' \in Nat \ {0} /\ draw <= draw' /\ draw \in 1..draw'
      <3>1. \A n \in Nat : 2 * n + 2 \in Nat
        OBVIOUS
      <3>2. Draws(rs) \in Nat
        BY <2>1, <3>1 DEF Draws
      <3> HIDE DEF rs
      <3> QED
        BY <1>2, <1>4, <3>2
    <2>3. CallOK([pc |-> "returned", op |-> "encrypt"], draw')
      BY OtherOK
    <2>4. DOMAIN call' = Thread /\ \A s \in Thread : CallOK(call'[s], draw')
      BY <1>4, <2>2, <2>3, OneCall
    <2>5. WellFormed(f)
      BY <1>2, EncryptedWellFormed
    <2>6. HeldOK(held', draw')
      <3> HIDE DEF a, p
      <3>1. /\ held'.file = f /\ held'.by[1].args = a /\ held'.by[1].payload = p
        BY <1>4
      <3> QED
        BY <1>2, <1>4, <2>2, <2>5, <3>1 DEF HeldOK
    <2> QED
      BY <1>1, <2>2, <2>4, <2>6 DEF IndInv
  <1> QED
    BY <1>1, <1>3, <1>4 DEF Seal

\* A decrypt call that ends does so as what it was given decides.
LEMMA DecryptsStep ==
  ASSUME IndInv, NEW t \in Thread, NEW given, GivenOK(given, draw),
         Decrypts(t, given, given.limits), UNCHANGED <<shared, draw>>
  PROVE  IndInv'
  <1>1. PICK e \in DecryptErrors(given.held.file, KeyOf(given.args), given.limits) :
          Becomes(t, Result(given, given.limits, e))
    BY DEF Decrypts
  <1>2. CallOK(Result(given, given.limits, e), draw)
    BY ResultOK
  <1> QED
    BY <1>1, <1>2, CallStep

LEMMA DecryptCallStep ==
  ASSUME IndInv, NEW t \in Thread, DecryptCall(t)
  PROVE  IndInv'
  <1>1. UNCHANGED <<shared, draw>>
    BY DEF DecryptCall
  <1>2. PICK a \in DecryptArgs :
          LET given == [args |-> a, held |-> held,
                        limits |-> IF a.limits THEN ToCore(limits) ELSE DefaultLimits]
          IN  \/ \E x : Raises(t, "key", x)
              \/ Decrypts(t, given, given.limits)
              \/ Becomes(t, [pc |-> "decrypting", given |-> given])
    BY DEF DecryptCall
  <1> DEFINE given == [args |-> a, held |-> held,
                       limits |-> IF a.limits THEN ToCore(limits) ELSE DefaultLimits]
  <1>3. GivenOK(given, draw)
    <2>1. given.held = held
          /\ given.limits \in {DefaultLimits} \cup {ToCore(l) : l \in LimitValues}
      BY DEF IndInv
    <2> HIDE DEF given
    <2> QED
      BY <2>1 DEF GivenOK, IndInv
  <1>4. CASE \E x : Raises(t, "key", x)
    <2>1. PICK x : Raises(t, "key", x)
      BY <1>4
    <2>2. CallOK([pc |-> "raised", op |-> "key", exception |-> x], draw)
      BY RaisedOK
    <2> QED
      BY <1>1, <2>1, <2>2, CallStep DEF Raises
  <1>5. CASE Decrypts(t, given, given.limits)
    <2> HIDE DEF given
    <2> QED
      BY <1>1, <1>3, <1>5, DecryptsStep
  <1>6. CASE Becomes(t, [pc |-> "decrypting", given |-> given])
    <2> HIDE DEF given
    <2>1. CallOK([pc |-> "decrypting", given |-> given], draw)
      BY <1>3 DEF CallOK, Ended
    <2> QED
      BY <1>1, <1>6, <2>1, CallStep
  <1> QED
    BY <1>2, <1>4, <1>5, <1>6

LEMMA DecryptReturnStep ==
  ASSUME IndInv, NEW t \in Thread, DecryptReturn(t)
  PROVE  IndInv'
  <1>1. /\ call[t].pc = "decrypting"
        /\ Decrypts(t, call[t].given, call[t].given.limits)
        /\ UNCHANGED <<shared, draw>>
    BY DEF DecryptReturn
  <1>2. GivenOK(call[t].given, draw)
    BY <1>1 DEF IndInv, CallOK
  <1> QED
    BY <1>1, <1>2, DecryptsStep

LEMMA RecipientsCallStep ==
  ASSUME IndInv, NEW t \in Thread, RecipientsCall(t)
  PROVE  IndInv'
  <1>1. UNCHANGED <<shared, draw>>
    BY DEF RecipientsCall
  <1>2. \/ \E x : Raises(t, "recipients", x)
        \/ \E l : Becomes(t, [pc |-> "returned", op |-> "recipients",
                              held |-> held, list |-> l])
    BY DEF RecipientsCall
  <1>3. CASE \E x : Raises(t, "recipients", x)
    <2>1. PICK x : Raises(t, "recipients", x)
      BY <1>3
    <2>2. CallOK([pc |-> "raised", op |-> "recipients", exception |-> x], draw)
      BY RaisedOK
    <2> QED
      BY <1>1, <2>1, <2>2, CallStep DEF Raises
  <1>4. CASE \E l : Becomes(t, [pc |-> "returned", op |-> "recipients",
                                held |-> held, list |-> l])
    <2>1. PICK l : Becomes(t, [pc |-> "returned", op |-> "recipients",
                               held |-> held, list |-> l])
      BY <1>4
    <2>2. CallOK([pc |-> "returned", op |-> "recipients", held |-> held, list |-> l], draw)
      BY OtherOK
    <2> QED
      BY <1>1, <2>1, <2>2, CallStep
  <1> QED
    BY <1>2, <1>3, <1>4

\* Damaged bytes are no encrypt call's.
LEMMA AlterStep ==
  ASSUME IndInv, Alter
  PROVE  IndInv'
  <1>1. held.by # <<>> /\ UNCHANGED <<files, limits, call, draw, calls>>
    BY DEF Alter
  <1>2. PICK f \in Alterations(held.file) : held' = [file |-> f, by |-> <<>>]
    BY DEF Alter
  <1>3. WellFormed(f)
    <2> DEFINE a == held.by[1].args
               p == held.by[1].payload
    <2>1. /\ a \in EncryptArgs /\ p \in Dicts /\ SealError(Recipients(a), p) = "none"
          /\ \E d \in 1..draw : held.file = Encrypted(Recipients(a), d, Packed(p))
      BY <1>1 DEF IndInv, HeldOK
    <2> QED
      BY <2>1, AlteredWellFormed
  <1>4. HeldOK(held', draw')
    <2>1. held'.file = f /\ held'.by = <<>>
      BY <1>2
    <2> QED
      BY <1>3, <2>1 DEF HeldOK
  <1> QED
    BY <1>1, <1>4 DEF IndInv

\* What the rest of the program does to what it shares disturbs no call.
LEMMA NextInv == IndInv /\ [Next]_vars => IndInv'
  <1> SUFFICES ASSUME IndInv, [Next]_vars PROVE IndInv'
    OBVIOUS
  <1>1. CASE \E t \in Thread : EncryptCall(t)
    BY <1>1, EncryptCallStep
  <1>2. CASE \E t \in Thread : EncryptReturn(t)
    BY <1>2, EncryptReturnStep
  <1>3. CASE \E t \in Thread : DecryptCall(t)
    BY <1>3, DecryptCallStep
  <1>4. CASE \E t \in Thread : DecryptReturn(t)
    BY <1>4, DecryptReturnStep
  <1>5. CASE \E t \in Thread : RecipientsCall(t)
    BY <1>5, RecipientsCallStep
  <1>6. CASE ChangeFiles
    BY <1>6 DEF ChangeFiles, IndInv
  <1>7. CASE ChangeLimits
    BY <1>7 DEF ChangeLimits, IndInv
  <1>8. CASE Alter
    BY <1>8, AlterStep
  <1>9. CASE UNCHANGED vars
    BY <1>9 DEF vars, IndInv
  <1>10. CASE Done
    BY <1>9, <1>10 DEF Done
  <1> QED
    BY <1>1, <1>2, <1>3, <1>4, <1>5, <1>6, <1>7, <1>8, <1>9, <1>10 DEF Next

\* Whatever the threads and the rest of the program do, and in whatever order, a
\* call of the bindings is answered from the copies it made while it held the GIL
\* (lib.rs: to_core before allow_threads, the bytes borrowed from an immutable
\* object), and bytes that encrypt returned are the container of its arguments.
THEOREM Invariance == Spec => []IndInv
  <1>1. Init => IndInv
    BY InitInv
  <1>2. IndInv /\ [Next]_vars => IndInv'
    BY NextInv
  <1> QED
    BY <1>1, <1>2, PTL DEF Spec

-----------------------------------------------------------------------------
(* Limits.                                                                 *)

\* What opening a file asks of a password, record by record.
Asked(file) ==
  [i \in DOMAIN file.header.recipients |->
     IF file.header.recipients[i].capsule.scheme = "SC06"
        /\ file.header.recipients[i].capsule.kdf_iterations > 0
     THEN file.header.recipients[i].capsule.kdf_iterations ELSE 0]

\* No record costs a key more than it asks of a password.
LEMMA CostsWhatIsAsked ==
  ASSUME NEW file, WellFormed(file), NEW key, NEW i \in DOMAIN file.header.recipients
  PROVE  /\ Cost(file, key, i) \in Int /\ Spent(file, key, i) \in Int
         /\ Asked(file)[i] \in Nat /\ Cost(file, key, i) <= Asked(file)[i]
         /\ Candidate(file.header.recipients[i], key) /\ key.scheme = "SC06"
              /\ file.header.recipients[i].capsule.kdf_iterations > 0
              => Asked(file)[i] = file.header.recipients[i].capsule.kdf_iterations
  <1> DEFINE r == file.header.recipients[i]
             n == r.capsule.kdf_iterations
  <1>1. r.capsule.scheme = "SC06" => n \in Int
    BY DEF WellFormed
  <1>2. IsSeq(file.header.recipients)
        /\ \A j \in DOMAIN file.header.recipients :
             file.header.recipients[j].capsule.scheme = "SC06" =>
               file.header.recipients[j].capsule.kdf_iterations \in Int
    BY DEF WellFormed
  <1>3. Cost(file, key, i) \in Int /\ Spent(file, key, i) \in Int
    BY <1>2, CostsAreInts
  <1>4. Asked(file)[i] = IF r.capsule.scheme = "SC06" /\ n > 0 THEN n ELSE 0
    BY DEF Asked
  <1>5. Candidate(r, key) => r.capsule.scheme = key.scheme
    BY DEF Candidate
  <1>6. Cost(file, key, i) = IF Candidate(r, key) /\ key.scheme = "SC06" THEN n ELSE 0
    BY DEF Cost, KdfCost
  <1> HIDE DEF n, r
  <1>7. Asked(file)[i] \in Nat
    BY <1>1, <1>4
  <1>8. Cost(file, key, i) <= Asked(file)[i]
    <2>1. CASE r.capsule.scheme = "SC06"
      BY <1>1, <1>4, <1>6, <2>1
    <2>2. CASE r.capsule.scheme # "SC06"
      BY <1>4, <1>5, <1>6, <2>2
    <2> QED
      BY <2>1, <2>2
  <1> QED
    BY <1>3, <1>4, <1>5, <1>7, <1>8 DEF n, r

\* The iterations spent before a record, and those it asks for, come out of what
\* the whole header asks for.
LEMMA SpentWithinAsked ==
  ASSUME NEW file, WellFormed(file), NEW key, NEW i \in DOMAIN file.header.recipients
  PROVE  /\ Spent(file, key, i) \in Int
         /\ Total(Asked(file), Len(file.header.recipients)) \in Nat
         /\ Spent(file, key, i) <= Total(Asked(file), Len(file.header.recipients))
         /\ Spent(file, key, i) + Asked(file)[i]
              <= Total(Asked(file), Len(file.header.recipients))
  <1> DEFINE n == Len(file.header.recipients)
             g == [j \in DOMAIN file.header.recipients |->
                     IF Candidate(file.header.recipients[j], key)
                     THEN KdfCost(file.header.recipients[j], key) ELSE 0]
             a == Asked(file)
  <1>1. n \in Nat /\ DOMAIN file.header.recipients = 1..n
    BY IsSeqFacts DEF WellFormed
  <1>2. i \in 1..n /\ i \in Nat /\ i - 1 \in Nat /\ i - 1 \in 0..n /\ (i - 1) + 1 = i
        /\ i \in 0..n /\ 1..(i - 1) \subseteq 1..n
    BY <1>1
  <1>3. Spent(file, key, i) = Total(g, i - 1)
    BY DEF Spent
  <1>4. \A j \in 1..n : g[j] = Cost(file, key, j)
    BY <1>1 DEF Cost
  <1>5. \A j \in 1..n : Cost(file, key, j) \in Int /\ a[j] \in Nat
                        /\ Cost(file, key, j) <= a[j]
    BY <1>1, CostsWhatIsAsked
  <1>6. Spent(file, key, i) \in Int
    BY CostsWhatIsAsked
  <1> HIDE DEF n, g, a
  <1>7. \A j \in 1..(i - 1) : g[j] \in Int /\ a[j] \in Int /\ g[j] <= a[j]
    BY <1>2, <1>4, <1>5
  <1>8. Total(g, i - 1) <= Total(a, i - 1)
    BY <1>2, <1>7, TotalPointwise
  <1>9. Total(a, i) = Total(a, i - 1) + a[i]
    BY <1>2, TotalNext
  <1>10. Total(a, i - 1) \in Nat /\ Total(a, n) \in Nat /\ Total(a, i) \in Nat
         /\ Total(a, i - 1) <= Total(a, n) /\ Total(a, i) <= Total(a, n)
    BY <1>1, <1>2, <1>5, TotalMonotone
  <1>11. Spent(file, key, i) + a[i] <= Total(a, n) /\ Spent(file, key, i) <= Total(a, n)
    <2>1. \A s \in Int, x, y, z, w \in Nat :
            s <= x /\ y = x + w /\ y <= z => s + w <= z /\ s <= z
      OBVIOUS
    <2>2. a[i] \in Nat
      BY <1>2, <1>5
    <2> QED
      BY <1>3, <1>6, <1>8, <1>9, <1>10, <2>1, <2>2
  <1> QED
    BY <1>6, <1>10, <1>11 DEF n, a

\* Opening blames a limit only if the header exceeds one.
LEMMA OpeningLimit ==
  ASSUME NEW file, WellFormed(file), NEW key, key.scheme \in Supported, NEW lim,
         lim.max_recipients \in Nat, lim.max_total_kdf_iterations \in Nat,
         WithinOpening(file, lim)
  PROVE  OpenHeader(file, key, lim).error # "LimitExceeded"
  <1> DEFINE records == file.header.recipients
             Out(j) == RecordOutcome(file, key, lim, j)
             stops == {j \in DOMAIN records : Out(j) \notin GoesOn}
             max == lim.max_total_kdf_iterations
  <1>1. IsSeq(records) /\ Len(records) \in Nat /\ DOMAIN records = 1..Len(records)
    BY IsSeqFacts DEF WellFormed
  <1>2. /\ Len(records) <= lim.max_recipients
        /\ Total(Asked(file), Len(records)) <= max
        /\ \A j \in DOMAIN records : Asked(file)[j] <= MAX_ITERATIONS
    BY DEF WithinOpening, Asked
  <1>3. CASE stops = {}
    <2>1. \A j \in DOMAIN records : Out(j) \in GoesOn
      BY <1>3
    <2>2. LET error   == OpenHeader(file, key, lim).error
              unopened == \E j \in DOMAIN records : Out(j) = "does not open"
              foreign == \E j \in DOMAIN records :
                           records[j].capsule.scheme \in Unsupported
          IN  /\ unopened => error = "HeaderHmacMismatch"
              /\ ~unopened /\ foreign => error = "UnsupportedCapsule"
              /\ ~unopened /\ ~foreign => error = "NoMatchingRecipient"
      BY <1>1, <1>2, <2>1, NoneDecides
    <2> QED
      BY <2>2
  <1>4. CASE stops # {}
    <2>1. stops \subseteq Nat
      BY <1>1
    <2>2. PICK i \in stops : \A j \in stops : i <= j
      BY <1>4, <2>1, LeastNatural
    <2>3. i \in DOMAIN records /\ i \in Nat /\ 1..(i - 1) \subseteq DOMAIN records
      BY <1>1
    <2>4. ASSUME NEW j \in 1..(i - 1) PROVE Out(j) \in GoesOn
      <3>1. j \in DOMAIN records /\ ~(i <= j)
        BY <2>3
      <3> QED
        BY <2>2, <3>1
    <2>5. OpenHeader(file, key, lim) =
            IF Out(i) = "opens" THEN [error |-> "none", index |-> i]
            ELSE [error |-> Out(i), index |-> 0]
      BY <1>1, <1>2, <2>2, <2>3, <2>4, FirstDecides
    <2>6. Out(i) # "LimitExceeded"
      <3> SUFFICES ASSUME Out(i) = "LimitExceeded" PROVE FALSE
        OBVIOUS
      <3> DEFINE s == Spent(file, key, i)
                 c == records[i].capsule
      <3>1. Candidate(records[i], key)
            /\ KekError(records[i], key, max - s) = "LimitExceeded"
        BY DEF RecordOutcome
      <3>2. /\ key.scheme = "SC06" /\ ~(c.kdf_iterations < 0)
            /\ c.kdf_iterations > max - s \/ c.kdf_iterations > MAX_ITERATIONS
        BY <3>1 DEF KekError, Supported
      <3>3. c.scheme = "SC06" /\ c.kdf_iterations \in Int
        BY <2>3, <3>1, <3>2 DEF Candidate, WellFormed
      <3>4. /\ s \in Int /\ Asked(file)[i] \in Nat /\ Total(Asked(file), Len(records)) \in Nat
            /\ s <= Total(Asked(file), Len(records))
            /\ s + Asked(file)[i] <= Total(Asked(file), Len(records))
            /\ c.kdf_iterations > 0 => Asked(file)[i] = c.kdf_iterations
        BY <2>3, <3>1, <3>2, SpentWithinAsked, CostsWhatIsAsked
      <3>5. Asked(file)[i] <= MAX_ITERATIONS /\ MAX_ITERATIONS \in Nat
        BY <1>2, <2>3, IterationsAssumption
      <3> DEFINE k == c.kdf_iterations
                 a == Asked(file)[i]
                 t == Total(Asked(file), Len(records))
      <3> HIDE DEF s, k, a, t, c, max, records
      <3>6. k \in Int /\ s \in Int /\ a \in Nat /\ t \in Nat /\ max \in Nat
            /\ s <= t /\ s + a <= t /\ (k > 0 => a = k) /\ t <= max
            /\ (k > max - s \/ k > MAX_ITERATIONS) /\ ~(k < 0)
            /\ a <= MAX_ITERATIONS /\ MAX_ITERATIONS \in Nat
        BY <1>2, <3>2, <3>3, <3>4, <3>5 DEF k, a, t, max
      <3> QED
        BY <3>6
    <2> QED
      BY <2>5, <2>6
  <1> QED
    BY <1>3, <1>4

\* So it is with everything up to the compressed payload; and what opens has no
\* more recipients than the limits allow.
LEMMA DecryptLimit ==
  ASSUME NEW file, WellFormed(file), NEW key, key.scheme \in Supported, NEW lim,
         lim.max_recipients \in Nat, lim.max_total_kdf_iterations \in Nat,
         NEW e \in DecryptErrors(file, key, lim)
  PROVE  /\ e = "LimitExceeded" => ~WithinOpening(file, lim)
         /\ e = "none" => Len(file.header.recipients) <= lim.max_recipients
  <1> DEFINE opened == OpenHeader(file, key, lim)
             p == PayloadError(file, OpenedFmk(file, key, opened.index))
  <1>1. ParseError(file) # "LimitExceeded" /\ "LimitExceeded" \notin DecodeErrors(file)
        /\ p # "LimitExceeded"
    BY DEF ParseError, DecodeErrors, DecodeError, PayloadError
  <1>2. \/ e = ParseError(file) /\ e # "none"
        \/ e \in DecodeErrors(file) /\ e # "none"
        \/ e = opened.error /\ e # "none"
        \/ opened.error = "none" /\ e = p
    BY DEF DecryptErrors
  <1>3. e = "LimitExceeded" => opened.error = "LimitExceeded"
    BY <1>1, <1>2
  <1>4. opened.error = "none" => Len(file.header.recipients) <= lim.max_recipients
    <2>1. Len(file.header.recipients) \in Nat
      BY IsSeqFacts DEF WellFormed
    <2>2. CASE Len(file.header.recipients) > lim.max_recipients
      <3>1. opened = [error |-> "LimitExceeded", index |-> 0]
        BY <2>2 DEF OpenHeader
      <3> QED
        BY <3>1
    <2> QED
      BY <2>1, <2>2
  <1> QED
    BY <1>2, <1>3, <1>4, OpeningLimit

\* An entry is written under one name at most.
LEMMA OneName ==
  ASSUME NEW name, NEW lim, NEW f \in SafeRelativePath(name, lim),
         NEW g \in SafeRelativePath(name, lim)
  PROVE  f = g
  <1>1. f \in File /\ g \in File
    BY DEF SafeRelativePath
  <1>2. PICK i \in DOMAIN name.comps :
          /\ name.comps[i] = f
          /\ \A j \in DOMAIN name.comps \ {i} : name.comps[j] = CurDir
    BY DEF SafeRelativePath
  <1>3. PICK k \in DOMAIN name.comps : name.comps[k] = g
    BY DEF SafeRelativePath
  <1>4. g # CurDir
    BY <1>1, FileAssumption
  <1>5. k = i
    BY <1>2, <1>3, <1>4
  <1> QED
    BY <1>2, <1>3, <1>5

\* The places of the entries that are no directory.
Kept(archive) == {i \in DOMAIN archive : archive[i].type # "dir"}

\* What is returned has an item for an entry that is kept, and for each of them
\* if no two are written under one name.
LEMMA UnpackedSize ==
  ASSUME NEW archive, NEW lim, IsFiniteSet(Kept(archive))
  PROVE  /\ IsFiniteSet(Unpacked(archive, lim))
         /\ Cardinality(Unpacked(archive, lim)) <= Cardinality(Kept(archive))
         /\ (\A i \in Kept(archive) :
               /\ SafeRelativePath(archive[i].name, lim) # {}
               /\ \A j \in Kept(archive) : i # j =>
                    SafeRelativePath(archive[i].name, lim)
                      \cap SafeRelativePath(archive[j].name, lim) = {})
            => Cardinality(Unpacked(archive, lim)) = Cardinality(Kept(archive))
  <1> DEFINE K == Kept(archive)
             U == Unpacked(archive, lim)
             N(i) == SafeRelativePath(archive[i].name, lim)
             From(w, i) == \E f \in N(i) : w = <<f, archive[i].data>>
             at == [w \in U |-> CHOOSE i \in K : From(w, i)]
  <1>1. \A w : w \in U <=> \E i \in K : From(w, i)
    BY DEF Unpacked, Kept
  <1>2. \A i, f, g : f \in N(i) /\ g \in N(i) => f = g
    BY OneName
  <1> HIDE DEF K, U, N
  <1>3. \A w \in U : at[w] \in K /\ From(w, at[w])
    BY <1>1
  <1>4. at = [w \in U |-> at[w]] /\ DOMAIN at = U
    OBVIOUS
  <1> HIDE DEF at
  <1>5. at \in [U -> K]
    BY <1>3, <1>4
  <1>6. \A w, x \in U : at[w] = at[x] => w = x
    <2> SUFFICES ASSUME NEW w \in U, NEW x \in U, at[w] = at[x] PROVE w = x
      OBVIOUS
    <2>1. PICK f \in N(at[w]) : w = <<f, archive[at[w]].data>>
      BY <1>3
    <2>2. PICK g \in N(at[w]) : x = <<g, archive[at[w]].data>>
      BY <1>3
    <2>3. f = g
      BY <1>2
    <2> QED
      BY <2>1, <2>2, <2>3
  <1>7. at \in Injection(U, K)
    BY <1>5, <1>6 DEF Injection, IsInjective
  <1>8. IsFiniteSet(K)
    BY DEF K
  <1>9. /\ IsFiniteSet(U) /\ Cardinality(U) <= Cardinality(K)
        /\ Cardinality(U) = Cardinality(K) <=> at \in Surjection(U, K)
    BY <1>7, <1>8, FS_Injection
  <1>10. ASSUME \A i \in K : N(i) # {} /\ \A j \in K : i # j => N(i) \cap N(j) = {}
         PROVE  at \in Surjection(U, K)
    <2>1. ASSUME NEW i \in K PROVE \E w \in U : at[w] = i
      <3>1. PICK f \in N(i) : TRUE
        BY <1>10
      <3>2. <<f, archive[i].data>> \in U
        BY <1>1, <3>1
      <3>3. PICK w \in U : w = <<f, archive[i].data>>
        BY <3>2
      <3>4. PICK g \in N(at[w]) : w = <<g, archive[at[w]].data>>
        BY <1>3
      <3>5. f = g
        BY <3>3, <3>4
      <3>6. f \in N(i) \cap N(at[w]) /\ at[w] \in K
        BY <1>3, <3>1, <3>4, <3>5
      <3>7. at[w] = i
        BY <1>10, <3>6
      <3> QED
        BY <3>7
    <2> QED
      BY <1>5, <2>1 DEF Surjection
  <1>11. (\A i \in K : N(i) # {} /\ \A j \in K : i # j => N(i) \cap N(j) = {})
         => Cardinality(U) = Cardinality(K)
    BY <1>9, <1>10
  <1> QED
    BY <1>9, <1>11 DEF K, U, N

\* What unpack_to_memory is asked to read.
Reading(msg, lim) ==
  [archive |-> msg.archive, limits |-> lim, compressed |-> msg.compressed]

\* The files before an entry are fewer than its number.
LEMMA FilesBeforeFinite ==
  ASSUME NEW archive, NEW k \in Nat \ {0}
  PROVE  /\ IsFiniteSet(FilesBefore(archive, k))
         /\ Cardinality(FilesBefore(archive, k)) \in Nat
         /\ Cardinality(FilesBefore(archive, k)) <= k - 1
  <1>1. k - 1 \in Nat /\ FilesBefore(archive, k) \in SUBSET (1..(k - 1))
    BY DEF FilesBefore
  <1> QED
    BY <1>1, SomeRoundsCount

LEMMA CeilingIsNat ==
  ASSUME NEW compressed \in Nat, NEW lim, lim.max_compression_ratio \in Nat,
         lim.max_uncompressed_bytes \in Nat
  PROVE  InflateCeiling(compressed, lim) \in Nat
  <1> DEFINE p == compressed * lim.max_compression_ratio
  <1>1. \A x, y \in Nat : x * y \in Nat
    OBVIOUS
  <1>2. p \in Nat
    BY <1>1
  <1> HIDE DEF p
  <1>3. SaturatingMul(compressed, lim.max_compression_ratio) \in Nat
    BY <1>2, U64MaxAssumption DEF SaturatingMul, p
  <1> QED
    BY <1>3, RatioFloorAssumption DEF InflateCeiling

\* More has been read at a later header.
LEMMA ReadMore ==
  ASSUME NEW archive, IsSeq(archive), \A i \in DOMAIN archive : archive[i].size \in Nat,
         NEW k \in 1..(Len(archive) + 1)
  PROVE  /\ ReadAt(archive, k) \in Nat /\ ReadAt(archive, Len(archive) + 1) \in Nat
         /\ ReadAt(archive, k) <= ReadAt(archive, Len(archive) + 1)
  <1> DEFINE n == Len(archive)
             g == [j \in DOMAIN archive |-> archive[j].size]
  <1>1. n \in Nat /\ DOMAIN archive = 1..n
    BY IsSeqFacts
  <1>2. ReadAt(archive, k) = k + Total(g, k - 1)
        /\ ReadAt(archive, n + 1) = (n + 1) + Total(g, (n + 1) - 1)
    BY DEF ReadAt
  <1>3. \A j \in 1..n : g[j] \in Nat
    BY <1>1
  <1> HIDE DEF g, n
  <1>4. k \in Nat /\ k - 1 \in 0..n /\ (n + 1) - 1 = n /\ k <= n + 1
    BY <1>1 DEF n
  <1>5. Total(g, k - 1) \in Nat /\ Total(g, n) \in Nat /\ Total(g, k - 1) <= Total(g, n)
    BY <1>1, <1>3, <1>4, TotalMonotone
  <1>6. \A x, y, u, v \in Nat : x <= y /\ u <= v => x + u <= y + v
    OBVIOUS
  <1>7. n + 1 \in Nat /\ \A x, y \in Nat : x + y \in Nat
    BY <1>1
  <1>8. k + Total(g, k - 1) <= (n + 1) + Total(g, n)
    BY <1>4, <1>5, <1>6, <1>7
  <1> QED
    BY <1>2, <1>4, <1>5, <1>7, <1>8 DEF n

\* unpack_to_memory blames a limit only if the archive exceeds one, and an entry
\* only if its type or its name is at fault; otherwise every entry has passed.
LEMMA MemoryVerdict ==
  ASSUME NEW msg, IsSeq(msg.archive), msg.compressed \in Nat,
         \A i \in DOMAIN msg.archive : msg.archive[i].size \in Nat,
         NEW lim, lim.max_entries \in Nat, lim.max_compression_ratio \in Nat,
         lim.max_uncompressed_bytes \in Nat
  PROVE  LET r == Reading(msg, lim)
             v == UnpackToMemory(r)
             Fine(k) == /\ CheckEntryType(msg.archive[k].type, lim)
                        /\ CheckUnique(msg.archive[k].name, SeenBefore(r, k), lim)
         IN  \/ v = "LimitExceeded" /\ ~WithinUnpacking(msg, lim)
             \/ v = "UnsafeArchiveEntry" /\ \E k \in DOMAIN msg.archive : ~Fine(k)
             \/ /\ v = "none"
                /\ Inflated(msg) <= InflateCeiling(msg.compressed, lim)
                /\ \A k \in DOMAIN msg.archive :
                     /\ Fine(k)
                     /\ Cardinality(FilesBefore(msg.archive, k)) < lim.max_entries
  <1> DEFINE ar == msg.archive
             n == Len(ar)
             r == Reading(msg, lim)
             v == UnpackToMemory(r)
             top == InflateCeiling(msg.compressed, lim)
             Fine(k) == /\ CheckEntryType(ar[k].type, lim)
                        /\ CheckUnique(ar[k].name, SeenBefore(r, k), lim)
             count == MemoryCount(ar)
             error == [k \in 1..(n + 1) |-> ErrorAt(r, count, k)]
  <1>1. n \in Nat /\ DOMAIN ar = 1..n
    BY IsSeqFacts
  <1>2. r.archive = ar /\ r.limits = lim /\ r.compressed = msg.compressed
    BY DEF Reading
  <1>3. v = FirstError(error, n + 1)
    BY <1>2 DEF UnpackToMemory, Verdict
  <1>4. \A k \in 1..n : count[k] = Cardinality(FilesBefore(ar, k))
    BY <1>1 DEF MemoryCount
  <1>5. \A k \in 1..(n + 1) : error[k] =
          IF ReadAt(ar, k) > top THEN "LimitExceeded"
          ELSE IF k > n THEN "none"
          ELSE CheckEntry(ar[k], count[k], SeenBefore(r, k), lim)
    BY <1>2 DEF ErrorAt
  <1>6. \A k \in 1..n : CheckEntry(ar[k], count[k], SeenBefore(r, k), lim) =
          IF count[k] >= lim.max_entries THEN "LimitExceeded"
          ELSE IF Fine(k) THEN "none" ELSE "UnsafeArchiveEntry"
    BY DEF CheckEntry
  <1>7. top \in Nat
    BY CeilingIsNat
  <1>8. WithinUnpacking(msg, lim) <=> n <= lim.max_entries /\ ReadAt(ar, n + 1) <= top
    BY DEF WithinUnpacking, Inflated
  <1>9. Inflated(msg) = ReadAt(ar, n + 1)
    BY DEF Inflated
  <1>10. \A k \in 1..(n + 1) : /\ ReadAt(ar, k) \in Nat /\ ReadAt(ar, n + 1) \in Nat
                               /\ ReadAt(ar, k) <= ReadAt(ar, n + 1)
    BY ReadMore
  <1>11. ASSUME NEW k \in 1..n PROVE count[k] \in Nat /\ count[k] <= k - 1
    <2>1. k \in Nat \ {0}
      BY <1>1
    <2>2. count[k] = Cardinality(FilesBefore(ar, k))
      BY <1>4
    <2> HIDE DEF count, ar, n
    <2> QED
      BY <2>1, <2>2, FilesBeforeFinite
  <1> HIDE DEF ar, n, r, v, top, count, error, Fine
  <1>12. n + 1 \in Nat /\ \A k \in 1..(n + 1) : k > n \/ k \in 1..n
    BY <1>1
  <1>13. \/ v = "none" /\ \A j \in 1..(n + 1) : error[j] = "none"
         \/ \E k \in 1..(n + 1) : v = error[k] /\ error[k] # "none"
    BY <1>3, <1>12, FirstErrorCases
  <1>14. CASE v = "none" /\ \A j \in 1..(n + 1) : error[j] = "none"
    <2>1. ReadAt(ar, n + 1) <= top
      <3>1. n + 1 \in 1..(n + 1)
        BY <1>1
      <3>2. ~(ReadAt(ar, n + 1) > top)
        BY <1>5, <1>14, <3>1
      <3> QED
        BY <1>7, <1>10, <3>1, <3>2
    <2>2. ASSUME NEW k \in 1..n PROVE Fine(k) /\ count[k] < lim.max_entries
      <3>1. k \in 1..(n + 1) /\ ~(k > n)
        BY <1>1
      <3>2. CheckEntry(ar[k], count[k], SeenBefore(r, k), lim) = "none"
        BY <1>5, <1>14, <3>1
      <3>3. Fine(k) /\ ~(count[k] >= lim.max_entries)
        BY <1>6, <3>2
      <3> QED
        BY <1>11, <3>3
    <2>3. \A k \in DOMAIN ar : Fine(k) /\ Cardinality(FilesBefore(ar, k)) < lim.max_entries
      BY <1>1, <1>4, <2>2
    <2> QED
      BY <1>9, <1>14, <2>1, <2>3 DEF Fine, ar, r, v, top
  <1>15. ASSUME NEW k \in 1..(n + 1), v = error[k], error[k] # "none"
         PROVE  \/ v = "LimitExceeded" /\ ~WithinUnpacking(msg, lim)
                \/ v = "UnsafeArchiveEntry" /\ \E l \in DOMAIN ar : ~Fine(l)
    <2>1. CASE ReadAt(ar, k) > top
      <3>1. ~(ReadAt(ar, n + 1) <= top)
        BY <1>7, <1>10, <2>1
      <3> QED
        BY <1>5, <1>8, <1>15, <2>1, <3>1
    <2>2. CASE ~(ReadAt(ar, k) > top)
      <3>1. k \in 1..n
        BY <1>5, <1>12, <1>15, <2>2
      <3>2. v = CheckEntry(ar[k], count[k], SeenBefore(r, k), lim)
        <4>1. ~(k > n)
          BY <1>1, <3>1
        <4> QED
          BY <1>5, <1>15, <2>2, <4>1
      <3>3. CASE count[k] >= lim.max_entries
        <4>1. ~(n <= lim.max_entries)
          <5>1. \A c, x, m, y \in Nat : c >= m /\ c <= x - 1 /\ x <= y => ~(y <= m)
            OBVIOUS
          <5>2. k \in Nat /\ k <= n
            BY <1>1, <3>1
          <5> QED
            BY <1>1, <1>11, <3>1, <3>3, <5>1, <5>2
        <4> QED
          BY <1>6, <1>8, <3>1, <3>2, <3>3, <4>1
      <3>4. CASE ~(count[k] >= lim.max_entries)
        BY <1>1, <1>6, <1>15, <3>1, <3>2, <3>4
      <3> QED
        BY <3>3, <3>4
    <2> QED
      BY <2>1, <2>2
  <1>16. CASE \E k \in 1..(n + 1) : v = error[k] /\ error[k] # "none"
    <2>1. \/ v = "LimitExceeded" /\ ~WithinUnpacking(msg, lim)
          \/ v = "UnsafeArchiveEntry" /\ \E l \in DOMAIN ar : ~Fine(l)
      BY <1>15, <1>16
    <2> QED
      BY <2>1 DEF Fine, ar, r, v
  <1> QED
    BY <1>13, <1>14, <1>16 DEF Fine, ar, r, v, top

\* If a further entry was always allowed, no more are kept than the limit.
LEMMA KeptWithin ==
  ASSUME NEW archive, IsSeq(archive), NEW m \in Nat,
         \A k \in DOMAIN archive : Cardinality(FilesBefore(archive, k)) < m
  PROVE  IsFiniteSet(Kept(archive)) /\ Cardinality(Kept(archive)) <= m
  <1> DEFINE n == Len(archive)
             K == Kept(archive)
             bounds == {b \in Nat : \A i \in K : i <= b}
  <1>1. n \in Nat /\ DOMAIN archive = 1..n
    BY IsSeqFacts
  <1>2. K \subseteq 1..n
    BY <1>1 DEF Kept
  <1>3. IsFiniteSet(K)
    <2>1. IsFiniteSet(1..n)
      BY <1>1, FS_Interval
    <2>2. K \in SUBSET (1..n)
      BY <1>2
    <2> QED
      BY <2>1, <2>2, FS_Subset
  <1>4. CASE K = {}
    <2>1. Cardinality(K) = 0
      BY <1>4, FS_EmptySet
    <2> QED
      BY <1>3, <2>1
  <1>5. CASE K # {}
    <2>1. bounds \subseteq Nat /\ n \in bounds
      BY <1>1, <1>2
    <2>2. PICK b \in bounds : \A c \in bounds : b <= c
      BY <2>1, LeastNatural
    <2>3. b \in Nat /\ \A i \in K : i <= b /\ i \in Nat /\ i >= 1
      BY <1>1, <1>2
    <2>4. b \in K
      <3> SUFFICES ASSUME b \notin K PROVE FALSE
        OBVIOUS
      <3>1. b >= 1
        BY <1>5, <2>3
      <3>2. b - 1 \in bounds
        <4>1. b - 1 \in Nat
          BY <2>3, <3>1
        <4>2. ASSUME NEW i \in K PROVE i <= b - 1
          <5>1. i <= b /\ i # b /\ i \in Nat
            BY <2>3
          <5> QED
            BY <2>3, <5>1
        <4> QED
          BY <4>1, <4>2
      <3> QED
        BY <2>2, <2>3, <3>2
    <2>5. K = FilesBefore(archive, b) \cup {b} /\ b \notin FilesBefore(archive, b)
      <3>1. \A i : i \in K <=> i \in 1..n /\ archive[i].type # "dir"
        BY <1>1 DEF Kept
      <3>2. \A i : i \in FilesBefore(archive, b) <=> i \in 1..(b - 1) /\ archive[i].type # "dir"
        BY DEF FilesBefore
      <3>3. b \in 1..n
        BY <2>4, <3>1
      <3>4. \A i \in 1..(b - 1) : i \in 1..n /\ i # b
        BY <1>1, <3>3
      <3>5. \A i \in K : i = b \/ i \in 1..(b - 1)
        BY <2>3
      <3> QED
        BY <2>4, <3>1, <3>2, <3>4, <3>5
    <2>6. b \in DOMAIN archive /\ b \in Nat \ {0}
      BY <1>1, <1>2, <2>4
    <2>7. /\ IsFiniteSet(FilesBefore(archive, b))
          /\ Cardinality(FilesBefore(archive, b)) \in Nat
          /\ Cardinality(FilesBefore(archive, b)) < m
      BY <2>6, FilesBeforeFinite
    <2>8. Cardinality(K) = Cardinality(FilesBefore(archive, b)) + 1
      BY <2>5, <2>7, FS_AddElement
    <2> QED
      BY <1>3, <2>7, <2>8
  <1> QED
    BY <1>4, <1>5

\* The limits of a call: to_core changes the numbers, and nothing else.
LEMMA LimitsAre ==
  ASSUME NEW lim \in {DefaultLimits} \cup {ToCore(l) : l \in LimitValues}
  PROVE  /\ lim.max_compression_ratio \in Nat /\ lim.max_uncompressed_bytes \in Nat
         /\ lim.max_entries \in Nat /\ lim.max_recipients \in Nat
         /\ lim.max_total_kdf_iterations \in Nat
         /\ lim.allow_absolute_paths = DefaultLimits.allow_absolute_paths
         /\ lim.allow_symlinks = DefaultLimits.allow_symlinks
  <1>1. CASE lim = DefaultLimits
    BY <1>1, LimitsAssumption DEF Numbers
  <1>2. ASSUME NEW l \in LimitValues, lim = ToCore(l)
        PROVE  /\ lim.max_compression_ratio \in Nat /\ lim.max_uncompressed_bytes \in Nat
               /\ lim.max_entries \in Nat /\ lim.max_recipients \in Nat
               /\ lim.max_total_kdf_iterations \in Nat
               /\ lim.allow_absolute_paths = DefaultLimits.allow_absolute_paths
               /\ lim.allow_symlinks = DefaultLimits.allow_symlinks
    <2>1. /\ l.max_compression_ratio \in Nat /\ l.max_uncompressed_bytes \in Nat
          /\ l.max_entries \in Nat /\ l.max_recipients \in Nat
          /\ l.max_total_kdf_iterations \in Nat
      BY LimitsAssumption DEF Numbers
    <2>2. DOMAIN DefaultLimits =
            {"max_compression_ratio", "max_uncompressed_bytes", "max_entries",
             "max_recipients", "max_total_kdf_iterations", "allow_overwrite",
             "allow_symlinks", "allow_absolute_paths"}
      BY LimitsAssumption DEF Numbers, Permissions
    <2>3. /\ lim.max_compression_ratio = l.max_compression_ratio
          /\ lim.max_uncompressed_bytes = l.max_uncompressed_bytes
          /\ lim.max_entries = l.max_entries
          /\ lim.max_recipients = l.max_recipients
          /\ lim.max_total_kdf_iterations = l.max_total_kdf_iterations
          /\ lim.allow_absolute_paths = DefaultLimits.allow_absolute_paths
          /\ lim.allow_symlinks = DefaultLimits.allow_symlinks
      BY <1>2, <2>2 DEF ToCore
    <2> QED
      BY <2>1, <2>3
  <1> QED
    BY <1>1, <1>2

\* How a decrypt call ends.
LEMMA ResultIs ==
  ASSUME NEW given, NEW lim, NEW e, NEW c, c = Result(given, lim, e)
  PROVE  LET msg == given.held.file.ciphertext.msg
             v   == UnpackToMemory(Reading(msg, lim))
         IN  /\ c.given = given
             /\ e # "none" => c.pc = "raised" /\ c.exception = ToPyErr(e)
             /\ e = "none" /\ v # "none" => c.pc = "raised" /\ c.exception = ToPyErr(v)
             /\ e = "none" /\ v = "none" =>
                  /\ c.pc = "returned" /\ c.exception = "none"
                  /\ c.files = Unpacked(msg.archive, lim)
  BY DEF Result, Reading

\* One exception for a limit that is exceeded.
LEMMA LimitBlamed ==
  ASSUME NEW code
  PROVE  ToPyErr(code) = "LimitExceededError" <=> code = "LimitExceeded"
  BY DEF ToPyErr

\* decrypt returns nothing beyond the limits it was called with, and blames a
\* limit only if the container exceeds one of them (payload.rs unpack_to_memory,
\* container.rs open_header with the KdfBudget), whatever becomes of the Limits
\* object while the GIL is released.
THEOREM LimitsStand == Spec => []LimitsAsCalled
  <1>1. IndInv => LimitsAsCalled
    <2> SUFFICES ASSUME IndInv, NEW t \in Thread, Ended(call[t], "decrypt")
                 PROVE  LET c    == call[t]
                            file == c.given.held.file
                            msg  == file.ciphertext.msg
                            lim  == c.given.limits
                        IN  /\ c.pc = "returned" =>
                                 /\ Len(file.header.recipients) <= lim.max_recipients
                                 /\ Cardinality(c.files) <= lim.max_entries
                                 /\ Inflated(msg) <= InflateCeiling(msg.compressed, lim)
                            /\ c.exception = "LimitExceededError" =>
                                 ~WithinOpening(file, lim) \/ ~WithinUnpacking(msg, lim)
      BY DEF LimitsAsCalled
    <2> DEFINE c    == call[t]
               given == c.given
               file == given.held.file
               msg  == file.ciphertext.msg
               lim  == given.limits
               key  == KeyOf(given.args)
               v    == UnpackToMemory(Reading(msg, lim))
    <2>1. GivenOK(given, draw)
          /\ \E e \in DecryptErrors(file, key, lim) : c = Result(given, lim, e)
      BY DEF IndInv, CallOK
    <2>2. PICK e \in DecryptErrors(file, key, lim) : c = Result(given, lim, e)
      BY <2>1
    <2>3. WellFormed(file) /\ lim \in {DefaultLimits} \cup {ToCore(l) : l \in LimitValues}
      BY <2>1 DEF GivenOK, HeldOK
    <2>4. key.scheme \in Supported
      BY DEF KeyOf, Supported
    <2> HIDE DEF c, key
    <2>5. /\ e # "none" => c.pc = "raised" /\ c.exception = ToPyErr(e)
          /\ e = "none" /\ v # "none" => c.pc = "raised" /\ c.exception = ToPyErr(v)
          /\ e = "none" /\ v = "none" =>
               /\ c.pc = "returned" /\ c.exception = "none"
               /\ c.files = Unpacked(msg.archive, lim)
      BY <2>2, ResultIs
    <2> HIDE DEF lim, given, file
    <2>6. /\ lim.max_compression_ratio \in Nat /\ lim.max_uncompressed_bytes \in Nat
          /\ lim.max_entries \in Nat /\ lim.max_recipients \in Nat
          /\ lim.max_total_kdf_iterations \in Nat
      BY <2>3, LimitsAre
    <2>7. /\ e = "LimitExceeded" => ~WithinOpening(file, lim)
          /\ e = "none" => Len(file.header.recipients) <= lim.max_recipients
      BY <2>2, <2>3, <2>4, <2>6, DecryptLimit
    <2>8. /\ IsSeq(msg.archive) /\ msg.compressed \in Nat
          /\ \A i \in DOMAIN msg.archive : msg.archive[i].size \in Nat
      BY <2>3 DEF WellFormed
    <2> HIDE DEF msg, v
    <2>9. \/ v = "LimitExceeded" /\ ~WithinUnpacking(msg, lim)
          \/ v = "UnsafeArchiveEntry"
          \/ /\ v = "none" /\ Inflated(msg) <= InflateCeiling(msg.compressed, lim)
             /\ \A k \in DOMAIN msg.archive :
                  Cardinality(FilesBefore(msg.archive, k)) < lim.max_entries
      BY <2>6, <2>8, MemoryVerdict DEF v
    <2>10. ASSUME e = "none", v = "none"
           PROVE  Cardinality(Unpacked(msg.archive, lim)) <= lim.max_entries
      <3> DEFINE K == Kept(msg.archive)
                 U == Unpacked(msg.archive, lim)
      <3>1. IsFiniteSet(K) /\ Cardinality(K) <= lim.max_entries
        BY <2>6, <2>8, <2>9, <2>10, KeptWithin
      <3>2. IsFiniteSet(U) /\ Cardinality(U) <= Cardinality(K)
        BY <3>1, UnpackedSize
      <3> HIDE DEF K, U
      <3>3. Cardinality(K) \in Nat /\ Cardinality(U) \in Nat
        BY <3>1, <3>2, FS_CardinalityType
      <3>4. Cardinality(U) <= lim.max_entries
        BY <2>6, <3>1, <3>2, <3>3
      <3> QED
        BY <3>4 DEF U
    <2>11. c.pc = "returned" => e = "none" /\ v = "none"
      BY <2>5
    <2>12. c.exception = "LimitExceededError" =>
             \/ e = "LimitExceeded"
             \/ e = "none" /\ v = "LimitExceeded"
      BY <2>5, LimitBlamed
    <2>13. c.pc = "returned" =>
             /\ Len(file.header.recipients) <= lim.max_recipients
             /\ Cardinality(c.files) <= lim.max_entries
             /\ Inflated(msg) <= InflateCeiling(msg.compressed, lim)
      BY <2>5, <2>7, <2>9, <2>10, <2>11
    <2>14. c.exception = "LimitExceededError" =>
             ~WithinOpening(file, lim) \/ ~WithinUnpacking(msg, lim)
      BY <2>7, <2>9, <2>12
    <2> QED
      BY <2>13, <2>14 DEF c, given, file, msg, lim
  <1> QED
    BY <1>1, Invariance, PTL

-----------------------------------------------------------------------------
(* Bytes that encrypt returned.                                            *)

\* The recipient holds the key that is tried.
HeldBy(recipient, key) == recipient.scheme = key.scheme /\ recipient.key \in key.holds

\* Some recipient is of the key's kind, if the kind is one whose records do not
\* say whom they are for.
OfItsKind(to, key) ==
  key.scheme # "SC01" /\ \E i \in DOMAIN to : to[i].scheme = key.scheme

\* The header authenticates with its FMK and no other.
Authenticates(file, fmk) == \A y : Verify(file, y) <=> y = fmk

\* The one password, secret or key pair that a call of decrypt takes.
HoldsOne(key, x) == key.holds = {x}

\* What trying a record of encrypt comes to.
LEMMA HonestRecord ==
  ASSUME NEW file, NEW key, key.scheme \in Supported, NEW x, HoldsOne(key, x),
         NEW lim, lim.max_total_kdf_iterations \in Nat,
         NEW i, Spent(file, key, i) \in Int,
         NEW recipient, ~CannotAddress(recipient), NEW fmk,
         GoodRecord(file.header.recipients[i], recipient, fmk),
         Authenticates(file, fmk)
  PROVE  LET r   == file.header.recipients[i]
             out == RecordOutcome(file, key, lim, i)
         IN  /\ out = "passed over" <=> ~Candidate(r, key)
             /\ HeldBy(recipient, key) => Candidate(r, key)
             /\ recipient.scheme = key.scheme /\ key.scheme # "SC01" => Candidate(r, key)
             /\ Candidate(r, key) =>
                  /\ recipient.scheme = key.scheme
                  /\ key.scheme = "SC01" => HeldBy(recipient, key)
                  /\ \/ out = "opens" /\ HeldBy(recipient, key) /\ UnwrapXor(r, key) = fmk
                     \/ out = "does not open" /\ ~HeldBy(recipient, key)
                     \/ out = "LimitExceeded"
                     \/ out = "InvalidKeyMaterial" /\ key.scheme = "SC05" /\ x \in ShortSecret
  <1> DEFINE r   == file.header.recipients[i]
             c   == r.capsule
             out == RecordOutcome(file, key, lim, i)
             b   == lim.max_total_kdf_iterations - Spent(file, key, i)
             e   == KekError(r, key, b)
             held1 == HeldBy(recipient, key)
  <1>0. key.holds = {x} /\ \A y : Verify(file, y) <=> y = fmk
    BY DEF HoldsOne, Authenticates
  <1>1. /\ AddressedTo(r, recipient, fmk)
        /\ recipient.scheme \in Supported /\ c.scheme = recipient.scheme
        /\ r.encrypted_fmk # BadLength /\ r.fmk_encryption_method = "XOR"
    BY DEF GoodRecord, AddressedTo
  <1>2. out = IF ~Candidate(r, key) THEN "passed over"
              ELSE IF e # "none" THEN e
              ELSE IF \/ key.scheme = "SC01" /\ c.sender_public_key = NoPoint
                      \/ r.encrypted_fmk = BadLength THEN "InvalidKeyMaterial"
              ELSE IF Verify(file, UnwrapXor(r, key)) THEN "opens" ELSE "does not open"
    BY DEF RecordOutcome
  <1>3. Candidate(r, key) => recipient.scheme = key.scheme
    BY <1>1 DEF Candidate
  <1>4. Candidate(r, key) /\ key.scheme = "SC01" => held1
    <2> SUFFICES ASSUME Candidate(r, key), key.scheme = "SC01" PROVE held1
      OBVIOUS
    <2>1. PICK k \in key.holds : Matches(k, c)
      BY DEF Candidate
    <2>2. recipient.scheme = "SC01" /\ c.recipient_public_key = recipient.key
      BY <1>1, <1>3 DEF AddressedTo
    <2> QED
      BY <2>1, <2>2 DEF Matches, HeldBy
  <1>5. recipient.scheme = key.scheme /\ key.scheme # "SC01" => Candidate(r, key)
    BY <1>1 DEF Candidate, GoodRecord
  <1>6. held1 => Candidate(r, key)
    <2>1. CASE key.scheme # "SC01"
      BY <1>5, <2>1 DEF HeldBy
    <2>2. CASE key.scheme = "SC01"
      <3> SUFFICES ASSUME held1 PROVE Candidate(r, key)
        OBVIOUS
      <3>1. /\ recipient.scheme = "SC01" /\ recipient.key \in key.holds
            /\ c.recipient_public_key = recipient.key /\ c.curve = Curve[recipient.key]
        BY <1>1, <2>2 DEF HeldBy, AddressedTo, GoodRecord
      <3>2. Matches(recipient.key, c)
        BY <3>1 DEF Matches
      <3> QED
        BY <1>1, <2>2, <3>1, <3>2 DEF Candidate
    <2> QED
      BY <2>1, <2>2
  <1>7. ASSUME Candidate(r, key)
        PROVE  \/ out = "opens" /\ held1 /\ UnwrapXor(r, key) = fmk
               \/ out = "does not open" /\ ~held1
               \/ out = "LimitExceeded"
               \/ out = "InvalidKeyMaterial" /\ key.scheme = "SC05" /\ x \in ShortSecret
    <2>1. ~(key.scheme = "SC01" /\ c.sender_public_key = NoPoint)
      BY <1>3, <1>7 DEF GoodRecord
    <2>2. CASE e = "none"
      <3>1. out = IF Verify(file, UnwrapXor(r, key)) THEN "opens" ELSE "does not open"
        BY <1>1, <1>2, <1>7, <2>1, <2>2
      <3>2. CASE UnwrapXor(r, key) = fmk
        <4>1. Verify(file, UnwrapXor(r, key)) /\ key.holds # {}
          BY <1>0, <3>2
        <4>2. key.scheme = recipient.scheme /\ recipient.key \in key.holds
          BY <1>1, <1>7, <3>2, <4>1, OnlyOwnerUnwraps
        <4> QED
          BY <3>1, <3>2, <4>1, <4>2 DEF HeldBy
      <3>3. CASE UnwrapXor(r, key) # fmk
        <4>1. ~Verify(file, UnwrapXor(r, key))
          BY <1>0, <3>3
        <4>2. ~held1
          <5> SUFFICES ASSUME held1 PROVE FALSE
            OBVIOUS
          <5>1. key.holds = {recipient.key}
            BY <1>0 DEF HeldBy
          <5> QED
            BY <1>1, <1>7, <3>3, <5>1, OwnerUnwraps
        <4> QED
          BY <3>1, <4>1, <4>2
      <3> QED
        BY <3>2, <3>3
    <2>3. CASE e # "none"
      <3>1. out = e
        BY <1>2, <1>7, <2>3
      <3>2. CASE key.scheme = "SC01"
        BY <2>3, <3>2 DEF KekError
      <3>3. CASE key.scheme = "SC05"
        <4>1. recipient.scheme # "SC01" /\ c.salt # ShortSalt
          BY <1>3, <1>7, <3>3 DEF GoodRecord
        <4>2. e = IF key.holds \subseteq ShortSecret \/ c.salt = ShortSalt
                  THEN "InvalidKeyMaterial" ELSE "none"
          BY <3>3 DEF KekError
        <4>3. e = "InvalidKeyMaterial" /\ x \in ShortSecret
          BY <1>0, <2>3, <4>1, <4>2
        <4> QED
          BY <3>1, <3>3, <4>3
      <3>4. CASE key.scheme = "SC06"
        <4>1. c.salt # ShortSalt /\ c.password_salt # ShortSalt /\ c.kdf_iterations = ITERATIONS
          BY <1>3, <1>7, <3>4 DEF GoodRecord
        <4>2. e = IF c.kdf_iterations < 0 THEN "InvalidKeyMaterial"
                  ELSE IF c.kdf_iterations > b THEN "LimitExceeded"
                  ELSE IF c.salt = ShortSalt \/ c.kdf_iterations = 0
                  THEN "InvalidKeyMaterial"
                  ELSE IF c.kdf_iterations > MAX_ITERATIONS THEN "LimitExceeded"
                  ELSE IF c.password_salt = ShortSalt THEN "InvalidKeyMaterial"
                  ELSE "none"
          BY <3>4 DEF KekError
        <4>3. ~(c.kdf_iterations < 0) /\ c.kdf_iterations # 0
          BY <4>1, IterationsAssumption
        <4> QED
          BY <2>3, <3>1, <4>1, <4>2, <4>3
      <3> QED
        BY <3>2, <3>3, <3>4 DEF Supported
    <2> QED
      BY <2>2, <2>3
  <1>8. out = "passed over" <=> ~Candidate(r, key)
    BY <1>2, <1>7
  <1> HIDE DEF r, out, held1
  <1>9. /\ out = "passed over" <=> ~Candidate(r, key)
        /\ held1 => Candidate(r, key)
        /\ recipient.scheme = key.scheme /\ key.scheme # "SC01" => Candidate(r, key)
        /\ Candidate(r, key) =>
             /\ recipient.scheme = key.scheme
             /\ key.scheme = "SC01" => held1
             /\ \/ out = "opens" /\ held1 /\ UnwrapXor(r, key) = fmk
                \/ out = "does not open" /\ ~held1
                \/ out = "LimitExceeded"
                \/ out = "InvalidKeyMaterial" /\ key.scheme = "SC05" /\ x \in ShortSecret
    BY <1>3, <1>4, <1>5, <1>6, <1>7, <1>8
  <1> QED
    BY <1>9 DEF r, out, held1

\* What opening a container of encrypt comes to, for any key and any limits.
LEMMA HonestOpening ==
  ASSUME NEW to, IsSeq(to), EncryptError(to) = "none",
         \A i \in DOMAIN to : to[i].scheme \in Supported,
         NEW d \in Nat \ {0}, NEW msg, NEW file, file = Encrypted(to, d, msg),
         WellFormed(file),
         NEW key, key.scheme \in Supported, NEW x, HoldsOne(key, x),
         NEW lim, lim.max_total_kdf_iterations \in Nat, lim.max_recipients \in Nat,
         NEW e \in DecryptErrors(file, key, lim)
  PROVE  LET for == \E i \in DOMAIN to : HeldBy(to[i], key)
         IN  \/ e = "none" /\ for
             \/ e = "LimitExceeded"
             \/ e = "InvalidKeyMaterial" /\ ~for
             \/ e = "HeaderHmacMismatch" /\ ~for /\ OfItsKind(to, key)
             \/ e = "NoMatchingRecipient" /\ ~for /\ ~OfItsKind(to, key)
  <1> DEFINE records == file.header.recipients
             fmk     == Fmk(d)
             Out(i)  == RecordOutcome(file, key, lim, i)
             Cand(i) == Candidate(records[i], key)
             opened  == OpenHeader(file, key, lim)
             for     == \E i \in DOMAIN to : HeldBy(to[i], key)
             goal    == \/ e = "none" /\ for
                        \/ e = "LimitExceeded"
                        \/ e = "InvalidKeyMaterial" /\ ~for
                        \/ e = "HeaderHmacMismatch" /\ ~for /\ OfItsKind(to, key)
                        \/ e = "NoMatchingRecipient" /\ ~for /\ ~OfItsKind(to, key)
  <1>1. /\ IsSeq(records) /\ DOMAIN records = DOMAIN to
        /\ DOMAIN records = 1..Len(records) /\ Len(records) \in Nat
        /\ \A i \in DOMAIN to : records[i] = BuildRecipientRecord(to[i], fmk, d + 2 * i)
    BY EncryptedHas, IsSeqFacts
  <1>2. /\ to # <<>> /\ \A i \in DOMAIN to : ~CannotAddress(to[i])
    BY DEF EncryptError
  <1>3. /\ ParseError(file) = "none" /\ DecodeErrors(file) = {"none"}
        /\ \A y : Verify(file, y) <=> y = fmk
        /\ PayloadError(file, fmk) = "none"
    <2> DEFINE rs == [i \in DOMAIN to |-> BuildRecipientRecord(to[i], Fmk(d), d + 2 * i)]
    <2>1. file = Container(rs, "CHACHA20POLY1305", Fmk(d), d + 1, msg)
      BY DEF Encrypted
    <2>2. rs # <<>>
      <3>1. DOMAIN rs = DOMAIN to /\ DOMAIN to # {}
        <4>1. Len(to) \in Nat /\ DOMAIN to = 1..Len(to) /\ Len(to) # 0
          BY <1>2, IsSeqFacts
        <4>2. 1 \in DOMAIN to
          BY <4>1
        <4>3. DOMAIN rs = DOMAIN to
          OBVIOUS
        <4> QED
          BY <4>2, <4>3
      <3> QED
        BY <3>1
    <2> HIDE DEF rs
    <2> QED
      BY <2>1, <2>2, SealedFile
  <1>4. ASSUME NEW i \in DOMAIN to
        PROVE  GoodRecord(records[i], to[i], fmk)
    <2>1. i \in Nat
      BY <1>1
    <2>2. \A n, m \in Nat : n # 0 => n + 2 * m \in Nat \ {0}
      OBVIOUS
    <2>3. d + 2 * i \in Nat \ {0}
      BY <2>1, <2>2
    <2>4. GoodRecord(BuildRecipientRecord(to[i], Fmk(d), d + 2 * i), to[i], Fmk(d))
      BY <2>3, FreshRecordGood
    <2> QED
      BY <1>1, <2>4
  <1>5. ASSUME NEW i \in DOMAIN to
        PROVE  /\ Out(i) = "passed over" <=> ~Cand(i)
               /\ HeldBy(to[i], key) => Cand(i)
               /\ to[i].scheme = key.scheme /\ key.scheme # "SC01" => Cand(i)
               /\ Cand(i) =>
                    /\ to[i].scheme = key.scheme
                    /\ key.scheme = "SC01" => HeldBy(to[i], key)
                    /\ \/ Out(i) = "opens" /\ HeldBy(to[i], key) /\ UnwrapXor(records[i], key) = fmk
                       \/ Out(i) = "does not open" /\ ~HeldBy(to[i], key)
                       \/ Out(i) = "LimitExceeded"
                       \/ Out(i) = "InvalidKeyMaterial" /\ key.scheme = "SC05"
                            /\ x \in ShortSecret
    <2>1. Spent(file, key, i) \in Int
      BY <1>1, CostsWhatIsAsked
    <2>2. ~CannotAddress(to[i]) /\ GoodRecord(file.header.recipients[i], to[i], fmk)
      BY <1>2, <1>4
    <2>3. Authenticates(file, fmk)
      BY <1>3 DEF Authenticates
    <2> HIDE DEF fmk
    <2>4. LET r   == file.header.recipients[i]
              out == RecordOutcome(file, key, lim, i)
          IN  /\ out = "passed over" <=> ~Candidate(r, key)
              /\ HeldBy(to[i], key) => Candidate(r, key)
              /\ to[i].scheme = key.scheme /\ key.scheme # "SC01" => Candidate(r, key)
              /\ Candidate(r, key) =>
                   /\ to[i].scheme = key.scheme
                   /\ key.scheme = "SC01" => HeldBy(to[i], key)
                   /\ \/ out = "opens" /\ HeldBy(to[i], key) /\ UnwrapXor(r, key) = fmk
                      \/ out = "does not open" /\ ~HeldBy(to[i], key)
                      \/ out = "LimitExceeded"
                      \/ out = "InvalidKeyMaterial" /\ key.scheme = "SC05" /\ x \in ShortSecret
      <3> HIDE DEF records, Out, Cand, opened, for, goal
      <3> QED
        BY <2>1, <2>2, <2>3, HonestRecord
    <2> QED
      BY <2>4
  <1>6. for => ~(key.scheme = "SC05" /\ x \in ShortSecret)
    <2> SUFFICES ASSUME NEW i \in DOMAIN to, HeldBy(to[i], key), key.scheme = "SC05",
                        x \in ShortSecret
                 PROVE  FALSE
      OBVIOUS
    <2>1. to[i].scheme = "SC05" /\ to[i].key = x
      BY DEF HeldBy, HoldsOne
    <2> QED
      BY <1>2, <2>1 DEF CannotAddress
  <1>7. e = IF opened.error # "none" THEN opened.error
            ELSE PayloadError(file, OpenedFmk(file, key, opened.index))
    BY <1>3 DEF DecryptErrors
  <1>8. CASE ~(Len(records) <= lim.max_recipients)
    <2>0. Len(file.header.recipients) > lim.max_recipients
      BY <1>1, <1>8
    <2>1. opened = [error |-> "LimitExceeded", index |-> 0]
      BY <2>0 DEF OpenHeader
    <2>2. opened.error = "LimitExceeded"
      BY <2>1
    <2> HIDE DEF opened
    <2> QED
      BY <1>7, <2>2
  <1>9. CASE Len(records) <= lim.max_recipients
    <2> DEFINE stops == {j \in DOMAIN records : Out(j) \notin GoesOn}
    <2>1. CASE stops = {}
      <3>1. \A j \in DOMAIN records : Out(j) \in GoesOn
        BY <2>1
      <3>2. LET error   == OpenHeader(file, key, lim).error
                unopened == \E j \in DOMAIN records : Out(j) = "does not open"
                foreign == \E j \in DOMAIN records :
                             records[j].capsule.scheme \in Unsupported
            IN  /\ unopened => error = "HeaderHmacMismatch"
                /\ ~unopened /\ foreign => error = "UnsupportedCapsule"
                /\ ~unopened /\ ~foreign => error = "NoMatchingRecipient"
        BY <1>1, <1>9, <3>1, NoneDecides
      <3>3. \A j \in DOMAIN records : records[j].capsule.scheme \notin Unsupported
        BY <1>1, <1>4 DEF GoodRecord, AddressedTo, Supported, Unsupported
      <3>4. ASSUME NEW i \in DOMAIN to
            PROVE  /\ ~HeldBy(to[i], key)
                   /\ Out(i) = "does not open" <=> Cand(i)
                   /\ Out(i) = "does not open" <=>
                        key.scheme # "SC01" /\ to[i].scheme = key.scheme
        <4>1. Out(i) = "passed over" \/ Out(i) = "does not open"
          BY <1>1, <3>1 DEF GoesOn
        <4> HIDE DEF Out, Cand
        <4> QED
          BY <1>5, <4>1
      <3>5. ~for /\ (OfItsKind(to, key) <=>
                       \E j \in DOMAIN records : Out(j) = "does not open")
        BY <1>1, <3>4 DEF OfItsKind
      <3>6. opened.error = IF OfItsKind(to, key) THEN "HeaderHmacMismatch"
                           ELSE "NoMatchingRecipient"
        BY <3>2, <3>3, <3>5
      <3> HIDE DEF opened, for
      <3>7. goal
        BY <1>7, <3>5, <3>6
      <3> QED
        BY <3>7 DEF for
    <2>2. CASE stops # {}
      <3>1. stops \subseteq Nat
        BY <1>1
      <3>2. PICK i \in stops : \A j \in stops : i <= j
        BY <2>2, <3>1, LeastNatural
      <3>3. i \in DOMAIN records /\ i \in DOMAIN to /\ i \in Nat
            /\ 1..(i - 1) \subseteq DOMAIN records /\ Out(i) \notin GoesOn
        BY <1>1
      <3>4. ASSUME NEW j \in 1..(i - 1) PROVE Out(j) \in GoesOn
        <4>1. j \in DOMAIN records /\ ~(i <= j)
          BY <3>3
        <4> QED
          BY <3>2, <4>1
      <3>5. OpenHeader(file, key, lim) =
              IF Out(i) = "opens" THEN [error |-> "none", index |-> i]
              ELSE [error |-> Out(i), index |-> 0]
        BY <1>1, <1>9, <3>3, <3>4, FirstDecides
      <3>6. \/ Out(i) = "opens" /\ HeldBy(to[i], key) /\ UnwrapXor(records[i], key) = fmk
            \/ Out(i) = "LimitExceeded"
            \/ Out(i) = "InvalidKeyMaterial" /\ key.scheme = "SC05" /\ x \in ShortSecret
        <4>1. Out(i) # "passed over" /\ Out(i) # "does not open"
          BY <3>3 DEF GoesOn
        <4> HIDE DEF Out, Cand
        <4> QED
          BY <1>5, <3>3, <4>1
      <3>7. CASE Out(i) = "opens"
        <4>1. opened.error = "none" /\ opened.index = i
          BY <3>5, <3>7
        <4>2. HeldBy(to[i], key) /\ OpenedFmk(file, key, i) = fmk
          BY <3>6, <3>7 DEF OpenedFmk
        <4> HIDE DEF opened, fmk
        <4> QED
          BY <1>3, <1>7, <3>3, <4>1, <4>2
      <3>8. CASE Out(i) # "opens"
        <4>1. opened.error = Out(i)
          BY <3>5, <3>8
        <4> HIDE DEF opened, for
        <4>2. goal
          BY <1>6, <1>7, <3>6, <3>8, <4>1
        <4> QED
          BY <4>2 DEF for
      <3> QED
        BY <3>7, <3>8
    <2> QED
      BY <2>1, <2>2
  <1> QED
    BY <1>8, <1>9

\* The container of a decrypt call that was given bytes of encrypt, and what
\* opening it came to.
LEMMA HonestCall ==
  ASSUME IndInv, NEW t \in Thread, Honest(call[t])
  PROVE  LET c       == call[t]
             given   == c.given
             file    == given.held.file
             to      == Recipients(given.held.by[1].args)
             payload == given.held.by[1].payload
             lim     == given.limits
             key     == KeyOf(given.args)
         IN  /\ payload \in Dicts /\ PackError(payload) = "none"
             /\ file.ciphertext.msg = Packed(payload) /\ WellFormed(file)
             /\ lim \in {DefaultLimits} \cup {ToCore(l) : l \in LimitValues}
             /\ key.scheme \in Supported
             /\ \E e \in DecryptErrors(file, key, lim) :
                  /\ c = Result(given, lim, e)
                  /\ \/ e = "none" /\ Addressed(c)
                     \/ e = "LimitExceeded"
                     \/ e = "InvalidKeyMaterial" /\ ~Addressed(c)
                     \/ e = "HeaderHmacMismatch" /\ ~Addressed(c) /\ OfItsKind(to, key)
                     \/ e = "NoMatchingRecipient" /\ ~Addressed(c) /\ ~OfItsKind(to, key)
  <1> DEFINE c       == call[t]
             given   == c.given
             file    == given.held.file
             a       == given.held.by[1].args
             to      == Recipients(a)
             payload == given.held.by[1].payload
             lim     == given.limits
             key     == KeyOf(given.args)
             for     == \E i \in DOMAIN to : HeldBy(to[i], key)
  <1>1. /\ Ended(c, "decrypt") /\ given.held.by # <<>> /\ GivenOK(given, draw)
        /\ \E e \in DecryptErrors(file, key, lim) : c = Result(given, lim, e)
    BY DEF Honest, IndInv, CallOK
  <1>2. /\ a \in EncryptArgs /\ payload \in Dicts /\ SealError(to, payload) = "none"
        /\ WellFormed(file) /\ lim \in {DefaultLimits} \cup {ToCore(l) : l \in LimitValues}
        /\ \E d \in 1..draw : file = Encrypted(to, d, Packed(payload))
    BY <1>1 DEF GivenOK, HeldOK
  <1>3. PICK d \in 1..draw : file = Encrypted(to, d, Packed(payload))
    BY <1>2
  <1>4. PICK e \in DecryptErrors(file, key, lim) : c = Result(given, lim, e)
    BY <1>1
  <1>5. EncryptError(to) = "none" /\ PackError(payload) = "none"
    BY <1>2 DEF SealError
  <1>6. IsSeq(to) /\ \A i \in DOMAIN to : to[i].scheme \in Supported
    BY <1>2, RecipientsAre
  <1>7. key.scheme \in Supported /\ \E x : HoldsOne(key, x)
    BY DEF KeyOf, Supported, HoldsOne
  <1>8. d \in Nat \ {0}
    BY DEF IndInv
  <1>9. lim.max_total_kdf_iterations \in Nat /\ lim.max_recipients \in Nat
    BY <1>2, LimitsAre
  <1>10. Addressed(c) <=> for
    BY DEF Addressed, HeldBy
  <1> HIDE DEF c, given, file, a, to, payload, lim, key
  <1>11. file.ciphertext.msg = Packed(payload)
    BY <1>3, <1>6, EncryptedHas
  <1>12. \/ e = "none" /\ for
         \/ e = "LimitExceeded"
         \/ e = "InvalidKeyMaterial" /\ ~for
         \/ e = "HeaderHmacMismatch" /\ ~for /\ OfItsKind(to, key)
         \/ e = "NoMatchingRecipient" /\ ~for /\ ~OfItsKind(to, key)
    BY <1>2, <1>3, <1>4, <1>5, <1>6, <1>7, <1>8, <1>9, HonestOpening
  <1> HIDE DEF for
  <1>13. \E f \in DecryptErrors(file, key, lim) :
           /\ c = Result(given, lim, f)
           /\ \/ f = "none" /\ Addressed(c)
              \/ f = "LimitExceeded"
              \/ f = "InvalidKeyMaterial" /\ ~Addressed(c)
              \/ f = "HeaderHmacMismatch" /\ ~Addressed(c) /\ OfItsKind(to, key)
              \/ f = "NoMatchingRecipient" /\ ~Addressed(c) /\ ~OfItsKind(to, key)
    BY <1>4, <1>10, <1>12
  <1> QED
    BY <1>2, <1>5, <1>7, <1>11, <1>13 DEF c, given, file, a, to, payload, lim, key

\* The exceptions of decrypt blame the right party (to_py_err in lib.rs on the
\* errors of open_header): bytes that encrypt returned are never called damaged,
\* and a key that opens nothing is called wrong only if it was worth a try.
THEOREM BlameIsRight == Spec => []BlameFits
  <1>1. IndInv => BlameFits
    <2> SUFFICES ASSUME IndInv, NEW t \in Thread, Honest(call[t])
                 PROVE  LET c   == call[t]
                            key == KeyOf(c.given.args)
                            to  == Recipients(c.given.held.by[1].args)
                            ofItsKind == key.scheme # "SC01"
                                         /\ \E i \in DOMAIN to : to[i].scheme = key.scheme
                        IN  /\ c.exception \notin {"ContainerError", "AuthenticationError",
                                                   "UnsupportedSchemeError"}
                            /\ c.exception = "WrongKeyError" => ~Addressed(c) /\ ofItsKind
                            /\ c.exception = "NoMatchingRecipientError" =>
                                 ~Addressed(c) /\ ~ofItsKind
                            /\ c.pc = "returned" => Addressed(c)
      BY DEF BlameFits
    <2> DEFINE c       == call[t]
               given   == c.given
               file    == given.held.file
               msg     == file.ciphertext.msg
               to      == Recipients(given.held.by[1].args)
               lim     == given.limits
               key     == KeyOf(given.args)
               v       == UnpackToMemory(Reading(msg, lim))
    <2>1. WellFormed(file) /\ lim \in {DefaultLimits} \cup {ToCore(l) : l \in LimitValues}
      BY HonestCall
    <2>2. PICK e \in DecryptErrors(file, key, lim) :
            /\ c = Result(given, lim, e)
            /\ \/ e = "none" /\ Addressed(c)
               \/ e = "LimitExceeded"
               \/ e = "InvalidKeyMaterial" /\ ~Addressed(c)
               \/ e = "HeaderHmacMismatch" /\ ~Addressed(c) /\ OfItsKind(to, key)
               \/ e = "NoMatchingRecipient" /\ ~Addressed(c) /\ ~OfItsKind(to, key)
      BY HonestCall
    <2>3. OfItsKind(to, key) <=>
            key.scheme # "SC01" /\ \E i \in DOMAIN to : to[i].scheme = key.scheme
      BY DEF OfItsKind
    <2> HIDE DEF c, key, to
    <2>4. /\ e # "none" => c.pc = "raised" /\ c.exception = ToPyErr(e)
          /\ e = "none" /\ v # "none" => c.pc = "raised" /\ c.exception = ToPyErr(v)
          /\ e = "none" /\ v = "none" => c.pc = "returned" /\ c.exception = "none"
      BY <2>2, ResultIs
    <2> HIDE DEF lim, given, file
    <2>5. v \in {"LimitExceeded", "UnsafeArchiveEntry", "none"}
      <3>1. /\ lim.max_compression_ratio \in Nat /\ lim.max_uncompressed_bytes \in Nat
            /\ lim.max_entries \in Nat
        BY <2>1, LimitsAre
      <3>2. /\ IsSeq(msg.archive) /\ msg.compressed \in Nat
            /\ \A i \in DOMAIN msg.archive : msg.archive[i].size \in Nat
        BY <2>1 DEF WellFormed
      <3> HIDE DEF msg
      <3> QED
        BY <3>1, <3>2, MemoryVerdict
    <2> HIDE DEF v
    <2>6. /\ ToPyErr("LimitExceeded") = "LimitExceededError"
          /\ ToPyErr("UnsafeArchiveEntry") = "UnsafeArchiveError"
          /\ ToPyErr("InvalidKeyMaterial") = "UmbrikError"
          /\ ToPyErr("HeaderHmacMismatch") = "WrongKeyError"
          /\ ToPyErr("NoMatchingRecipient") = "NoMatchingRecipientError"
      BY DEF ToPyErr
    <2>7. /\ c.exception \notin {"ContainerError", "AuthenticationError",
                                 "UnsupportedSchemeError"}
          /\ c.exception = "WrongKeyError" => ~Addressed(c) /\ OfItsKind(to, key)
          /\ c.exception = "NoMatchingRecipientError" => ~Addressed(c) /\ ~OfItsKind(to, key)
          /\ c.pc = "returned" => Addressed(c)
      BY <2>2, <2>4, <2>5, <2>6
    <2> QED
      BY <2>3, <2>7 DEF c, key, to, given
  <1> QED
    BY <1>1, Invariance, PTL

\* A name is spelled out the same way under limits that agree on absolute paths.
LEMMA SameNames ==
  ASSUME NEW lim, NEW other, lim.allow_absolute_paths = other.allow_absolute_paths
  PROVE  /\ \A name : SafeRelativePath(name, lim) = SafeRelativePath(name, other)
         /\ \A archive : Unpacked(archive, lim) = Unpacked(archive, other)
  <1>1. ASSUME NEW name PROVE SafeRelativePath(name, lim) = SafeRelativePath(name, other)
    BY DEF SafeRelativePath
  <1>2. ASSUME NEW archive PROVE Unpacked(archive, lim) = Unpacked(archive, other)
    <2>1. \A w : w \in Unpacked(archive, lim) <=>
            \E i \in DOMAIN archive : /\ archive[i].type # "dir"
              /\ \E f \in SafeRelativePath(archive[i].name, lim) : w = <<f, archive[i].data>>
      BY DEF Unpacked
    <2>2. \A w : w \in Unpacked(archive, other) <=>
            \E i \in DOMAIN archive : /\ archive[i].type # "dir"
              /\ \E f \in SafeRelativePath(archive[i].name, other) : w = <<f, archive[i].data>>
      BY DEF Unpacked
    <2>3. \A w : w \in Unpacked(archive, lim) <=> w \in Unpacked(archive, other)
      BY <1>1, <2>1, <2>2
    <2> QED
      BY <2>3
  <1> QED
    BY <1>1, <1>2

\* unpack_to_memory on an archive of pack: all the files, or a limit, or two
\* spellings of one name.
LEMMA PackedUnpacks ==
  ASSUME NEW payload \in Dicts, PackError(payload) = "none",
         NEW lim \in {DefaultLimits} \cup {ToCore(l) : l \in LimitValues}
  PROVE  LET msg == Packed(payload)
             v   == UnpackToMemory(Reading(msg, lim))
         IN  \/ v = "LimitExceeded" /\ ~WithinUnpacking(msg, lim)
             \/ v = "UnsafeArchiveEntry" /\ NamesCollide(payload)
             \/ /\ v = "none"
                /\ Unpacked(msg.archive, lim) = Unpacked(msg.archive, DefaultLimits)
                /\ Cardinality(Unpacked(msg.archive, lim)) = Len(payload)
  <1> DEFINE msg == Packed(payload)
             ar  == msg.archive
             r   == Reading(msg, lim)
             v   == UnpackToMemory(r)
             N(i) == SafeRelativePath(payload[i].name, lim)
             Fine(k) == /\ CheckEntryType(ar[k].type, lim)
                        /\ CheckUnique(ar[k].name, SeenBefore(r, k), lim)
  <1>1. /\ lim.max_compression_ratio \in Nat /\ lim.max_uncompressed_bytes \in Nat
        /\ lim.max_entries \in Nat
        /\ lim.allow_absolute_paths = DefaultLimits.allow_absolute_paths
    BY LimitsAre
  <1>2. /\ IsSeq(ar) /\ msg.compressed \in Nat /\ DOMAIN ar = DOMAIN payload
        /\ \A i \in DOMAIN ar : /\ ar[i].size \in Nat /\ ar[i].type = "file"
                                /\ ar[i].name = payload[i].name
    BY PackedIs
  <1>3. Len(payload) \in Nat /\ DOMAIN payload = 1..Len(payload)
    BY DictsAssumption, IsSeqFacts
  <1>4. \A name : SafeRelativePath(name, lim) = SafeRelativePath(name, DefaultLimits)
    BY <1>1, SameNames
  <1>5. Unpacked(ar, lim) = Unpacked(ar, DefaultLimits)
    BY <1>1, SameNames
  <1>6. \A i \in DOMAIN payload : N(i) # {}
    <2>1. \A i \in DOMAIN payload : SafeRelativePath(payload[i].name, DefaultLimits) # {}
      BY DEF PackError
    <2> QED
      BY <1>4, <2>1
  <1>7. \A i, f, g : f \in N(i) /\ g \in N(i) => f = g
    BY OneName
  <1>8. \A i, j : N(i) = N(j) <=> SafeRelativePath(payload[i].name, DefaultLimits)
                                    = SafeRelativePath(payload[j].name, DefaultLimits)
    BY <1>4
  <1>9. ASSUME NEW k \in DOMAIN payload
        PROVE  Fine(k) <=> \E f \in N(k) : \A j \in 1..(k - 1) : f \notin N(j)
    <2>1. ar[k].type = "file" /\ ar[k].name = payload[k].name
      BY <1>2
    <2>2. \A j \in 1..(k - 1) : j \in DOMAIN payload
      BY <1>3
    <2>3. r.archive = ar /\ r.limits = lim
      BY DEF Reading
    <2>4. \A j \in 1..(k - 1) : ar[j].name = payload[j].name
      BY <1>2, <2>2
    <2> HIDE DEF ar, r
    <2>5. \A f : f \in SeenBefore(r, k) <=>
            \E j \in 1..(k - 1) : f \in SafeRelativePath(ar[j].name, lim)
      BY <2>3 DEF SeenBefore
    <2>6. \A f : f \in SeenBefore(r, k) <=> \E j \in 1..(k - 1) : f \in N(j)
      BY <2>4, <2>5
    <2>7. CheckEntryType(ar[k].type, lim)
      BY <2>1 DEF CheckEntryType
    <2> QED
      BY <2>1, <2>6, <2>7 DEF CheckUnique
  <1> HIDE DEF ar, r, v, N, Fine
  <1>10. \/ v = "LimitExceeded" /\ ~WithinUnpacking(msg, lim)
         \/ v = "UnsafeArchiveEntry" /\ \E k \in DOMAIN ar : ~Fine(k)
         \/ v = "none" /\ \A k \in DOMAIN ar : Fine(k)
    <2>1. /\ IsSeq(msg.archive) /\ msg.compressed \in Nat
          /\ \A i \in DOMAIN msg.archive : msg.archive[i].size \in Nat
      BY <1>2 DEF ar
    <2> HIDE DEF msg
    <2>2. \/ v = "LimitExceeded" /\ ~WithinUnpacking(msg, lim)
          \/ v = "UnsafeArchiveEntry" /\ \E k \in DOMAIN msg.archive : ~Fine(k)
          \/ v = "none" /\ \A k \in DOMAIN msg.archive : Fine(k)
      BY <1>1, <2>1, MemoryVerdict DEF v, r, Fine, ar
    <2> QED
      BY <2>2 DEF ar
  <1>11. ASSUME NEW k \in DOMAIN payload, ~Fine(k)
         PROVE  NamesCollide(payload)
    <2>1. PICK f \in N(k) : TRUE
      BY <1>6
    <2>2. PICK j \in 1..(k - 1) : f \in N(j)
      BY <1>9, <1>11
    <2>3. j \in DOMAIN payload /\ j # k
      BY <1>3
    <2>4. \A g : g \in N(j) <=> g \in N(k)
      BY <1>7, <2>1, <2>2
    <2>5. N(j) = N(k)
      BY <2>4
    <2> QED
      BY <1>8, <2>3, <2>5 DEF NamesCollide
  <1>12. ASSUME \A k \in DOMAIN payload : Fine(k)
         PROVE  Cardinality(Unpacked(ar, lim)) = Len(payload)
    <2> DEFINE K == Kept(ar)
    <2>1. K = 1..Len(payload)
      <3>1. \A i : i \in K <=> i \in DOMAIN ar /\ ar[i].type # "dir"
        BY DEF Kept
      <3>2. \A i : i \in K <=> i \in DOMAIN payload
        BY <1>2, <3>1
      <3> HIDE DEF K
      <3> QED
        BY <1>3, <3>2
    <2>2. IsFiniteSet(K) /\ Cardinality(K) = Len(payload)
      <3>1. IsFiniteSet(1..Len(payload))
            /\ Cardinality(1..Len(payload)) =
                 IF 1 > Len(payload) THEN 0 ELSE Len(payload) - 1 + 1
        BY <1>3, FS_Interval
      <3> HIDE DEF K
      <3> QED
        BY <1>3, <2>1, <3>1
    <2>3. ASSUME NEW i \in K, NEW j \in K, i # j PROVE N(i) \cap N(j) = {}
      <3> HIDE DEF K
      <3>1. i \in DOMAIN payload /\ j \in DOMAIN payload /\ i \in Nat /\ j \in Nat
            /\ i >= 1 /\ j >= 1
        BY <1>3, <2>1
      <3>2. CASE i < j
        <4>1. i \in 1..(j - 1)
          BY <3>1, <3>2
        <4>2. PICK f \in N(j) : \A l \in 1..(j - 1) : f \notin N(l)
          BY <1>9, <1>12, <3>1
        <4> QED
          BY <1>7, <4>1, <4>2
      <3>3. CASE j < i
        <4>1. j \in 1..(i - 1)
          BY <3>1, <3>3
        <4>2. PICK f \in N(i) : \A l \in 1..(i - 1) : f \notin N(l)
          BY <1>9, <1>12, <3>1
        <4> QED
          BY <1>7, <4>1, <4>2
      <3> QED
        BY <2>3, <3>1, <3>2, <3>3
    <2>4. \A i \in K : ar[i].name = payload[i].name /\ N(i) # {}
      BY <1>2, <1>3, <1>6, <2>1
    <2>5. \A i \in K : /\ SafeRelativePath(ar[i].name, lim) # {}
                       /\ \A j \in K : i # j =>
                            SafeRelativePath(ar[i].name, lim)
                              \cap SafeRelativePath(ar[j].name, lim) = {}
      BY <2>3, <2>4 DEF N
    <2> QED
      BY <2>2, <2>5, UnpackedSize
  <1>13. \/ v = "LimitExceeded" /\ ~WithinUnpacking(msg, lim)
         \/ v = "UnsafeArchiveEntry" /\ NamesCollide(payload)
         \/ v = "none" /\ Cardinality(Unpacked(ar, lim)) = Len(payload)
    BY <1>2, <1>10, <1>11, <1>12
  <1> QED
    BY <1>5, <1>13 DEF ar, v, r

\* What encrypt was given when it was called is what decrypt returns to each of
\* its recipients (lib.rs: build_files copies the dictionary before allow_threads;
\* to_core copies the limits), whatever happens while the GIL is released; what
\* stands in the way is a limit that the container exceeds, or two spellings of one
\* name, which pack lets through and unpack_to_memory does not.
THEOREM RoundTrips == Spec => []RoundTrip
  <1>1. IndInv => RoundTrip
    <2> SUFFICES ASSUME IndInv, NEW t \in Thread, Honest(call[t]), Addressed(call[t])
                 PROVE  LET c       == call[t]
                            payload == c.given.held.by[1].payload
                            fits    == /\ WithinOpening(c.given.held.file, c.given.limits)
                                       /\ WithinUnpacking(Packed(payload), c.given.limits)
                        IN  \/ /\ c.pc = "returned"
                               /\ c.files = Unpacked(Packed(payload).archive, DefaultLimits)
                               /\ Cardinality(c.files) = Len(payload)
                            \/ c.exception = "LimitExceededError" /\ ~fits
                            \/ c.exception = "UnsafeArchiveError" /\ NamesCollide(payload)
      BY DEF RoundTrip
    <2> DEFINE c       == call[t]
               given   == c.given
               file    == given.held.file
               msg     == file.ciphertext.msg
               payload == given.held.by[1].payload
               lim     == given.limits
               key     == KeyOf(given.args)
               v       == UnpackToMemory(Reading(msg, lim))
    <2>1. /\ payload \in Dicts /\ PackError(payload) = "none" /\ msg = Packed(payload)
          /\ WellFormed(file) /\ lim \in {DefaultLimits} \cup {ToCore(l) : l \in LimitValues}
          /\ key.scheme \in Supported
      BY HonestCall
    <2>2. PICK e \in DecryptErrors(file, key, lim) :
            c = Result(given, lim, e) /\ e \in {"none", "LimitExceeded"}
      BY HonestCall
    <2> HIDE DEF c, key
    <2>3. /\ e # "none" => c.pc = "raised" /\ c.exception = ToPyErr(e)
          /\ e = "none" /\ v # "none" => c.pc = "raised" /\ c.exception = ToPyErr(v)
          /\ e = "none" /\ v = "none" =>
               c.pc = "returned" /\ c.files = Unpacked(msg.archive, lim)
      BY <2>2, ResultIs
    <2> HIDE DEF lim, given, file, msg, payload
    <2>4. lim.max_recipients \in Nat /\ lim.max_total_kdf_iterations \in Nat
      BY <2>1, LimitsAre
    <2>5. e = "LimitExceeded" => ~WithinOpening(file, lim)
      BY <2>1, <2>2, <2>4, DecryptLimit
    <2>6. \/ v = "LimitExceeded" /\ ~WithinUnpacking(msg, lim)
          \/ v = "UnsafeArchiveEntry" /\ NamesCollide(payload)
          \/ /\ v = "none"
             /\ Unpacked(msg.archive, lim) = Unpacked(msg.archive, DefaultLimits)
             /\ Cardinality(Unpacked(msg.archive, lim)) = Len(payload)
      BY <2>1, PackedUnpacks
    <2> HIDE DEF v
    <2>7. /\ ToPyErr("LimitExceeded") = "LimitExceededError"
          /\ ToPyErr("UnsafeArchiveEntry") = "UnsafeArchiveError"
      BY DEF ToPyErr
    <2>8. \/ /\ c.pc = "returned"
             /\ c.files = Unpacked(msg.archive, DefaultLimits)
             /\ Cardinality(c.files) = Len(payload)
          \/ c.exception = "LimitExceededError"
               /\ (~WithinOpening(file, lim) \/ ~WithinUnpacking(msg, lim))
          \/ c.exception = "UnsafeArchiveError" /\ NamesCollide(payload)
      BY <2>2, <2>3, <2>5, <2>6, <2>7
    <2> QED
      BY <2>1, <2>8 DEF c, given, file, payload, lim
  <1> QED
    BY <1>1, Invariance, PTL
=============================================================================
