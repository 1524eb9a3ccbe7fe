-------------------------- MODULE EncryptionProofs ---------------------------
(* Theorems about Encryption, for any commands, directories and files.       *)
EXTENDS Encryption, ContainerProofs

-----------------------------------------------------------------------------
(* The elements of sequences.                                              *)

\* A sequence that is not empty is its first element and its tail.
LEMMA FirstAndTail ==
  ASSUME NEW s, IsSeq(s), s # <<>>
  PROVE  /\ 1 \in DOMAIN s /\ s[1] \in Elements(s)
         /\ IsSeq(Tail(s))
         /\ Elements(s) = {s[1]} \cup Elements(Tail(s))
  <1> DEFINE S == {s[i] : i \in DOMAIN s}
             t == Tail(s)
  <1>1. s \in Seq(S)
    BY DEF IsSeq
  <1> HIDE DEF S
  <1>2. /\ Len(s) \in Nat /\ DOMAIN s = 1..Len(s) /\ Len(s) > 0
        /\ t \in Seq(S) /\ Len(t) = Len(s) - 1 /\ DOMAIN t = 1..(Len(s) - 1)
        /\ \A i \in 1..(Len(s) - 1) : t[i] = s[i + 1]
    BY <1>1
  <1> HIDE DEF t
  <1>3. t = [i \in 1..(Len(s) - 1) |-> t[i]]
    BY <1>2
  <1>4. IsSeq(t)
    BY <1>2, <1>3, IsSeqIntro
  <1>5. ASSUME NEW i \in DOMAIN s, i # 1
        PROVE  \E j \in DOMAIN t : t[j] = s[i]
    <2>1. i - 1 \in 1..(Len(s) - 1) /\ (i - 1) + 1 = i
      BY <1>2, <1>5
    <2> QED
      BY <1>2, <2>1
  <1>6. ASSUME NEW j \in DOMAIN t
        PROVE  \E i \in DOMAIN s : s[i] = t[j]
    <2>1. j + 1 \in 1..Len(s)
      BY <1>2
    <2> QED
      BY <1>2, <2>1
  <1>7. 1 \in DOMAIN s
    BY <1>2
  <1> HIDE DEF t
  <1>8. Elements(s) = {s[1]} \cup Elements(t)
    BY <1>5, <1>6, <1>7 DEF Elements
  <1> QED
    BY <1>4, <1>7, <1>8 DEF Elements, t

\* One element more.
LEMMA Appended ==
  ASSUME NEW s, IsSeq(s), NEW x
  PROVE  IsSeq(Append(s, x)) /\ Elements(Append(s, x)) = Elements(s) \cup {x}
  <1> DEFINE S == {s[i] : i \in DOMAIN s}
             T == S \cup {x}
             t == Append(s, x)
  <1>1. s \in Seq(S)
    BY DEF IsSeq
  <1>2. s \in Seq(T) /\ x \in T
    BY <1>1
  <1> HIDE DEF S, T
  <1>3. /\ Len(s) \in Nat /\ DOMAIN s = 1..Len(s)
        /\ t \in Seq(T) /\ Len(t) = Len(s) + 1 /\ DOMAIN t = 1..(Len(s) + 1)
        /\ \A i \in 1..Len(s) : t[i] = s[i]
        /\ t[Len(s) + 1] = x
    BY <1>2
  <1> HIDE DEF t
  <1>4. t = [i \in 1..(Len(s) + 1) |-> t[i]]
    BY <1>3
  <1>5. IsSeq(t)
    BY <1>3, <1>4, IsSeqIntro
  <1>6. \A i \in DOMAIN t : i \in DOMAIN s \/ i = Len(s) + 1
    BY <1>3
  <1>7. DOMAIN s \subseteq DOMAIN t /\ Len(s) + 1 \in DOMAIN t
    BY <1>3
  <1>8. \A i \in DOMAIN s : t[i] = s[i]
    BY <1>3
  <1>9. Elements(t) = Elements(s) \cup {x}
    BY <1>3, <1>6, <1>7, <1>8 DEF Elements
  <1> QED
    BY <1>5, <1>9 DEF t

\* One sequence after another.
LEMMA Joined ==
  ASSUME NEW a, NEW b, IsSeq(a), IsSeq(b)
  PROVE  IsSeq(a \o b) /\ Elements(a \o b) = Elements(a) \cup Elements(b)
  <1> DEFINE c == a \o b
  <1>1. /\ Len(a) \in Nat /\ DOMAIN a = 1..Len(a)
        /\ Len(b) \in Nat /\ DOMAIN b = 1..Len(b)
    BY IsSeqFacts
  <1>2. /\ IsSeq(c) /\ DOMAIN c = 1..(Len(a) + Len(b))
        /\ \A i \in DOMAIN c :
             \/ i \in DOMAIN a /\ c[i] = a[i]
             \/ i - Len(a) \in DOMAIN b /\ i > Len(a) /\ c[i] = b[i - Len(a)]
    BY Concatenated
  <1> HIDE DEF c
  <1>3. ASSUME NEW i \in DOMAIN a
        PROVE  \E k \in DOMAIN c : c[k] = a[i]
    <2>1. i \in DOMAIN c /\ ~(i > Len(a))
      BY <1>1, <1>2
    <2> QED
      BY <1>2, <2>1
  <1>4. ASSUME NEW j \in DOMAIN b
        PROVE  \E k \in DOMAIN c : c[k] = b[j]
    <2>1. /\ j + Len(a) \in DOMAIN c /\ j + Len(a) \notin DOMAIN a
          /\ (j + Len(a)) - Len(a) = j
      BY <1>1, <1>2
    <2> QED
      BY <1>2, <2>1
  <1>5. Elements(c) = Elements(a) \cup Elements(b)
    BY <1>2, <1>3, <1>4 DEF Elements
  <1> QED
    BY <1>2, <1>5 DEF c

\* Another first element.
LEMMA FirstReplaced ==
  ASSUME NEW s, IsSeq(s), s # <<>>, NEW x
  PROVE  LET t == [s EXCEPT ![1] = x] IN
         IsSeq(t) /\ Elements(t) = {x} \cup Elements(Tail(s))
  <1> DEFINE t == [s EXCEPT ![1] = x]
             S == {s[i] : i \in DOMAIN s}
             T == S \cup {x}
             tail == Tail(s)
  <1>1. s \in Seq(S)
    BY DEF IsSeq
  <1> HIDE DEF S
  <1>2. /\ Len(s) \in Nat /\ DOMAIN s = 1..Len(s) /\ Len(s) > 0
        /\ tail \in Seq(S) /\ DOMAIN tail = 1..(Len(s) - 1)
        /\ \A i \in 1..(Len(s) - 1) : tail[i] = s[i + 1]
    BY <1>1
  <1>3. /\ DOMAIN t = 1..Len(s)
        /\ t[1] = x /\ \A i \in DOMAIN s : i # 1 => t[i] = s[i]
    BY <1>2
  <1>4. s \in [1..Len(s) -> T] /\ 1 \in 1..Len(s) /\ x \in T
    BY <1>1, <1>2
  <1>5. t \in [1..Len(s) -> T]
    <2> HIDE DEF T
    <2> QED
      BY <1>4
  <1> HIDE DEF t, tail
  <1>6. t = [i \in 1..Len(s) |-> t[i]]
    BY <1>5
  <1>7. IsSeq(t)
    BY <1>2, <1>3, <1>6, IsSeqIntro
  <1>8. ASSUME NEW i \in DOMAIN t, i # 1
        PROVE  \E j \in DOMAIN tail : tail[j] = t[i]
    <2>1. i - 1 \in 1..(Len(s) - 1) /\ (i - 1) + 1 = i
      BY <1>2, <1>3, <1>8
    <2> QED
      BY <1>2, <1>3, <1>8, <2>1
  <1>9. ASSUME NEW j \in DOMAIN tail
        PROVE  \E i \in DOMAIN t : t[i] = tail[j]
    <2>1. j + 1 \in 1..Len(s) /\ j + 1 # 1
      BY <1>2
    <2> QED
      BY <1>2, <1>3, <2>1
  <1>10. 1 \in DOMAIN t
    BY <1>2, <1>3
  <1>11. Elements(t) = {x} \cup Elements(tail)
    BY <1>3, <1>8, <1>9, <1>10 DEF Elements
  <1> QED
    BY <1>7, <1>11 DEF t, tail

-----------------------------------------------------------------------------
(* The inductive invariant.                                                *)

\* The options of one kind.
LEMMA OneKind ==
  ASSUME NEW kind, NEW specs, IsSeq(specs)
  PROVE  /\ IsSeq(Option(kind, specs))
         /\ \A o \in Elements(Option(kind, specs)) :
              o.kind = kind /\ o.spec \in Elements(specs)
  <1> DEFINE q == Option(kind, specs)
  <1>1. Len(specs) \in Nat /\ DOMAIN specs = 1..Len(specs)
    BY IsSeqFacts
  <1>2. q = [i \in 1..Len(specs) |-> [kind |-> kind, spec |-> specs[i]]]
    BY <1>1 DEF Option
  <1>3. DOMAIN q = 1..Len(specs) /\ q = [i \in 1..Len(specs) |-> q[i]]
    BY <1>2
  <1> HIDE DEF q
  <1>4. IsSeq(q)
    BY <1>1, <1>3, IsSeqIntro
  <1>5. \A i \in DOMAIN q : q[i].kind = kind /\ q[i].spec = specs[i] /\ i \in DOMAIN specs
    BY <1>1, <1>2, <1>3
  <1>6. \A o \in Elements(q) : o.kind = kind /\ o.spec \in Elements(specs)
    BY <1>5 DEF Elements
  <1> QED
    BY <1>4, <1>6 DEF q

\* All the options.
LEMMA OptionsAreGiven ==
  ASSUME NEW a \in Commands
  PROVE  IsSeq(Options(a)) /\ \A o \in Elements(Options(a)) : OptionGiven(o, a)
  <1> DEFINE p == Option("password", a.password)
             s == Option("secret", a.secrets)
             k == Option("pubkey", a.pubkeys)
             d == Option("id_code", a.id_codes)
             c == Option("cert", a.certs)
  <1>1. /\ IsSeq(a.password) /\ IsSeq(a.secrets) /\ IsSeq(a.pubkeys)
        /\ IsSeq(a.certs) /\ IsSeq(a.id_codes)
    BY CommandsAssumption
  <1>2. /\ IsSeq(p) /\ \A o \in Elements(p) : OptionGiven(o, a)
        /\ IsSeq(s) /\ \A o \in Elements(s) : OptionGiven(o, a)
        /\ IsSeq(k) /\ \A o \in Elements(k) : OptionGiven(o, a)
        /\ IsSeq(d) /\ \A o \in Elements(d) : OptionGiven(o, a)
        /\ IsSeq(c) /\ \A o \in Elements(c) : OptionGiven(o, a)
    BY <1>1, OneKind DEF OptionGiven
  <1>3. Options(a) = p \o s \o k \o d \o c
    BY DEF Options
  <1> HIDE DEF p, s, k, d, c
  <1>4. IsSeq(p \o s) /\ \A o \in Elements(p \o s) : OptionGiven(o, a)
    BY <1>2, Joined
  <1>5. IsSeq(p \o s \o k) /\ \A o \in Elements(p \o s \o k) : OptionGiven(o, a)
    BY <1>2, <1>4, Joined
  <1>6. IsSeq(p \o s \o k \o d) /\ \A o \in Elements(p \o s \o k \o d) : OptionGiven(o, a)
    BY <1>2, <1>5, Joined
  <1>7. IsSeq(p \o s \o k \o d \o c)
        /\ \A o \in Elements(p \o s \o k \o d \o c) : OptionGiven(o, a)
    BY <1>2, <1>6, Joined
  <1> QED
    BY <1>3, <1>7

\* The empty sequence.
LEMMA NoElements == IsSeq(<<>>) /\ Elements(<<>>) = {}
  BY DEF IsSeq, Elements

\* One element.
LEMMA OneElement ==
  ASSUME NEW x
  PROVE  IsSeq(<<x>>) /\ Elements(<<x>>) = {x}
  <1>1. <<x>> = [i \in 1..1 |-> x]
    OBVIOUS
  <1> DEFINE q == <<x>>
  <1>2. /\ DOMAIN q = 1..1 /\ q[1] = x /\ 1 \in 1..1
        /\ q = [i \in 1..1 |-> q[i]] /\ \A i \in 1..1 : i = 1
    BY <1>1
  <1> HIDE DEF q
  <1>3. IsSeq(q) /\ Elements(q) = {x}
    BY <1>2, IsSeqIntro DEF Elements
  <1> QED
    BY <1>3 DEF q

LEMMA InitInv == Init => Gathered
  <1> SUFFICES ASSUME Init PROVE Gathered
    OBVIOUS
  <1>1. /\ IsSeq(todo) /\ \A o \in Elements(todo) : OptionGiven(o, args)
    BY OptionsAreGiven DEF Init
  <1>2. Len(world) \in Nat
    BY WorldsAssumption, IsSeqFacts DEF Init
  <1>3. /\ IsSeq(recipients) /\ IsSeq(entries) /\ IsSeq(found.matches)
        /\ Elements(recipients) = {} /\ Elements(entries) = {}
    BY NoElements DEF Init, NothingFound
  <1>4. TypeOK
    <2>1. asked \in 0..Len(world)
      BY <1>2 DEF Init
    <2>2. any_succeeded \in BOOLEAN /\ answered = {}
      BY DEF Init
    <2>3. /\ args \in Commands /\ world \in Worlds /\ before \in {"absent", "old"}
          /\ pc = "options" /\ output = before /\ DOMAIN found = {"matches", "rejected"}
      BY DEF Init, NothingFound
    <2> QED
      BY <1>1, <1>3, <2>1, <2>2, <2>3 DEF TypeOK
  <1>5. Phases
    BY <1>1 DEF Init, Phases
  <1>6. NoCardLost
    BY DEF Init, NoCardLost, CardCertificates, EntriesFor
  <1>7. NothingMixedIn
    BY <1>3 DEF Init, NothingMixedIn
  <1>8. OutputKept /\ NotFoundOnlyIfAnswered
    BY DEF Init, OutputKept, NotFoundOnlyIfAnswered
  <1> QED
    BY <1>4, <1>5, <1>6, <1>7, <1>8 DEF Gathered

-----------------------------------------------------------------------------
(* The kinds of steps.                                                     *)

\* An option that is a recipient by itself is resolved.
Took(r) ==
  /\ pc = "options" /\ todo # <<>>
  /\ Resolved(<<r>>)
  /\ UNCHANGED <<given, lookup, contents, output, sealed>>
  /\ r.scheme \in Supported
  /\ r.scheme = "SC06" => todo[1].kind = "password"
  /\ r.scheme = "SC01" =>
       /\ r.key \in EcKey
       /\ \/ \E p \in Elements(args.pubkeys) : p.spki = r.key
          \/ \E c \in Elements(args.certs) :
               c.spki = r.key /\ ValidityAccepted(c, args.allow_expired)

\* The command is refused, before File::create or after it.
RefusedWith(e) ==
  /\ Refuse(e)
  /\ UNCHANGED <<given, lookup, contents, output, sealed>>
  /\ \/ /\ pc \in {"options", "lookup", "select", "create"}
        /\ e \in {"unusable", "nothing returned"} => pc = "select"
     \/ e \in {"encrypt", "write"}

\* The other steps.
StartLookup ==
  /\ pc = "options" /\ todo # <<>> /\ todo[1].kind = "id_code" /\ spec # BadIdCode
  /\ pc' = "lookup"
  /\ asked' = 0 /\ entries' = <<>> /\ any_succeeded' = FALSE
  /\ UNCHANGED <<given, todo, recipients, error, found, answered, contents, output, sealed>>

StartSelection ==
  /\ pc = "lookup" /\ any_succeeded
  /\ Select(NothingFound)
  /\ UNCHANGED <<given, asked, entries, any_succeeded, answered, contents, output, sealed>>

MatchesTaken ==
  /\ pc = "select" /\ entries = <<>>
  /\ \A i \in DOMAIN found.matches :
       ValidityAccepted(found.matches[i], args.allow_expired)
  /\ Resolved([i \in DOMAIN found.matches |-> To("SC01", spec, found.matches[i].spki)])
  /\ UNCHANGED <<given, lookup, contents, output, sealed>>

FilesRead ==
  /\ pc = "options"
  /\ contents' = Contents(output)
  /\ pc' = "create"
  /\ UNCHANGED <<given, lookup, output, sealed, todo, recipients, error>>

Created ==
  /\ pc = "create"
  /\ output' = "partial"
  /\ pc' = "encrypt"
  /\ UNCHANGED <<given, lookup, contents, sealed, todo, recipients, error>>

Written ==
  /\ pc = "encrypt" /\ EncryptError(recipients) = "none"
  /\ sealed' = <<Encrypted(recipients, 1, Packed)>>
  /\ output' = "complete"
  /\ pc' = "written"
  /\ UNCHANGED <<given, lookup, contents, todo, recipients, error>>

\* The public keys that SpkiError accepts are EC keys.
LEMMA Parsed ==
  ASSUME NEW k, SpkiError(k) = "none"
  PROVE  k \in EcKey
  BY DEF SpkiError

\* Every step is of one of these kinds.
LEMMA KindsOfStep ==
  ASSUME Gathered, [Next]_vars
  PROVE  \/ \E r : Took(r)
         \/ \E e : RefusedWith(e)
         \/ StartLookup \/ AskDirectory \/ StartSelection
         \/ RejectEntry \/ ConsiderCertificate \/ EndEntry \/ MatchesTaken
         \/ FilesRead \/ Created \/ Written
         \/ UNCHANGED vars
  <1>1. ASSUME todo # <<>>
        PROVE  OptionGiven(todo[1], args)
    BY <1>1, FirstAndTail DEF Gathered, TypeOK, Phases
  <1>2. CASE TakePassword
    <2>1. CASE Resolved(<<To("SC06", "password", Tail(spec))>>)
      <3> DEFINE r == To("SC06", "password", Tail(spec))
      <3>1. r.scheme = "SC06"
        BY DEF To
      <3> HIDE DEF r
      <3>2. Took(r)
        BY <1>2, <2>1, <3>1 DEF TakePassword, At, Took, Supported, r
      <3> QED
        BY <3>2
    <2>2. CASE Resolved(<<To("SC06", "password", args.entered)>>)
      <3> DEFINE r == To("SC06", "password", args.entered)
      <3>1. r.scheme = "SC06"
        BY DEF To
      <3> HIDE DEF r
      <3>2. Took(r)
        BY <1>2, <2>2, <3>1 DEF TakePassword, At, Took, Supported, r
      <3> QED
        BY <3>2
    <2>3. CASE Refuse("password")
      <3>1. RefusedWith("password")
        BY <1>2, <2>3 DEF TakePassword, At, RefusedWith
      <3> QED
        BY <3>1
    <2> QED
      BY <1>2, <2>1, <2>2, <2>3 DEF TakePassword
  <1>3. CASE TakeSecret
    <2>1. CASE Resolved(<<To("SC05", spec.label, spec.value)>>)
      <3> DEFINE r == To("SC05", spec.label, spec.value)
      <3>1. r.scheme = "SC05"
        BY DEF To
      <3> HIDE DEF r
      <3>2. Took(r)
        BY <1>3, <2>1, <3>1 DEF TakeSecret, At, Took, Supported, r
      <3> QED
        BY <3>2
    <2>2. CASE Refuse("secret")
      <3>1. RefusedWith("secret")
        BY <1>3, <2>2 DEF TakeSecret, At, RefusedWith
      <3> QED
        BY <3>1
    <2> QED
      BY <1>3, <2>1, <2>2 DEF TakeSecret
  <1>4. CASE TakePubkey
    <2>1. CASE SpkiError(spec.spki) = "none" /\ Resolved(<<To("SC01", spec.label, spec.spki)>>)
      <3> DEFINE r == To("SC01", spec.label, spec.spki)
      <3>1. r.scheme = "SC01" /\ r.key = spec.spki
        BY DEF To
      <3> HIDE DEF r
      <3>2. spec \in Elements(args.pubkeys)
        BY <1>1, <1>4 DEF TakePubkey, At, OptionGiven, spec
      <3>3. Took(r)
        BY <1>4, <2>1, <3>1, <3>2, Parsed DEF TakePubkey, At, Took, Supported, r
      <3> QED
        BY <3>3
    <2>2. CASE Refuse("pubkey")
      <3>1. RefusedWith("pubkey")
        BY <1>4, <2>2 DEF TakePubkey, At, RefusedWith
      <3> QED
        BY <3>1
    <2> QED
      BY <1>4, <2>1, <2>2 DEF TakePubkey
  <1>5. CASE TakeCert
    <2>1. CASE /\ SpkiError(spec.spki) = "none"
               /\ ValidityAccepted(spec, args.allow_expired)
               /\ Resolved(<<To("SC01", "cert", spec.spki)>>)
      <3> DEFINE r == To("SC01", "cert", spec.spki)
      <3>1. r.scheme = "SC01" /\ r.key = spec.spki
        BY DEF To
      <3> HIDE DEF r
      <3>2. spec \in Elements(args.certs)
        BY <1>1, <1>5 DEF TakeCert, At, OptionGiven, spec
      <3>3. Took(r)
        BY <1>5, <2>1, <3>1, <3>2, Parsed DEF TakeCert, At, Took, Supported, r
      <3> QED
        BY <3>3
    <2>2. CASE Refuse("cert") \/ Refuse("validity")
      <3>1. RefusedWith("cert") \/ RefusedWith("validity")
        BY <1>5, <2>2 DEF TakeCert, At, RefusedWith
      <3> QED
        BY <3>1
    <2> QED
      BY <1>5, <2>1, <2>2 DEF TakeCert
  <1>6. CASE TakeIdCode
    <2>1. CASE spec = BadIdCode
      <3>1. RefusedWith("id_code")
        BY <1>6, <2>1 DEF TakeIdCode, At, RefusedWith
      <3> QED
        BY <3>1
    <2>2. CASE spec # BadIdCode
      <3>1. StartLookup
        BY <1>6, <2>2 DEF TakeIdCode, At, StartLookup
      <3> QED
        BY <3>1
    <2> QED
      BY <2>1, <2>2
  <1>7. CASE EndLookup
    <2>1. CASE Refuse("transport") /\ UNCHANGED found
      <3>1. RefusedWith("transport")
        BY <1>7, <2>1 DEF EndLookup, RefusedWith, lookup
      <3> QED
        BY <3>1
    <2>2. CASE any_succeeded /\ Select(NothingFound)
      BY <1>7, <2>2 DEF EndLookup, StartSelection
    <2> QED
      BY <1>7, <2>1, <2>2 DEF EndLookup
  <1>8. CASE UseMatches
    <2>1. CASE \E e : Refuse(e) /\ e \in {"unusable", "nothing returned", "validity"}
      <3>1. PICK e : Refuse(e) /\ e \in {"unusable", "nothing returned", "validity"}
        BY <2>1
      <3>2. RefusedWith(e)
        BY <1>8, <3>1 DEF UseMatches, RefusedWith
      <3> QED
        BY <3>2
    <2>2. CASE /\ \A i \in DOMAIN found.matches :
                    ValidityAccepted(found.matches[i], args.allow_expired)
               /\ Resolved([i \in DOMAIN found.matches |->
                              To("SC01", spec, found.matches[i].spki)])
      BY <1>8, <2>2 DEF UseMatches, MatchesTaken
    <2> QED
      BY <1>8, <2>1, <2>2 DEF UseMatches
  <1>9. CASE CollectFiles
    <2>1. CASE \E e \in {"no recipients", "inputs"} : Refuse(e) /\ UNCHANGED contents
      <3>1. PICK e \in {"no recipients", "inputs"} : Refuse(e) /\ UNCHANGED contents
        BY <2>1
      <3>2. RefusedWith(e)
        BY <1>9, <3>1 DEF CollectFiles, RefusedWith
      <3> QED
        BY <3>2
    <2>2. CASE /\ contents' = Contents(output) /\ pc' = "create"
               /\ UNCHANGED <<todo, recipients, error>>
      BY <1>9, <2>2 DEF CollectFiles, FilesRead
    <2> QED
      BY <1>9, <2>1, <2>2 DEF CollectFiles, ReadInputs
  <1>10. CASE CreateOutput
    <2>1. CASE Refuse("create") /\ UNCHANGED output
      <3>1. RefusedWith("create")
        BY <1>10, <2>1 DEF CreateOutput, RefusedWith
      <3> QED
        BY <3>1
    <2>2. CASE /\ output' = "partial" /\ pc' = "encrypt"
               /\ UNCHANGED <<todo, recipients, error>>
      BY <1>10, <2>2 DEF CreateOutput, Created
    <2> QED
      BY <1>10, <2>1, <2>2 DEF CreateOutput
  <1>11. CASE EncryptFiles
    <2>1. CASE \E e \in {"encrypt", "write"} : Refuse(e) /\ UNCHANGED <<output, sealed>>
      <3>1. PICK e \in {"encrypt", "write"} : Refuse(e) /\ UNCHANGED <<output, sealed>>
        BY <2>1
      <3>2. RefusedWith(e)
        BY <1>11, <3>1 DEF EncryptFiles, RefusedWith
      <3> QED
        BY <3>2
    <2>2. CASE /\ EncryptError(recipients) = "none"
               /\ sealed' = <<Encrypted(recipients, 1, Packed)>> /\ output' = "complete"
               /\ pc' = "written" /\ UNCHANGED <<todo, recipients, error>>
      BY <1>11, <2>2 DEF EncryptFiles, Written
    <2> QED
      BY <1>11, <2>1, <2>2 DEF EncryptFiles
  <1>12. CASE Done
    BY <1>12 DEF Done
  <1> QED
    BY <1>2, <1>3, <1>4, <1>5, <1>6, <1>7, <1>8, <1>9, <1>10, <1>11, <1>12 DEF Next

-----------------------------------------------------------------------------
(* Each kind of step keeps the invariant.                                  *)

\* The cards that the directories have answered with stay the same where no
\* directory answers.
LEMMA SameCards ==
  ASSUME UNCHANGED <<given, answered>>
  PROVE  /\ IdCodes' = IdCodes
         /\ \A id : EntriesFor(id)' = EntriesFor(id)
         /\ \A id : CardCertificates(id)' = CardCertificates(id)
         /\ \A k : AskedFor(k)' <=> AskedFor(k)
  <1>1. UNCHANGED <<args, world, answered>>
    BY DEF given
  <1>2. IdCodes' = IdCodes
    BY <1>1 DEF IdCodes
  <1>3. \A id : EntriesFor(id)' = EntriesFor(id)
    BY <1>1 DEF EntriesFor
  <1>4. \A id : CardCertificates(id)' = CardCertificates(id)
    BY <1>3 DEF CardCertificates
  <1>5. ASSUME NEW k
        PROVE  AskedFor(k)' <=> AskedFor(k)
    BY <1>1, <1>2, <1>4 DEF AskedFor
  <1> QED
    BY <1>2, <1>3, <1>4, <1>5

LEMMA TookInv ==
  ASSUME Gathered, NEW r, Took(r)
  PROVE  Gathered'
  <1>1. /\ recipients' = recipients \o <<r>> /\ todo' = Tail(todo)
        /\ pc = "options" /\ pc' = "options"
        /\ UNCHANGED <<given, args, world, before, asked, entries, any_succeeded, found,
                       answered, contents, output, sealed, error>>
    BY DEF Took, Resolved, given, lookup
  <1>2. /\ IsSeq(todo) /\ todo # <<>> /\ IsSeq(recipients)
    BY DEF Gathered, TypeOK, Took
  <1>3. IsSeq(todo') /\ Elements(todo') \subseteq Elements(todo)
    BY <1>1, <1>2, FirstAndTail
  <1>4. IsSeq(recipients') /\ Elements(recipients') = Elements(recipients) \cup {r}
    BY <1>1, <1>2, OneElement, Joined
  <1>5. TypeOK'
    <2>1. \A q \in Elements(recipients') :
            q.scheme \in Supported /\ (q.scheme = "SC01" => q.key \in EcKey)
      BY <1>4 DEF Gathered, TypeOK, Took
    <2>2. IdCodes' = IdCodes
      BY <1>1, SameCards
    <2> QED
      BY <1>1, <1>3, <1>4, <2>1, <2>2 DEF Gathered, TypeOK
  <1>6. Phases'
    BY <1>1, <1>3 DEF Gathered, Phases
  <1>7. NoCardLost'
    <2> SUFFICES ASSUME NEW id \in IdCodes', NEW c \in CardCertificates(id)', c.spki \in EcKey
                 PROVE  \E q \in Elements(recipients') : q.scheme = "SC01" /\ q.key = c.spki
      BY DEF NoCardLost
    <2>1. id \in IdCodes /\ c \in CardCertificates(id)
      BY <1>1, SameCards
    <2>2. \E q \in Elements(recipients) : q.scheme = "SC01" /\ q.key = c.spki
      BY <1>1, <2>1 DEF Gathered, NoCardLost
    <2> QED
      BY <1>4, <2>2
  <1>8. NothingMixedIn'
    <2>1. r.scheme = "SC01" => AskedFor(r.key)
      BY DEF Took, AskedFor, ValidityAccepted
    <2>2. \A q \in Elements(recipients') : q.scheme = "SC01" => AskedFor(q.key)
      BY <1>4, <2>1 DEF Gathered, NothingMixedIn
    <2>3. \A q \in Elements(recipients') : q.scheme = "SC01" => AskedFor(q.key)'
      BY <1>1, <2>2, SameCards
    <2> QED
      BY <1>1, <2>3 DEF NothingMixedIn
  <1>9. OutputKept' /\ NotFoundOnlyIfAnswered'
    BY <1>1 DEF Gathered, Phases, OutputKept, NotFoundOnlyIfAnswered
  <1> QED
    BY <1>5, <1>6, <1>7, <1>8, <1>9 DEF Gathered

LEMMA RefusedInv ==
  ASSUME Gathered, NEW e, RefusedWith(e)
  PROVE  Gathered'
  <1>1. /\ pc' = "refused" /\ error' = e
        /\ UNCHANGED <<given, args, world, before, asked, entries, any_succeeded, found,
                       answered, contents, output, sealed, todo, recipients>>
    BY DEF RefusedWith, Refuse, given, lookup
  <1>2. TypeOK'
    <2>1. IdCodes' = IdCodes
      BY <1>1, SameCards
    <2> QED
      BY <1>1, <2>1 DEF Gathered, TypeOK
  <1>3. Phases'
    BY <1>1 DEF Gathered, Phases
  <1>4. NoCardLost'
    BY <1>1 DEF NoCardLost
  <1>5. NothingMixedIn'
    <2>1. \A q \in Elements(recipients') : q.scheme = "SC01" => AskedFor(q.key)'
      BY <1>1, SameCards DEF Gathered, NothingMixedIn
    <2> QED
      BY <1>1, <2>1 DEF NothingMixedIn
  <1>6. OutputKept'
    BY <1>1 DEF Gathered, Phases, OutputKept, RefusedWith
  <1>7. NotFoundOnlyIfAnswered'
    <2> SUFFICES ASSUME e \in {"unusable", "nothing returned"}
                 PROVE  \E d \in DOMAIN world : <<d, spec>> \in answered
      BY <1>1 DEF NotFoundOnlyIfAnswered, spec
    <2>1. pc = "select"
      BY DEF RefusedWith
    <2> QED
      BY <2>1 DEF Gathered, Phases
  <1> QED
    BY <1>2, <1>3, <1>4, <1>5, <1>6, <1>7 DEF Gathered

\* The person being looked up is one of the arguments.
LEMMA PersonGiven ==
  ASSUME Gathered, todo # <<>>, todo[1].kind = "id_code"
  PROVE  spec \in IdCodes
  <1>1. OptionGiven(todo[1], args)
    BY FirstAndTail DEF Gathered, TypeOK, Phases
  <1> QED
    BY <1>1 DEF OptionGiven, spec, IdCodes

LEMMA StartLookupInv ==
  ASSUME Gathered, StartLookup
  PROVE  Gathered'
  <1>1. /\ pc = "options" /\ pc' = "lookup" /\ asked' = 0 /\ entries' = <<>>
        /\ any_succeeded' = FALSE
        /\ todo # <<>> /\ todo[1].kind = "id_code" /\ spec # BadIdCode
        /\ UNCHANGED <<given, args, world, before, todo, recipients, error, found,
                       answered, contents, output, sealed>>
    BY DEF StartLookup, given
  <1>2. TypeOK'
    <2>1. IdCodes' = IdCodes /\ IsSeq(entries') /\ Elements(entries') = {}
      BY <1>1, SameCards, NoElements
    <2>2. asked' \in 0..Len(world)
      BY <1>1, WorldsAssumption, IsSeqFacts DEF Gathered, TypeOK
    <2>3. any_succeeded' \in BOOLEAN
      BY <1>1
    <2> QED
      BY <1>1, <2>1, <2>2, <2>3 DEF Gathered, TypeOK
  <1>3. Phases'
    BY <1>1 DEF Gathered, Phases, spec
  <1>4. NoCardLost'
    <2> SUFFICES ASSUME NEW id \in IdCodes', NEW c \in CardCertificates(id)', c.spki \in EcKey
                 PROVE  \E q \in Elements(recipients') : q.scheme = "SC01" /\ q.key = c.spki
      BY DEF NoCardLost
    <2>1. id \in IdCodes /\ c \in CardCertificates(id)
      BY <1>1, SameCards
    <2> QED
      BY <1>1, <2>1 DEF Gathered, NoCardLost
  <1>5. NothingMixedIn'
    <2>1. \A q \in Elements(recipients') : q.scheme = "SC01" => AskedFor(q.key)'
      BY <1>1, SameCards DEF Gathered, NothingMixedIn
    <2>2. Elements(entries') = {}
      BY <1>1, NoElements
    <2> QED
      BY <1>1, <2>1, <2>2 DEF NothingMixedIn
  <1>6. OutputKept' /\ NotFoundOnlyIfAnswered'
    BY <1>1 DEF Gathered, Phases, OutputKept, NotFoundOnlyIfAnswered
  <1> QED
    BY <1>2, <1>3, <1>4, <1>5, <1>6 DEF Gathered

\* A directory that answers adds cards, and takes none away.
LEMMA MoreCards ==
  ASSUME UNCHANGED given, answered \subseteq answered'
  PROVE  /\ IdCodes' = IdCodes
         /\ \A id : EntriesFor(id) \subseteq EntriesFor(id)'
         /\ \A id : CardCertificates(id) \subseteq CardCertificates(id)'
         /\ \A k : AskedFor(k) => AskedFor(k)'
  <1>1. UNCHANGED <<args, world>>
    BY DEF given
  <1>2. IdCodes' = IdCodes
    BY <1>1 DEF IdCodes
  <1>3. \A id : EntriesFor(id) \subseteq EntriesFor(id)'
    BY <1>1 DEF EntriesFor
  <1>4. \A id : CardCertificates(id) \subseteq CardCertificates(id)'
    BY <1>3 DEF CardCertificates
  <1>5. ASSUME NEW k, AskedFor(k)
        PROVE  AskedFor(k)'
    <2>1. CASE \E p \in Elements(args.pubkeys) : p.spki = k
      BY <1>1, <2>1 DEF AskedFor
    <2>2. CASE \E c \in (UNION {CardCertificates(id) : id \in IdCodes}) \cup Elements(args.certs) :
                 /\ c.spki = k
                 /\ args.allow_expired \/ Validity(c) \in {"Valid", "Unknown"}
      <3>1. PICK c \in (UNION {CardCertificates(id) : id \in IdCodes}) \cup Elements(args.certs) :
                 /\ c.spki = k
                 /\ args.allow_expired \/ Validity(c) \in {"Valid", "Unknown"}
        BY <2>2
      <3>2. c \in (UNION {CardCertificates(id)' : id \in IdCodes'}) \cup Elements(args'.certs)
        BY <1>1, <1>2, <1>4, <3>1
      <3> QED
        BY <1>1, <3>1, <3>2 DEF AskedFor
    <2> QED
      BY <1>5, <2>1, <2>2 DEF AskedFor
  <1> QED
    BY <1>2, <1>3, <1>4, <1>5

\* The entries that a directory returns are a list.
LEMMA EntriesAreLists ==
  ASSUME Gathered, pc = "lookup", NEW d \in DOMAIN world
  PROVE  /\ IsSeq(world[d][spec])
         /\ \A e \in Elements(world[d][spec]) : IsSeq(e.certificates)
  <1>1. spec \in IdCodes /\ spec # BadIdCode
    BY PersonGiven DEF Gathered, Phases
  <1>2. PICK i \in DOMAIN args.id_codes : args.id_codes[i] = spec
    BY <1>1 DEF IdCodes, Elements
  <1>3. world \in Worlds /\ args \in Commands
    BY DEF Gathered, TypeOK
  <1>4. LET there == world[d][args.id_codes[i]] IN
          IsSeq(there) /\ \A j \in DOMAIN there : IsSeq(there[j].certificates)
    BY <1>1, <1>2, <1>3, WorldsAssumption
  <1>5. IsSeq(world[d][spec]) /\ \A j \in DOMAIN world[d][spec] : IsSeq(world[d][spec][j].certificates)
    BY <1>2, <1>4
  <1> QED
    BY <1>5 DEF Elements

\* A directory answers.
LEMMA AnswerInv ==
  ASSUME Gathered, pc = "lookup", asked < Len(world), asked' = asked + 1,
         entries' = entries \o world[asked + 1][spec],
         any_succeeded' = TRUE,
         answered' = answered \cup {<<asked + 1, spec>>},
         UNCHANGED <<given, pc, todo, recipients, contents, found, output, sealed, error>>
  PROVE  Gathered'
  <1> DEFINE d == asked + 1
             more == world[d][spec]
  <1>1. UNCHANGED <<args, world, before>>
    BY DEF given
  <1>2. d \in DOMAIN world /\ d \in 0..Len(world)
    BY WorldsAssumption, IsSeqFacts DEF Gathered, TypeOK
  <1>3. IsSeq(more) /\ \A e \in Elements(more) : IsSeq(e.certificates)
    BY <1>2, EntriesAreLists
  <1>4. /\ todo # <<>> /\ todo[1].kind = "id_code" /\ spec # BadIdCode
        /\ spec \in IdCodes /\ spec' = spec
    BY PersonGiven DEF Gathered, Phases, spec
  <1>5. entries' = entries \o more /\ answered' = answered \cup {<<d, spec>>} /\ asked' = d
    OBVIOUS
  <1>6. IsSeq(entries') /\ Elements(entries') = Elements(entries) \cup Elements(more)
    BY <1>3, <1>5, Joined DEF Gathered, TypeOK
  <1>7. /\ IdCodes' = IdCodes
        /\ \A id : EntriesFor(id) \subseteq EntriesFor(id)'
        /\ \A k : AskedFor(k) => AskedFor(k)'
    BY <1>5, MoreCards
  <1>8. Elements(more) \subseteq EntriesFor(spec)'
    <2>1. <<d, spec'>> \in answered' /\ d \in DOMAIN world' /\ more = world'[d][spec']
      BY <1>1, <1>2, <1>4, <1>5
    <2> HIDE DEF d, more
    <2> QED
      BY <2>1 DEF EntriesFor
  <1> HIDE DEF d
  <1>9. \A id : \A e \in EntriesFor(id)' :
          e \in EntriesFor(id) \/ (id = spec /\ e \in Elements(more))
    <2> SUFFICES ASSUME NEW id, NEW e \in EntriesFor(id)'
                 PROVE  e \in EntriesFor(id) \/ (id = spec /\ e \in Elements(more))
      OBVIOUS
    <2>1. PICK b \in DOMAIN world : <<b, id>> \in answered' /\ e \in Elements(world[b][id])
      BY <1>1 DEF EntriesFor
    <2>2. CASE <<b, id>> \in answered
      BY <2>1, <2>2 DEF EntriesFor
    <2>3. CASE b = d /\ id = spec
      BY <2>1, <2>3
    <2> QED
      BY <1>5, <2>1, <2>2, <2>3
  <1> HIDE DEF more
  <1>10. TypeOK'
    <2>1. \A e \in Elements(entries') : IsSeq(e.certificates)
      BY <1>3, <1>6 DEF Gathered, TypeOK
    <2>2. answered' \subseteq (DOMAIN world) \X (IdCodes \ {BadIdCode})
      BY <1>2, <1>4, <1>5 DEF Gathered, TypeOK
    <2>3. any_succeeded' \in BOOLEAN
      OBVIOUS
    <2> QED
      BY <1>1, <1>2, <1>5, <1>6, <1>7, <2>1, <2>2, <2>3 DEF Gathered, TypeOK
  <1>11. Phases'
    <2>1. \E b \in DOMAIN world' : <<b, spec'>> \in answered'
      BY <1>1, <1>2, <1>4, <1>5
    <2> QED
      BY <1>1, <1>4, <2>1 DEF Gathered, Phases
  <1>12. NoCardLost'
    <2> SUFFICES ASSUME NEW id \in IdCodes', NEW c \in CardCertificates(id)', c.spki \in EcKey
                 PROVE  \/ \E q \in Elements(recipients) : q.scheme = "SC01" /\ q.key = c.spki
                        \/ id = spec /\ \E e \in Elements(entries') :
                             CardEntry(e) /\ c \in Elements(e.certificates)
      BY <1>4 DEF NoCardLost, Waiting
    <2>1. PICK e \in EntriesFor(id)' : CardEntry(e) /\ c \in Elements(e.certificates)
      BY DEF CardCertificates
    <2>2. CASE e \in EntriesFor(id)
      <3>1. c \in CardCertificates(id)
        BY <2>1, <2>2 DEF CardCertificates
      <3>2. \/ \E q \in Elements(recipients) : q.scheme = "SC01" /\ q.key = c.spki
            \/ id = spec /\ Waiting(c)
        BY <1>7, <3>1 DEF Gathered, NoCardLost
      <3> QED
        BY <1>6, <3>2 DEF Waiting
    <2>3. CASE id = spec /\ e \in Elements(more)
      BY <1>6, <2>1, <2>3
    <2> QED
      BY <1>9, <2>2, <2>3
  <1>13. NothingMixedIn'
    <2>1. \A q \in Elements(recipients') : q.scheme = "SC01" => AskedFor(q.key)'
      BY <1>7 DEF Gathered, NothingMixedIn
    <2>2. ASSUME NEW e \in Elements(entries')
          PROVE  \E f \in EntriesFor(spec)' :
                   e.dn = f.dn /\ Elements(e.certificates) \subseteq Elements(f.certificates)
      <3>1. CASE e \in Elements(entries)
        <4>1. PICK f \in EntriesFor(spec) :
                e.dn = f.dn /\ Elements(e.certificates) \subseteq Elements(f.certificates)
          BY <3>1 DEF Gathered, NothingMixedIn
        <4>2. EntriesFor(spec) \subseteq EntriesFor(spec)'
          BY <1>1, <1>4, <1>5 DEF EntriesFor
        <4> QED
          BY <4>1, <4>2
      <3>2. CASE e \in Elements(more)
        BY <1>8, <3>2
      <3> QED
        BY <1>6, <3>1, <3>2
    <2> QED
      BY <2>1, <2>2 DEF NothingMixedIn
  <1>14. OutputKept' /\ NotFoundOnlyIfAnswered'
    BY <1>1 DEF Gathered, Phases, OutputKept, NotFoundOnlyIfAnswered
  <1> QED
    BY <1>10, <1>11, <1>12, <1>13, <1>14 DEF Gathered

\* The person being looked up, and what is known of them, stay the same.
LEMMA SamePerson ==
  ASSUME UNCHANGED <<given, answered, todo>>
  PROVE  /\ spec' = spec
         /\ EntriesFor(spec)' = EntriesFor(spec)
         /\ CardCertificates(spec)' = CardCertificates(spec)
  <1>1. UNCHANGED <<world, answered>> /\ spec' = spec
    BY DEF given, spec
  <1>2. EntriesFor(spec)' = EntriesFor(spec)
    BY <1>1 DEF EntriesFor
  <1>3. CardCertificates(spec)' = CardCertificates(spec)
    BY <1>2 DEF CardCertificates
  <1> QED
    BY <1>1, <1>2, <1>3

\* A directory is asked.
LEMMA AskDirectoryInv ==
  ASSUME Gathered, AskDirectory
  PROVE  Gathered'
  <1>1. /\ pc = "lookup" /\ asked < Len(world) /\ asked' = asked + 1
        /\ UNCHANGED <<given, pc, todo, recipients, contents, found, output, sealed, error>>
    BY DEF AskDirectory
  <1>2. CASE /\ entries' = entries \o world[asked + 1][spec]
             /\ any_succeeded' = TRUE
             /\ answered' = answered \cup {<<asked + 1, spec>>}
    BY <1>1, <1>2, AnswerInv
  <1>3. CASE UNCHANGED <<entries, any_succeeded, answered>>
    <2>1. UNCHANGED <<args, world, before>> /\ pc' = "lookup"
      BY <1>1 DEF given
    <2>2. /\ IdCodes' = IdCodes /\ spec' = spec
          /\ EntriesFor(spec)' = EntriesFor(spec)
          /\ \A id : CardCertificates(id)' = CardCertificates(id)
          /\ \A k : AskedFor(k)' <=> AskedFor(k)
      BY <1>1, <1>3, SameCards, SamePerson
    <2>3. TypeOK'
      <3>1. asked' \in 0..Len(world)
        BY <1>1, WorldsAssumption, IsSeqFacts DEF Gathered, TypeOK
      <3> QED
        BY <1>1, <1>3, <2>1, <2>2, <3>1 DEF Gathered, TypeOK
    <2>4. Phases'
      BY <1>1, <1>3, <2>1, <2>2 DEF Gathered, Phases
    <2>5. NoCardLost'
      <3>1. \A c : Waiting(c)' <=> Waiting(c)
        BY <1>1, <1>3 DEF Waiting
      <3> QED
        BY <1>1, <2>2, <3>1 DEF Gathered, NoCardLost
    <2>6. NothingMixedIn'
      <3>1. NothingMixedIn
        BY DEF Gathered
      <3>2. /\ pc' = pc /\ entries' = entries /\ found' = found /\ recipients' = recipients
            /\ spec' = spec /\ EntriesFor(spec)' = EntriesFor(spec)
        BY <1>1, <1>3, <2>2
      <3>3. pc' \in {"lookup", "select"} =>
              \A e \in Elements(entries') : \E f \in EntriesFor(spec)' :
                e.dn = f.dn /\ Elements(e.certificates) \subseteq Elements(f.certificates)
        BY ONLY <3>1, <3>2 DEF NothingMixedIn
      <3>4. pc' # "select"
        BY <2>1
      <3>5. \A r \in Elements(recipients') : r.scheme = "SC01" => AskedFor(r.key)'
        BY ONLY <2>2, <3>1, <3>2 DEF NothingMixedIn
      <3> QED
        BY ONLY <3>3, <3>4, <3>5 DEF NothingMixedIn
    <2>7. OutputKept' /\ NotFoundOnlyIfAnswered'
      BY <1>1, <2>1 DEF Gathered, Phases, OutputKept, NotFoundOnlyIfAnswered
    <2> QED
      BY <2>3, <2>4, <2>5, <2>6, <2>7 DEF Gathered
  <1> QED
    BY <1>2, <1>3 DEF AskDirectory

\* Every directory has been asked, and some have answered.
LEMMA StartSelectionInv ==
  ASSUME Gathered, StartSelection
  PROVE  Gathered'
  <1>1. /\ pc = "lookup" /\ pc' = "select" /\ any_succeeded /\ found' = NothingFound
        /\ UNCHANGED <<given, args, world, before, todo, recipients, error, asked, entries,
                       any_succeeded, answered, contents, output, sealed>>
    BY DEF StartSelection, Select, given
  <1>2. /\ DOMAIN found' = {"matches", "rejected"} /\ IsSeq(found'.matches)
        /\ Elements(found'.matches) = {}
    BY <1>1, NoElements DEF NothingFound
  <1>3. /\ IdCodes' = IdCodes /\ spec' = spec
        /\ EntriesFor(spec)' = EntriesFor(spec)
        /\ \A id : CardCertificates(id)' = CardCertificates(id)
        /\ \A k : AskedFor(k)' <=> AskedFor(k)
    BY <1>1, SameCards, SamePerson
  <1>4. TypeOK'
    BY <1>1, <1>2, <1>3 DEF Gathered, TypeOK
  <1>5. Phases'
    BY <1>1, <1>3 DEF Gathered, Phases
  <1>6. NoCardLost'
    <2>1. \A c : Waiting(c) => Waiting(c)'
      BY <1>1 DEF Waiting
    <2> QED
      BY <1>1, <1>3, <2>1 DEF Gathered, NoCardLost
  <1>7. NothingMixedIn'
    BY <1>1, <1>2, <1>3 DEF Gathered, NothingMixedIn
  <1>8. OutputKept' /\ NotFoundOnlyIfAnswered'
    BY <1>1 DEF Gathered, Phases, OutputKept, NotFoundOnlyIfAnswered
  <1> QED
    BY <1>4, <1>5, <1>6, <1>7, <1>8 DEF Gathered

-----------------------------------------------------------------------------
(* Selection.                                                              *)

\* A step of the selection that goes on with less of the same entries, keeps
\* nothing but what is on a card, and drops no card.
LEMMA SelectionStepInv ==
  ASSUME Gathered, pc = "select", UNCHANGED selecting,
         IsSeq(entries'), IsSeq(found'.matches), DOMAIN found' = {"matches", "rejected"},
         \A e \in Elements(entries') : IsSeq(e.certificates) /\ \E f \in Elements(entries) :
           e.dn = f.dn /\ Elements(e.certificates) \subseteq Elements(f.certificates),
         \A m \in Elements(found'.matches) :
           \/ m \in Elements(found.matches)
           \/ m.spki \in EcKey /\ \E f \in Elements(entries) :
                CardEntry(f) /\ m \in Elements(f.certificates),
         \A c : c.spki \in EcKey /\ Waiting(c) => Waiting(c)'
  PROVE  Gathered'
  <1>1. /\ pc' = "select"
        /\ UNCHANGED <<given, args, world, before, todo, recipients, error, asked,
                       any_succeeded, answered, contents, output, sealed>>
    BY DEF selecting, given
  <1>2. /\ IdCodes' = IdCodes /\ spec' = spec
        /\ EntriesFor(spec)' = EntriesFor(spec)
        /\ \A id : CardCertificates(id)' = CardCertificates(id)
        /\ \A k : AskedFor(k)' <=> AskedFor(k)
    BY <1>1, SameCards, SamePerson
  <1>3. TypeOK'
    BY <1>1, <1>2 DEF Gathered, TypeOK
  <1>4. Phases'
    BY <1>1, <1>2 DEF Gathered, Phases
  <1>5. NoCardLost'
    BY <1>1, <1>2 DEF Gathered, NoCardLost
  <1>6. NothingMixedIn'
    <2>1. \A f \in Elements(entries) : \E g \in EntriesFor(spec) :
            f.dn = g.dn /\ Elements(f.certificates) \subseteq Elements(g.certificates)
      BY DEF Gathered, NothingMixedIn
    <2>2. ASSUME NEW e \in Elements(entries')
          PROVE  \E g \in EntriesFor(spec) :
                   e.dn = g.dn /\ Elements(e.certificates) \subseteq Elements(g.certificates)
      <3>1. PICK f \in Elements(entries) :
              e.dn = f.dn /\ Elements(e.certificates) \subseteq Elements(f.certificates)
        BY <2>2
      <3>2. PICK g \in EntriesFor(spec) :
              f.dn = g.dn /\ Elements(f.certificates) \subseteq Elements(g.certificates)
        BY <2>1, <3>1
      <3>3. e.dn = g.dn /\ Elements(e.certificates) \subseteq Elements(g.certificates)
        BY <3>1, <3>2
      <3> QED
        BY <3>3
    <2>3. ASSUME NEW m \in Elements(found'.matches)
          PROVE  m \in CardCertificates(spec) /\ m.spki \in EcKey
      <3>1. CASE m \in Elements(found.matches)
        BY <3>1 DEF Gathered, NothingMixedIn
      <3>2. CASE m.spki \in EcKey /\ \E f \in Elements(entries) :
                   CardEntry(f) /\ m \in Elements(f.certificates)
        <4>1. PICK f \in Elements(entries) : CardEntry(f) /\ m \in Elements(f.certificates)
          BY <3>2
        <4>2. PICK g \in EntriesFor(spec) :
                f.dn = g.dn /\ Elements(f.certificates) \subseteq Elements(g.certificates)
          BY <2>1, <4>1
        <4>3. CardEntry(g) /\ m \in Elements(g.certificates)
          BY <4>1, <4>2 DEF CardEntry
        <4> QED
          BY <3>2, <4>3 DEF CardCertificates
      <3> QED
        BY <2>3, <3>1, <3>2
    <2>4. \A r \in Elements(recipients') : r.scheme = "SC01" => AskedFor(r.key)'
      BY <1>1, <1>2 DEF Gathered, NothingMixedIn
    <2> QED
      BY <1>2, <2>2, <2>3, <2>4 DEF NothingMixedIn
  <1>7. OutputKept' /\ NotFoundOnlyIfAnswered'
    BY <1>1 DEF Gathered, Phases, OutputKept, NotFoundOnlyIfAnswered
  <1> QED
    BY <1>3, <1>4, <1>5, <1>6, <1>7 DEF Gathered

\* An entry is a card's if classify_dn has nothing against it.
LEMMA CardsAreClassified ==
  ASSUME NEW e
  PROVE  ClassifyDn(e.dn) = "none" <=> CardEntry(e)
  BY DEF ClassifyDn, CardEntry

\* What is left out leaves the matches alone.
LEMMA RejectKeeps ==
  ASSUME NEW f, DOMAIN f = {"matches", "rejected"}, NEW reason
  PROVE  /\ DOMAIN Reject(f, reason) = {"matches", "rejected"}
         /\ Reject(f, reason).matches = f.matches
  BY DEF Reject

\* A certificate is kept, or one with its key has been, or it has no EC key.
LEMMA ConsiderKeeps ==
  ASSUME NEW f, DOMAIN f = {"matches", "rejected"}, IsSeq(f.matches), NEW c
  PROVE  LET g == Consider(f, c) IN
         /\ DOMAIN g = {"matches", "rejected"} /\ IsSeq(g.matches)
         /\ Elements(f.matches) \subseteq Elements(g.matches)
         /\ \A m \in Elements(g.matches) :
              m \in Elements(f.matches) \/ (m = c /\ c.spki \in EcKey)
         /\ c.spki \in EcKey => \E m \in Elements(g.matches) : m.spki = c.spki
  <1>1. CASE SpkiError(c.spki) # "none"
    <2>1. \E reason : Consider(f, c) = Reject(f, reason)
      BY <1>1 DEF Consider
    <2>2. c.spki \notin EcKey
      BY <1>1 DEF SpkiError
    <2> QED
      BY <2>1, <2>2, RejectKeeps
  <1>2. CASE SpkiError(c.spki) = "none" /\ \E i \in DOMAIN f.matches : f.matches[i].spki = c.spki
    <2>1. Consider(f, c) = f
      BY <1>2 DEF Consider
    <2>2. \E m \in Elements(f.matches) : m.spki = c.spki
      BY <1>2 DEF Elements
    <2> QED
      BY <2>1, <2>2
  <1>3. CASE SpkiError(c.spki) = "none" /\ ~\E i \in DOMAIN f.matches : f.matches[i].spki = c.spki
    <2> DEFINE g == [f EXCEPT !.matches = Append(f.matches, c)]
    <2>1. Consider(f, c) = g
      BY <1>3 DEF Consider
    <2>2. DOMAIN g = {"matches", "rejected"} /\ g.matches = Append(f.matches, c)
      OBVIOUS
    <2> HIDE DEF g
    <2>3. IsSeq(g.matches) /\ Elements(g.matches) = Elements(f.matches) \cup {c}
      BY <2>2, Appended
    <2>4. c.spki \in EcKey
      BY <1>3, Parsed
    <2> QED
      BY <2>1, <2>2, <2>3, <2>4
  <1> QED
    BY <1>1, <1>2, <1>3

LEMMA RejectEntryInv ==
  ASSUME Gathered, RejectEntry
  PROVE  Gathered'
  <1>1. /\ pc = "select" /\ entries # <<>> /\ IsSeq(entries) /\ IsSeq(found.matches)
        /\ DOMAIN found = {"matches", "rejected"}
        /\ entries' = Tail(entries) /\ UNCHANGED selecting
        /\ ~CardEntry(entries[1])
    BY CardsAreClassified DEF RejectEntry, AtEntry, Gathered, TypeOK
  <1>2. DOMAIN found' = {"matches", "rejected"} /\ found'.matches = found.matches
    BY <1>1, RejectKeeps DEF RejectEntry
  <1>3. /\ IsSeq(entries')
        /\ Elements(entries) = {entries[1]} \cup Elements(entries')
    BY <1>1, FirstAndTail
  <1>4. \A c : Waiting(c) => Waiting(c)'
    BY <1>1, <1>2, <1>3 DEF Waiting, selecting
  <1>5. \A e \in Elements(entries') : IsSeq(e.certificates) /\ \E f \in Elements(entries) :
          e.dn = f.dn /\ Elements(e.certificates) \subseteq Elements(f.certificates)
    BY <1>3 DEF Gathered, TypeOK
  <1> QED
    BY <1>1, <1>2, <1>3, <1>4, <1>5, SelectionStepInv

LEMMA EndEntryInv ==
  ASSUME Gathered, EndEntry
  PROVE  Gathered'
  <1>1. /\ pc = "select" /\ entries # <<>> /\ IsSeq(entries) /\ IsSeq(found.matches)
        /\ DOMAIN found = {"matches", "rejected"}
        /\ entries' = Tail(entries) /\ UNCHANGED selecting /\ found' = found
        /\ entries[1].certificates = <<>>
    BY DEF EndEntry, AtEntry, Gathered, TypeOK
  <1>2. /\ IsSeq(entries')
        /\ Elements(entries) = {entries[1]} \cup Elements(entries')
    BY <1>1, FirstAndTail
  <1>3. Elements(entries[1].certificates) = {}
    BY <1>1, NoElements
  <1>4. \A c : Waiting(c) => Waiting(c)'
    BY <1>1, <1>2, <1>3 DEF Waiting, selecting
  <1>5. \A e \in Elements(entries') : IsSeq(e.certificates) /\ \E f \in Elements(entries) :
          e.dn = f.dn /\ Elements(e.certificates) \subseteq Elements(f.certificates)
    BY <1>2 DEF Gathered, TypeOK
  <1> QED
    BY <1>1, <1>2, <1>4, <1>5, SelectionStepInv

LEMMA ConsiderCertificateInv ==
  ASSUME Gathered, ConsiderCertificate
  PROVE  Gathered'
  <1> DEFINE first == entries[1]
             c == first.certificates[1]
             rest == [dn |-> first.dn, certificates |-> Tail(first.certificates)]
  <1>1. /\ pc = "select" /\ entries # <<>> /\ IsSeq(entries) /\ IsSeq(found.matches)
        /\ DOMAIN found = {"matches", "rejected"}
        /\ entries' = [entries EXCEPT ![1] = rest] /\ UNCHANGED selecting
        /\ found' = Consider(found, c)
        /\ first.certificates # <<>> /\ CardEntry(first)
    BY CardsAreClassified DEF ConsiderCertificate, AtEntry, Gathered, TypeOK
  <1>2. rest.dn = first.dn /\ rest.certificates = Tail(first.certificates)
    OBVIOUS
  <1>3. CardEntry(rest)
    BY <1>1, <1>2 DEF CardEntry
  <1> HIDE DEF rest
  <1>4. /\ IsSeq(entries') /\ Elements(entries') = {rest} \cup Elements(Tail(entries))
    BY <1>1, FirstReplaced
  <1>5. /\ Elements(entries) = {first} \cup Elements(Tail(entries)) /\ first \in Elements(entries)
    BY <1>1, FirstAndTail
  <1>6. IsSeq(first.certificates)
    BY <1>5 DEF Gathered, TypeOK
  <1> HIDE DEF first
  <1>7. /\ IsSeq(rest.certificates)
        /\ Elements(first.certificates) = {c} \cup Elements(rest.certificates)
    BY <1>1, <1>2, <1>6, FirstAndTail
  <1> HIDE DEF c
  <1>8. /\ DOMAIN found' = {"matches", "rejected"} /\ IsSeq(found'.matches)
        /\ Elements(found.matches) \subseteq Elements(found'.matches)
        /\ \A m \in Elements(found'.matches) :
             m \in Elements(found.matches) \/ (m = c /\ c.spki \in EcKey)
        /\ c.spki \in EcKey => \E m \in Elements(found'.matches) : m.spki = c.spki
    BY <1>1, ConsiderKeeps
  <1>9. ASSUME NEW b, b.spki \in EcKey, Waiting(b)
        PROVE  Waiting(b)'
    <2>1. pc' = "select"
      BY <1>1 DEF selecting
    <2>2. CASE \E m \in Elements(found.matches) : m.spki = b.spki
      BY <1>8, <2>1, <2>2 DEF Waiting
    <2>3. CASE \E e \in Elements(entries) : CardEntry(e) /\ b \in Elements(e.certificates)
      <3>1. PICK e \in Elements(entries) : CardEntry(e) /\ b \in Elements(e.certificates)
        BY <2>3
      <3>2. CASE e \in Elements(Tail(entries))
        BY <1>4, <3>1, <3>2 DEF Waiting
      <3>3. CASE e = first /\ b \in Elements(rest.certificates)
        BY <1>3, <1>4, <3>3 DEF Waiting
      <3>4. CASE b = c
        BY <1>8, <1>9, <2>1, <3>4 DEF Waiting
      <3> QED
        BY <1>5, <1>7, <3>1, <3>2, <3>3, <3>4
    <2> QED
      BY <1>9, <2>2, <2>3 DEF Waiting
  <1>10. ASSUME NEW e \in Elements(entries')
         PROVE  IsSeq(e.certificates) /\ \E f \in Elements(entries) :
                  e.dn = f.dn /\ Elements(e.certificates) \subseteq Elements(f.certificates)
    <2>1. CASE e = rest
      BY <1>2, <1>5, <1>7, <2>1
    <2>2. CASE e \in Elements(Tail(entries))
      BY <1>5, <2>2 DEF Gathered, TypeOK
    <2> QED
      BY <1>4, <2>1, <2>2
  <1>11. \A m \in Elements(found'.matches) :
           \/ m \in Elements(found.matches)
           \/ m.spki \in EcKey /\ \E f \in Elements(entries) :
                CardEntry(f) /\ m \in Elements(f.certificates)
    BY <1>1, <1>5, <1>7, <1>8
  <1> QED
    BY <1>1, <1>4, <1>8, <1>9, <1>10, <1>11, SelectionStepInv

\* Every certificate kept becomes a recipient.
LEMMA MatchesTakenInv ==
  ASSUME Gathered, MatchesTaken
  PROVE  Gathered'
  <1> DEFINE more == [i \in DOMAIN found.matches |-> To("SC01", spec, found.matches[i].spki)]
             n == Len(found.matches)
  <1>1. /\ pc = "select" /\ pc' = "options" /\ entries = <<>>
        /\ recipients' = recipients \o more /\ todo' = Tail(todo)
        /\ UNCHANGED <<given, args, world, before, asked, entries, any_succeeded, found,
                       answered, contents, output, sealed, error>>
        /\ \A i \in DOMAIN found.matches :
             args.allow_expired \/ Validity(found.matches[i]) \in {"Valid", "Unknown"}
    BY DEF MatchesTaken, Resolved, given, lookup, ValidityAccepted
  <1>2. n \in Nat /\ DOMAIN found.matches = 1..n
    BY IsSeqFacts DEF Gathered, TypeOK
  <1>3. DOMAIN more = 1..n /\ more = [i \in 1..n |-> more[i]]
    BY <1>2
  <1>4. \A i \in 1..n : more[i].scheme = "SC01" /\ more[i].key = found.matches[i].spki
    BY <1>2 DEF To
  <1> HIDE DEF more
  <1>5. IsSeq(more)
    BY <1>2, <1>3, IsSeqIntro
  <1>6. /\ \A r \in Elements(more) : r.scheme = "SC01"
        /\ \A r \in Elements(more) : \E i \in DOMAIN found.matches : r.key = found.matches[i].spki
        /\ \A m \in Elements(found.matches) : \E r \in Elements(more) : r.key = m.spki
    BY <1>2, <1>3, <1>4 DEF Elements
  <1>7. /\ IsSeq(recipients') /\ Elements(recipients') = Elements(recipients) \cup Elements(more)
    BY <1>1, <1>5, Joined DEF Gathered, TypeOK
  <1>8. IsSeq(todo') /\ Elements(todo') \subseteq Elements(todo)
    BY <1>1, FirstAndTail DEF Gathered, TypeOK, Phases
  <1>9. \A i \in DOMAIN found.matches :
          found.matches[i] \in CardCertificates(spec) /\ found.matches[i].spki \in EcKey
    BY <1>1 DEF Gathered, NothingMixedIn, Elements
  <1>10. TypeOK'
    <2>1. \A q \in Elements(recipients') :
            q.scheme \in Supported /\ (q.scheme = "SC01" => q.key \in EcKey)
      BY <1>6, <1>7, <1>9 DEF Gathered, TypeOK, Supported
    <2>2. IdCodes' = IdCodes
      BY <1>1, SameCards
    <2> QED
      BY <1>1, <1>7, <1>8, <2>1, <2>2 DEF Gathered, TypeOK
  <1>11. Phases'
    BY <1>1, <1>8 DEF Gathered, Phases
  <1>12. NoCardLost'
    <2> SUFFICES ASSUME NEW id \in IdCodes', NEW c \in CardCertificates(id)', c.spki \in EcKey
                 PROVE  \E q \in Elements(recipients') : q.scheme = "SC01" /\ q.key = c.spki
      BY DEF NoCardLost
    <2>1. id \in IdCodes /\ c \in CardCertificates(id)
      BY <1>1, SameCards
    <2>2. \/ \E q \in Elements(recipients) : q.scheme = "SC01" /\ q.key = c.spki
          \/ Waiting(c)
      BY <1>1, <2>1 DEF Gathered, NoCardLost
    <2>3. Elements(entries) = {}
      BY <1>1, NoElements
    <2> QED
      BY <1>6, <1>7, <2>2, <2>3 DEF Waiting
  <1>13. NothingMixedIn'
    <2>1. ASSUME NEW r \in Elements(more)
          PROVE  AskedFor(r.key)
      <3>1. PICK i \in DOMAIN found.matches : r.key = found.matches[i].spki
        BY <1>6
      <3>2. found.matches[i] \in UNION {CardCertificates(id) : id \in IdCodes}
        BY <1>1, <1>9, PersonGiven DEF Gathered, Phases
      <3> QED
        BY <1>1, <3>1, <3>2 DEF AskedFor
    <2>2. \A q \in Elements(recipients') : q.scheme = "SC01" => AskedFor(q.key)
      BY <1>7, <2>1 DEF Gathered, NothingMixedIn
    <2>3. \A q \in Elements(recipients') : q.scheme = "SC01" => AskedFor(q.key)'
      BY <1>1, <2>2, SameCards
    <2> QED
      BY <1>1, <2>3 DEF NothingMixedIn
  <1>14. OutputKept' /\ NotFoundOnlyIfAnswered'
    BY <1>1 DEF Gathered, Phases, OutputKept, NotFoundOnlyIfAnswered
  <1> QED
    BY <1>10, <1>11, <1>12, <1>13, <1>14 DEF Gathered

-----------------------------------------------------------------------------
(* Writing the container.                                                  *)

\* The steps after the options are resolved change nothing of what is known of
\* the recipients.
LEMMA LaterStepInv ==
  ASSUME Gathered, FilesRead \/ Created \/ Written
  PROVE  Gathered'
  <1>1. /\ pc \in {"options", "create", "encrypt"} /\ pc' \in {"create", "encrypt", "written"}
        /\ output' \in {output, "partial", "complete"}
        /\ UNCHANGED <<given, args, world, before, todo, recipients, error, asked, entries,
                       any_succeeded, found, answered>>
    BY DEF FilesRead, Created, Written, given, lookup
  <1>2. /\ IdCodes' = IdCodes
        /\ \A id : CardCertificates(id)' = CardCertificates(id)
        /\ \A k : AskedFor(k)' <=> AskedFor(k)
    BY <1>1, SameCards
  <1>3. TypeOK'
    BY <1>1, <1>2 DEF Gathered, TypeOK
  <1>4. Phases'
    <2>1. /\ \A o \in Elements(todo') : OptionGiven(o, args')
          /\ error' = "none"
      BY <1>1 DEF Gathered, Phases
    <2>2. contents' = Contents(before)'
      <3>1. CASE FilesRead
        BY <1>1, <3>1 DEF FilesRead, Gathered, Phases, Contents
      <3>2. CASE Created \/ Written
        BY <1>1, <3>2 DEF Created, Written, Gathered, Phases, Contents
      <3> QED
        BY <3>1, <3>2
    <2>3. pc' = "create" => output' = before'
      BY <1>1 DEF FilesRead, Created, Written, Gathered, Phases
    <2>4. pc' = "written" => /\ sealed' = <<Encrypted(recipients', 1, Packed')>>
                             /\ EncryptError(recipients') = "none"
      BY <1>1 DEF FilesRead, Created, Written, Packed
    <2> QED
      BY <1>1, <2>1, <2>2, <2>3, <2>4 DEF Phases
  <1>5. NoCardLost'
    BY <1>1, <1>2 DEF Gathered, NoCardLost
  <1>6. NothingMixedIn'
    <2>1. \A r \in Elements(recipients') : r.scheme = "SC01" => AskedFor(r.key)'
      BY <1>1, <1>2 DEF Gathered, NothingMixedIn
    <2> QED
      BY <1>1, <2>1 DEF NothingMixedIn
  <1>7. OutputKept' /\ NotFoundOnlyIfAnswered'
    BY <1>1 DEF Gathered, Phases, OutputKept, NotFoundOnlyIfAnswered
  <1> QED
    BY <1>3, <1>4, <1>5, <1>6, <1>7 DEF Gathered

LEMMA StutterInv ==
  ASSUME Gathered, UNCHANGED vars
  PROVE  Gathered'
  <1>1. UNCHANGED <<given, args, world, before, pc, todo, recipients, contents, asked, entries,
                    any_succeeded, found, output, sealed, error, answered>>
    BY DEF vars, given
  <1>2. /\ IdCodes' = IdCodes /\ spec' = spec
        /\ EntriesFor(spec)' = EntriesFor(spec)
        /\ \A id : CardCertificates(id)' = CardCertificates(id)
        /\ CardCertificates(spec)' = CardCertificates(spec)
        /\ \A k : AskedFor(k)' <=> AskedFor(k)
    BY <1>1, SameCards, SamePerson
  <1>3. TypeOK'
    BY <1>1, <1>2 DEF Gathered, TypeOK
  <1>4. Phases'
    BY <1>1, <1>2 DEF Gathered, Phases, Contents, Packed
  <1>5. NoCardLost'
    BY <1>1, <1>2 DEF Gathered, NoCardLost, Waiting
  <1>6. NothingMixedIn'
    BY <1>1, <1>2 DEF Gathered, NothingMixedIn
  <1>7. OutputKept' /\ NotFoundOnlyIfAnswered'
    BY <1>1, <1>2 DEF Gathered, OutputKept, NotFoundOnlyIfAnswered
  <1> QED
    BY <1>3, <1>4, <1>5, <1>6, <1>7 DEF Gathered

\* Every step keeps what is gathered: the options become recipients, a lookup
\* merges what the directories say, selection goes through it, and then the
\* container is made.
LEMMA GatheredStep == Gathered /\ [Next]_vars => Gathered'
  <1> SUFFICES ASSUME Gathered, [Next]_vars PROVE Gathered'
    OBVIOUS
  <1>1. ASSUME NEW r, Took(r) PROVE Gathered'
    BY <1>1, TookInv
  <1>2. ASSUME NEW e, RefusedWith(e) PROVE Gathered'
    BY <1>2, RefusedInv
  <1>3. CASE StartLookup
    BY <1>3, StartLookupInv
  <1>4. CASE AskDirectory
    BY <1>4, AskDirectoryInv
  <1>5. CASE StartSelection
    BY <1>5, StartSelectionInv
  <1>6. CASE RejectEntry
    BY <1>6, RejectEntryInv
  <1>7. CASE ConsiderCertificate
    BY <1>7, ConsiderCertificateInv
  <1>8. CASE EndEntry
    BY <1>8, EndEntryInv
  <1>9. CASE MatchesTaken
    BY <1>9, MatchesTakenInv
  <1>10. CASE FilesRead \/ Created \/ Written
    BY <1>10, LaterStepInv
  <1>11. CASE UNCHANGED vars
    BY <1>11, StutterInv
  <1> QED
    BY <1>1, <1>2, <1>3, <1>4, <1>5, <1>6, <1>7, <1>8, <1>9, <1>10, <1>11, KindsOfStep

-----------------------------------------------------------------------------
(* The password comes first.                                               *)

\* Of these options only the first may be a password.
OnlyFirst(q) == \A i \in DOMAIN q : q[i].kind = "password" => i = 1

\* Options of another kind may follow.
LEMMA OthersFollow ==
  ASSUME NEW q, NEW r, IsSeq(q), IsSeq(r), OnlyFirst(q),
         \A o \in Elements(r) : o.kind # "password"
  PROVE  IsSeq(q \o r) /\ OnlyFirst(q \o r)
  <1> DEFINE c == q \o r
  <1>1. /\ IsSeq(c)
        /\ \A i \in DOMAIN c : \/ i \in DOMAIN q /\ c[i] = q[i]
                               \/ i - Len(q) \in DOMAIN r /\ c[i] = r[i - Len(q)]
    BY Concatenated
  <1>2. \A j \in DOMAIN r : r[j].kind # "password"
    BY DEF Elements
  <1> HIDE DEF c
  <1>3. OnlyFirst(c)
    BY <1>1, <1>2 DEF OnlyFirst
  <1> QED
    BY <1>1, <1>3 DEF c

LEMMA PasswordFirstInit == Init => PasswordFirst
  <1> SUFFICES ASSUME Init PROVE PasswordFirst
    OBVIOUS
  <1> DEFINE p == Option("password", args.password)
             s == Option("secret", args.secrets)
             k == Option("pubkey", args.pubkeys)
             d == Option("id_code", args.id_codes)
             c == Option("cert", args.certs)
  <1>1. /\ IsSeq(args.password) /\ IsSeq(args.secrets) /\ IsSeq(args.pubkeys)
        /\ IsSeq(args.certs) /\ IsSeq(args.id_codes) /\ Len(args.password) <= 1
    BY CommandsAssumption DEF Init
  <1>2. /\ IsSeq(p) /\ IsSeq(s) /\ IsSeq(k) /\ IsSeq(d) /\ IsSeq(c)
        /\ \A o \in Elements(s) : o.kind # "password"
        /\ \A o \in Elements(k) : o.kind # "password"
        /\ \A o \in Elements(d) : o.kind # "password"
        /\ \A o \in Elements(c) : o.kind # "password"
    BY <1>1, OneKind
  <1>3. OnlyFirst(p)
    <2>1. DOMAIN p = 1..Len(args.password) /\ Len(args.password) \in Nat
      BY <1>1, IsSeqFacts DEF Option
    <2> HIDE DEF p
    <2> QED
      BY <1>1, <2>1 DEF OnlyFirst
  <1>4. todo = p \o s \o k \o d \o c /\ recipients = <<>>
    BY DEF Init, Options
  <1> HIDE DEF p, s, k, d, c
  <1>5. IsSeq(p \o s) /\ OnlyFirst(p \o s)
    BY <1>2, <1>3, OthersFollow
  <1>6. IsSeq(p \o s \o k) /\ OnlyFirst(p \o s \o k)
    BY <1>2, <1>5, OthersFollow
  <1>7. IsSeq(p \o s \o k \o d) /\ OnlyFirst(p \o s \o k \o d)
    BY <1>2, <1>6, OthersFollow
  <1>8. OnlyFirst(p \o s \o k \o d \o c)
    BY <1>2, <1>7, OthersFollow
  <1> QED
    BY <1>4, <1>8 DEF PasswordFirst, OnlyFirst

\* Once an option is resolved no password is left.
LEMMA NoPasswordLeft ==
  ASSUME Gathered, PasswordFirst, todo # <<>>, todo' = Tail(todo)
  PROVE  \A i \in DOMAIN todo' : todo'[i].kind # "password"
  <1> DEFINE S == {todo[i] : i \in DOMAIN todo}
  <1>1. todo \in Seq(S)
    BY DEF Gathered, TypeOK, IsSeq
  <1> HIDE DEF S
  <1>2. /\ DOMAIN todo' = 1..(Len(todo) - 1) /\ DOMAIN todo = 1..Len(todo)
        /\ Len(todo) \in Nat /\ \A i \in 1..(Len(todo) - 1) : todo'[i] = todo[i + 1]
    BY <1>1
  <1> SUFFICES ASSUME NEW i \in DOMAIN todo' PROVE todo'[i].kind # "password"
    OBVIOUS
  <1>3. i + 1 \in DOMAIN todo /\ i + 1 # 1 /\ todo'[i] = todo[i + 1]
    BY <1>2
  <1> QED
    BY <1>3 DEF PasswordFirst

\* Recipients that are no passwords may follow.
LEMMA MoreRecipients ==
  ASSUME Gathered, PasswordFirst, todo # <<>>, todo' = Tail(todo), NEW more, IsSeq(more),
         recipients' = recipients \o more,
         \A i \in DOMAIN more : more[i].scheme = "SC06" => i = 1 /\ recipients = <<>>
  PROVE  PasswordFirst'
  <1>1. \A i \in DOMAIN todo' : todo'[i].kind # "password"
    BY NoPasswordLeft
  <1>2. IsSeq(recipients) /\ Len(recipients) \in Nat
    BY IsSeqFacts DEF Gathered, TypeOK
  <1>3. \A i \in DOMAIN (recipients \o more) :
          \/ i \in DOMAIN recipients /\ (recipients \o more)[i] = recipients[i]
          \/ /\ i - Len(recipients) \in DOMAIN more
             /\ (recipients \o more)[i] = more[i - Len(recipients)]
    BY <1>2, Concatenated
  <1>4. ASSUME NEW i \in DOMAIN recipients', recipients'[i].scheme = "SC06"
        PROVE  i = 1
    <2>1. CASE i \in DOMAIN recipients /\ recipients'[i] = recipients[i]
      BY <1>4, <2>1 DEF PasswordFirst
    <2>2. CASE /\ i - Len(recipients) \in DOMAIN more
               /\ recipients'[i] = more[i - Len(recipients)]
      <3>1. i - Len(recipients) = 1 /\ recipients = <<>>
        BY <1>4, <2>2
      <3>2. Len(recipients) = 0
        BY <3>1
      <3>3. i \in Nat
        BY <1>2, Concatenated, IsSeqFacts
      <3> QED
        BY <3>1, <3>2, <3>3
    <2> QED
      BY <1>3, <2>1, <2>2
  <1> QED
    BY <1>1, <1>4 DEF PasswordFirst

LEMMA PasswordFirstStep == Gathered /\ PasswordFirst /\ [Next]_vars => PasswordFirst'
  <1> SUFFICES ASSUME Gathered, PasswordFirst, [Next]_vars PROVE PasswordFirst'
    OBVIOUS
  <1>1. ASSUME NEW r, Took(r) PROVE PasswordFirst'
    <2>1. /\ todo # <<>> /\ todo' = Tail(todo) /\ recipients' = recipients \o <<r>>
          /\ r.scheme = "SC06" => todo[1].kind = "password"
      BY <1>1 DEF Took, Resolved
    <2>2. 1 \in DOMAIN todo
      BY <2>1, FirstAndTail DEF Gathered, TypeOK
    <2>3. r.scheme = "SC06" => recipients = <<>>
      BY <2>1, <2>2 DEF PasswordFirst
    <2>4. IsSeq(<<r>>)
      BY OneElement
    <2>5. \A i \in DOMAIN <<r>> : i = 1 /\ <<r>>[i] = r
      OBVIOUS
    <2> QED
      BY <2>1, <2>3, <2>4, <2>5, MoreRecipients
  <1>2. CASE MatchesTaken
    <2> DEFINE more == [i \in DOMAIN found.matches |-> To("SC01", spec, found.matches[i].spki)]
    <2>1. /\ todo # <<>> /\ todo' = Tail(todo) /\ recipients' = recipients \o more
      BY <1>2 DEF MatchesTaken, Resolved, Gathered, Phases
    <2>2. /\ Len(found.matches) \in Nat /\ DOMAIN more = 1..Len(found.matches)
          /\ more = [i \in 1..Len(found.matches) |-> more[i]]
      BY IsSeqFacts DEF Gathered, TypeOK
    <2>3. \A i \in DOMAIN more : more[i].scheme = "SC01"
      BY DEF To
    <2> HIDE DEF more
    <2>4. IsSeq(more)
      BY <2>2, IsSeqIntro
    <2> QED
      BY <2>1, <2>3, <2>4, MoreRecipients
  <1>3. ASSUME UNCHANGED <<todo, recipients>> PROVE PasswordFirst'
    BY <1>3 DEF PasswordFirst
  <1>4. ASSUME NEW e, RefusedWith(e) PROVE PasswordFirst'
    BY <1>3, <1>4 DEF RefusedWith, Refuse
  <1>5. CASE StartLookup \/ AskDirectory \/ StartSelection
    BY <1>3, <1>5 DEF StartLookup, AskDirectory, StartSelection, Select
  <1>6. CASE RejectEntry \/ ConsiderCertificate \/ EndEntry
    BY <1>3, <1>6 DEF RejectEntry, ConsiderCertificate, EndEntry, selecting
  <1>7. CASE FilesRead \/ Created \/ Written
    BY <1>3, <1>7 DEF FilesRead, Created, Written
  <1>8. CASE UNCHANGED vars
    BY <1>3, <1>8 DEF vars
  <1> QED
    BY <1>1, <1>2, <1>4, <1>5, <1>6, <1>7, <1>8, KindsOfStep

\* IndInv is an invariant: what is gathered is kept, and a password comes first.
THEOREM Invariance == Spec => []IndInv
  <1>1. Init => IndInv
    BY InitInv, PasswordFirstInit DEF IndInv
  <1>2. IndInv /\ [Next]_vars => IndInv'
    BY GatheredStep, PasswordFirstStep DEF IndInv
  <1> QED
    BY <1>1, <1>2, PTL DEF Spec

-----------------------------------------------------------------------------
(* What follows.                                                           *)

\* The container of encrypt: a record per recipient, wrapping one FMK, which
\* alone opens it.
LEMMA EncryptedParts ==
  ASSUME NEW rs, NEW msg
  PROVE  LET f == Encrypted(rs, 1, msg) IN
         /\ f.header.recipients
              = [i \in DOMAIN rs |-> BuildRecipientRecord(rs[i], Fmk(1), 1 + 2 * i)]
         /\ \A fmk : Verify(f, fmk) <=> fmk = Fmk(1)
         /\ Authentic(f, Fmk(1))
         /\ f.ciphertext.msg = msg
  <1> DEFINE records == [i \in DOMAIN rs |-> BuildRecipientRecord(rs[i], Fmk(1), 1 + 2 * i)]
             f == Encrypted(rs, 1, msg)
             header == [recipients |-> records, payload_encryption_method |-> "CHACHA20POLY1305"]
             bytes == HeaderBytes(header, TRUE)
             hmac == HeaderHmac(Fmk(1), bytes)
  <1>1. f = [ written |-> Pieces, flaws |-> {}, header |-> header, hmac |-> hmac, nonce |-> 1 + 1,
              ciphertext |-> [cek |-> DeriveCek(Fmk(1)), nonce |-> 1 + 1,
                              aad |-> BuildAad(bytes, hmac), msg |-> msg] ]
    BY DEF Encrypted, Container
  <1>2. header.recipients = records
    OBVIOUS
  <1> HIDE DEF header, records
  <1>3. EnvelopeHeaderBytes(f) = bytes
    <2>1. f.flaws = {} /\ f.header = header
      BY <1>1
    <2>2. ("length_shifted" \notin f.flaws) = TRUE
      BY <2>1
    <2> HIDE DEF f
    <2> QED
      BY <2>1, <2>2 DEF EnvelopeHeaderBytes
  <1> HIDE DEF bytes
  <1>4. f.hmac = hmac /\ f.header = header /\ f.written = Pieces /\ f.nonce = 1 + 1
        /\ f.ciphertext = [cek |-> DeriveCek(Fmk(1)), nonce |-> 1 + 1,
                           aad |-> BuildAad(bytes, hmac), msg |-> msg]
    BY <1>1
  <1> HIDE DEF f
  <1>5. ASSUME NEW fmk
        PROVE  Verify(f, fmk) <=> fmk = Fmk(1)
    <2>1. Verify(f, fmk) <=> HeaderHmac(fmk, bytes) = hmac
      BY <1>3, <1>4 DEF Verify
    <2>2. HeaderHmac(fmk, bytes) = hmac <=> DeriveHhk(fmk) = DeriveHhk(Fmk(1))
      BY DEF HeaderHmac
    <2> QED
      BY <2>1, <2>2, HhkInjective
  <1> HIDE DEF hmac
  <1>6. Authentic(f, Fmk(1))
    BY <1>3, <1>4 DEF Authentic
  <1>7. f.header.recipients = records /\ f.ciphertext.msg = msg
    BY <1>2, <1>4
  <1> QED
    BY <1>5, <1>6, <1>7 DEF records, f

\* A key pair opens it just when it is a recipient's.
LEMMA WhoOpens ==
  ASSUME NEW rs, NEW msg, NEW k,
         \A i \in DOMAIN rs : rs[i].scheme \in Supported
  PROVE  Opens(Encrypted(rs, 1, msg), k)
           <=> \E i \in DOMAIN rs : rs[i].scheme = "SC01" /\ rs[i].key = k
  <1> DEFINE f == Encrypted(rs, 1, msg)
             key == [scheme |-> "SC01", holds |-> {k}]
             r(i) == BuildRecipientRecord(rs[i], Fmk(1), 1 + 2 * i)
  <1>1. /\ DOMAIN f.header.recipients = DOMAIN rs
        /\ \A i \in DOMAIN rs : f.header.recipients[i] = r(i)
        /\ \A fmk : Verify(f, fmk) <=> fmk = Fmk(1)
        /\ Authentic(f, Fmk(1))
    <2>1. /\ f.header.recipients = [i \in DOMAIN rs |-> r(i)]
          /\ \A fmk : Verify(f, fmk) <=> fmk = Fmk(1)
          /\ Authentic(f, Fmk(1))
      BY EncryptedParts
    <2> HIDE DEF f, r
    <2> QED
      BY <2>1
  <1>2. key.scheme = "SC01" /\ key.holds = {k}
    OBVIOUS
  <1>3. \A i \in DOMAIN rs : AddressedTo(r(i), rs[i], Fmk(1))
    BY FreshRecordAddressed
  <1>4. \A i \in DOMAIN rs : Candidate(r(i), key) <=> rs[i].scheme = "SC01" /\ rs[i].key = k
    <2> TAKE i \in DOMAIN rs
    <2>1. r(i).fmk_encryption_method = "XOR" /\ r(i).capsule = FreshCapsule(rs[i], 1 + 2 * i)
      BY DEF BuildRecipientRecord, Record
    <2>2. r(i).capsule.scheme = rs[i].scheme
      BY <1>3 DEF AddressedTo
    <2>3. rs[i].scheme = "SC01" =>
            /\ r(i).capsule.recipient_public_key = rs[i].key
            /\ r(i).capsule.curve = Curve[rs[i].key]
      BY <2>1 DEF FreshCapsule
    <2> HIDE DEF r, key
    <2> QED
      BY <1>2, <2>1, <2>2, <2>3 DEF Candidate, Matches
  <1>5. \A i \in DOMAIN rs : Candidate(r(i), key) => UnwrapXor(r(i), key) = Fmk(1)
    <2> HIDE DEF r, key
    <2> QED
      BY <1>2, <1>3, OwnerUnwraps
  <1>6. Opens(f, k) <=> \E i \in DOMAIN f.header.recipients :
          LET q == f.header.recipients[i] IN
          Candidate(q, key) /\ Verify(f, UnwrapXor(q, key)) /\ Authentic(f, UnwrapXor(q, key))
    BY DEF Opens
  <1> HIDE DEF f, key, r
  <1>7. Opens(f, k) <=> \E i \in DOMAIN rs : Candidate(r(i), key)
    BY <1>1, <1>5, <1>6
  <1> QED
    BY <1>4, <1>7 DEF f

\* What was written is the container of the recipients and the files as they were.
LEMMA WrittenIs ==
  ASSUME IndInv, pc = "written"
  PROVE  /\ sealed[1] = Encrypted(recipients, 1, Packed)
         /\ contents = Contents(before)
         /\ \A i \in DOMAIN recipients : recipients[i].scheme \in Supported
         /\ EncryptError(recipients) = "none" /\ IsSeq(recipients)
  BY DEF IndInv, Gathered, Phases, TypeOK, Elements

\* The variables of the command keep their types: every recipient is of a
\* supported scheme, and every answer is about a person asked for (run_encrypt).
THEOREM TypeCorrect == Spec => []TypeOK
  BY Invariance, PTL DEF IndInv, Gathered

\* No card that a directory answered with is lost on the way to the recipients
\* (lookup, select_certificates).
THEOREM CardsKept == Spec => []NoCardLost
  BY Invariance, PTL DEF IndInv, Gathered

\* Nothing is selected but cards of the person being looked up, and no public
\* key becomes a recipient but those asked for (classify_dn, run_encrypt).
THEOREM SelectionPure == Spec => []NothingMixedIn
  BY Invariance, PTL DEF IndInv, Gathered

\* A command refused before File::create leaves the old container alone.
THEOREM OldOutputKept == Spec => []OutputKept
  BY Invariance, PTL DEF IndInv, Gathered

\* Nobody is said to have no certificate unless a directory answered about them
\* (any_succeeded in lookup).
THEOREM NotFoundIsAnAnswer == Spec => []NotFoundOnlyIfAnswered
  BY Invariance, PTL DEF IndInv, Gathered

\* Every card that any directory answered with opens the container (run_encrypt,
\* container::encrypt).
THEOREM CardsOpen == Spec => []EveryCardOpens
  <1>1. IndInv => EveryCardOpens
    <2> SUFFICES ASSUME IndInv, pc = "written",
                        NEW id \in IdCodes, NEW c \in CardCertificates(id), c.spki \in EcKey
                 PROVE  Opens(sealed[1], c.spki)
      BY DEF EveryCardOpens
    <2>1. PICK r \in Elements(recipients) : r.scheme = "SC01" /\ r.key = c.spki
      BY DEF IndInv, Gathered, NoCardLost
    <2>2. PICK i \in DOMAIN recipients : recipients[i] = r
      BY <2>1 DEF Elements
    <2> QED
      BY <2>1, <2>2, WrittenIs, WhoOpens
  <1> QED
    BY <1>1, Invariance, PTL

\* No key pair opens the container but those asked for (container::encrypt).
THEOREM NobodyElseOpens == Spec => []OnlyAskedFor
  <1>1. IndInv => OnlyAskedFor
    <2> SUFFICES ASSUME IndInv, pc = "written", NEW k \in EcKey, Opens(sealed[1], k)
                 PROVE  AskedFor(k)
      BY DEF OnlyAskedFor
    <2>1. PICK i \in DOMAIN recipients : recipients[i].scheme = "SC01" /\ recipients[i].key = k
      BY WrittenIs, WhoOpens
    <2>2. recipients[i] \in Elements(recipients)
      BY DEF Elements
    <2> QED
      BY <2>1, <2>2 DEF IndInv, Gathered, NothingMixedIn
  <1> QED
    BY <1>1, Invariance, PTL

\* The container holds the files as they were before the command, even if one of
\* them is the output (collect_files before File::create).
THEOREM FilesAsTheyWere == Spec => []SealedHoldsInputs
  <1>1. IndInv => SealedHoldsInputs
    <2> SUFFICES ASSUME IndInv, pc = "written", NEW i \in DOMAIN args.inputs
                 PROVE  sealed[1].ciphertext.msg[i].data = Contents(before)[i]
      BY DEF SealedHoldsInputs
    <2>1. sealed[1].ciphertext.msg = Packed /\ contents = Contents(before)
      BY WrittenIs, EncryptedParts
    <2>2. Packed[i].data = contents[i]
      BY DEF Packed
    <2> QED
      BY <2>1, <2>2
  <1> QED
    BY <1>1, Invariance, PTL

\* The container of encrypt opens for the key of each of its recipients: the one
\* password costs the budget no more than one derivation, and comes first.
LEMMA OpensForEach ==
  ASSUME NEW rs, NEW msg, IsSeq(rs), NEW n \in DOMAIN rs,
         \A i \in DOMAIN rs : rs[i].scheme \in Supported,
         \A i \in DOMAIN rs : rs[i].scheme = "SC06" => i = 1,
         EncryptError(rs) = "none", Len(rs) <= DefaultLimits.max_recipients
  PROVE  DecryptErrors(Encrypted(rs, 1, msg),
                       [scheme |-> rs[n].scheme, holds |-> {rs[n].key}], DefaultLimits)
           = {"none"}
  <1> DEFINE key == [scheme |-> rs[n].scheme, holds |-> {rs[n].key}]
             Made(i) == BuildRecipientRecord(rs[i], Fmk(1), 1 + 2 * i)
             records == [i \in DOMAIN rs |-> Made(i)]
             file == Encrypted(rs, 1, msg)
             max == DefaultLimits.max_total_kdf_iterations
  <1>1. DOMAIN rs = 1..Len(rs) /\ Len(rs) \in Nat /\ n \in 1..Len(rs) /\ n \in Nat \ {0}
    BY IsSeqFacts
  <1>2. key.scheme = rs[n].scheme /\ key.holds = {rs[n].key} /\ key.scheme \in Supported
    OBVIOUS
  <1>3. /\ DOMAIN records = DOMAIN rs /\ records = [i \in 1..Len(rs) |-> records[i]]
        /\ \A i \in DOMAIN rs : records[i] = Made(i)
    BY <1>1
  <1>4. file = Container(records, "CHACHA20POLY1305", Fmk(1), 1 + 1, msg)
    BY DEF Encrypted
  <1> HIDE DEF key, records, file
  <1>5. IsSeq(records) /\ Len(records) = Len(rs) /\ records # <<>>
    <2>1. IsSeq(records)
      BY <1>1, <1>3, IsSeqIntro
    <2> QED
      BY <1>1, <1>3, <2>1, IsSeqFacts
  <1>6. /\ ParseError(file) = "none" /\ DecodeErrors(file) = {"none"}
        /\ \A x : Verify(file, x) <=> x = Fmk(1)
        /\ PayloadError(file, Fmk(1)) = "none"
        /\ file.header.recipients = records
    BY <1>4, <1>5, SealedFile
  <1>7. ASSUME NEW j \in DOMAIN rs
        PROVE  GoodRecord(records[j], rs[j], Fmk(1))
    <2>1. 1 + 2 * j \in Nat \ {0}
      BY <1>1
    <2>2. GoodRecord(BuildRecipientRecord(rs[j], Fmk(1), 1 + 2 * j), rs[j], Fmk(1))
      BY <2>1, FreshRecordGood
    <2>3. records[j] = BuildRecipientRecord(rs[j], Fmk(1), 1 + 2 * j)
      BY <1>3
    <2> QED
      BY <2>2, <2>3
  <1>8. Candidate(records[n], key)
    <2>1. GoodRecord(records[n], rs[n], Fmk(1))
      BY <1>7
    <2> QED
      BY <1>2, <2>1 DEF GoodRecord, AddressedTo, Candidate, Matches
  <1>9. ASSUME NEW j \in 1..n, Candidate(records[j], key)
        PROVE  /\ KdfCost(records[j], key) <= max - Spent(file, key, j)
               /\ max - Spent(file, key, j) \in Int
    <2>1. j \in DOMAIN rs /\ j \in DOMAIN file.header.recipients /\ j \in Nat
      BY <1>1, <1>3, <1>6
    <2>2. CASE key.scheme # "SC06"
      <3>1. \A i \in 1..j : Cost(file, key, i) = 0
        BY <2>2 DEF Cost, KdfCost
      <3>2. /\ Spent(file, key, j) \in Nat
            /\ Spent(file, key, j) + Cost(file, key, j) <= j * 0
        <4>1. \A i \in 1..j : Cost(file, key, i) \in Nat /\ Cost(file, key, i) <= 0
          BY <3>1
        <4>2. IsSeq(file.header.recipients) /\ 0 \in Nat
          BY <1>5, <1>6
        <4> HIDE DEF max
        <4> QED
          BY <2>1, <4>1, <4>2, SpentBound
      <3>3. Spent(file, key, j) = 0 /\ KdfCost(records[j], key) = 0
        <4>1. Cost(file, key, j) = 0 /\ j * 0 = 0
          BY <2>1, <3>1
        <4> QED
          BY <2>2, <3>2, <4>1 DEF KdfCost
      <3> QED
        BY <3>3, DefaultLimitsAssumption
    <2>3. CASE key.scheme = "SC06"
      <3>1. n = 1
        BY <1>2, <2>3
      <3> HIDE DEF max
      <3>2. j = 1
        BY <3>1
      <3>3. Spent(file, key, j) = 0
        BY <3>2, SpentFirst
      <3>4. KdfCost(records[j], key) = ITERATIONS
        <4>1. GoodRecord(records[j], rs[j], Fmk(1))
          BY <1>7, <2>1
        <4>2. rs[j].scheme = "SC06"
          BY <1>9, <2>3, <4>1 DEF Candidate, GoodRecord, AddressedTo
        <4> QED
          BY <2>3, <4>1, <4>2 DEF KdfCost, GoodRecord
      <3> QED
        BY <3>3, <3>4, DefaultLimitsAssumption, IterationsAssumption DEF max
    <2> QED
      BY <2>2, <2>3
  <1>10. key.scheme = "SC05" => ~(key.holds \subseteq ShortSecret)
    BY <1>2 DEF EncryptError, CannotAddress
  <1>11. \E i \in 1..n : /\ OpenHeader(file, key, DefaultLimits) = [error |-> "none", index |-> i]
                        /\ Verify(file, OpenedFmk(file, key, i))
    <2>1. \A j \in 1..n : Candidate(records[j], key) =>
            /\ GoodRecord(records[j], rs[j], Fmk(1))
            /\ KdfCost(records[j], key) <= max - Spent(file, key, j)
            /\ max - Spent(file, key, j) \in Int
      BY <1>1, <1>7, <1>9
    <2>2. n \in DOMAIN file.header.recipients
      BY <1>3, <1>6
    <2> QED
      BY <1>2, <1>5, <1>6, <1>8, <1>10, <2>1, <2>2, OpensFor, DefaultLimitsAssumption
  <1>12. DecryptErrors(file, key, DefaultLimits) = {"none"}
    BY <1>6, <1>11, OpensWhole
  <1> QED
    BY <1>12 DEF file, key

\* What was written for no more recipients than the default limits allow opens
\* for every one of them with nothing but its own key, wherever it is in the list
\* (encrypt, build_recipient_record; open_header, try_kek).
THEOREM EachRecipientOpens == Spec => []RecipientsOpen
  <1>1. IndInv => RecipientsOpen
    <2> SUFFICES ASSUME IndInv, pc = "written", NEW i \in DOMAIN recipients,
                        Len(recipients) <= DefaultLimits.max_recipients
                 PROVE  OwnKeyErrors(i) = {"none"}
      BY DEF RecipientsOpen
    <2>1. /\ sealed[1] = Encrypted(recipients, 1, Packed) /\ IsSeq(recipients)
          /\ \A j \in DOMAIN recipients : recipients[j].scheme \in Supported
          /\ \A j \in DOMAIN recipients : recipients[j].scheme = "SC06" => j = 1
          /\ EncryptError(recipients) = "none"
      BY WrittenIs DEF IndInv, PasswordFirst
    <2> QED
      BY <2>1, OpensForEach DEF OwnKeyErrors
  <1> QED
    BY <1>1, Invariance, PTL
=============================================================================
