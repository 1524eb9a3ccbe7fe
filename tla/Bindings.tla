------------------------------ MODULE Bindings -------------------------------
(***************************************************************************)
(* The Python bindings (bindings/python/src/lib.rs): threads of a Python   *)
(* program call encrypt, decrypt and recipients on objects they share.     *)
(* PBKDF2 is slow, so encrypt, and decrypt with a password or a secret,    *)
(* release the GIL between taking their arguments and building their       *)
(* result: meanwhile the program may change the dictionary and the Limits  *)
(* object that it passed.                                                  *)
(*                                                                         *)
(* What is computed is that of Container, Opening and Listing.             *)
(***************************************************************************)
EXTENDS Directory, Opening, Listing, KeyLabel

CONSTANTS
  Thread,
  Dicts,         \* contents the dictionary of files may have
  LimitValues,   \* values the fields of the Limits object may have
  EncryptArgs,   \* [password, secret, certificate], each <<>> or <<one>>
  DecryptArgs,   \* [password, secret, key, limits]; limits: is it passed?
  Elsewhere,     \* containers that other programs made
  DefaultLimits, \* Limits::default(), in blocks
  MaxCalls,      \* bound: calls made
  MaxChanges     \* bound: changes to what is shared

ASSUME BoundsAssumption == MaxCalls \in Nat /\ MaxChanges \in Nat

\* A dictionary is the sequence of its items [name, data]; data is
\* [bytes, size, zipped]: its blocks, and its blocks when compressed.
ASSUME DictsAssumption ==
  \A d \in Dicts :
    /\ IsSeq(d)
    /\ \A i \in DOMAIN d : d[i].data.size \in Nat /\ d[i].data.zipped \in Nat
ASSUME EncryptArgsAssumption ==
  \A a \in EncryptArgs :
    /\ IsSeq(a.password) /\ IsSeq(a.secret) /\ IsSeq(a.certificate)
    /\ Len(a.password) <= 1

\* The numbers among the limits, and what else the core's limits have.
Numbers == {"max_compression_ratio", "max_uncompressed_bytes", "max_entries",
            "max_recipients", "max_total_kdf_iterations"}
Permissions == {"allow_overwrite", "allow_symlinks", "allow_absolute_paths"}
ASSUME LimitsAssumption ==
  /\ \A l \in LimitValues \cup {DefaultLimits} : \A f \in Numbers : l[f] \in Nat
  /\ DOMAIN DefaultLimits = Numbers \cup Permissions

\* What any decoded header and archive are: lists, of i32 and of u64 numbers.
WellFormed(file) ==
  /\ IsSeq(file.header.recipients)
  /\ \A i \in DOMAIN file.header.recipients :
       LET c == file.header.recipients[i].capsule
       IN  c.scheme = "SC06" => c.kdf_iterations \in Int
  /\ IsSeq(file.ciphertext.msg.archive) /\ file.ciphertext.msg.compressed \in Nat
  /\ \A i \in DOMAIN file.ciphertext.msg.archive :
       file.ciphertext.msg.archive[i].size \in Nat
ASSUME ElsewhereAssumption == \A f \in Elsewhere : WellFormed(f)

VARIABLES
  files,    \* the dictionary
  limits,   \* the PyLimits object
  held,     \* container bytes: [file, by], by the encrypt call they are from
  call,     \* Thread -> the call it makes, or has made last
  draw,     \* the next random draw
  calls, changes

vars == <<files, limits, held, call, draw, calls, changes>>
shared == <<files, limits, held, changes>>

Init ==
  /\ files \in Dicts
  /\ limits \in LimitValues
  /\ held \in {[file |-> f, by |-> <<>>] : f \in Elsewhere}
  /\ call = [t \in Thread |-> [pc |-> "none"]]
  /\ draw = 1
  /\ calls = 0 /\ changes = 0

-----------------------------------------------------------------------------
\* Mutant of ToPyErr: all that does not open is somebody else's.
ToPyErrCoarse(code) ==
  CASE code \in {"BadPrelude", "UnsupportedVersion", "HeaderLengthOutOfRange",
                 "Truncated", "MalformedHeader"} -> "ContainerError"
    [] code \in {"HeaderHmacMismatch", "NoMatchingRecipient"} ->
         "NoMatchingRecipientError"
    [] code = "PayloadAuthenticationFailed" -> "AuthenticationError"
    [] code = "LimitExceeded" -> "LimitExceededError"
    [] code = "UnsafeArchiveEntry" -> "UnsafeArchiveError"
    [] OTHER -> "UmbrikError"

\* The exception for an error of the core.
ToPyErr(code) ==
  CASE code \in {"BadPrelude", "UnsupportedVersion", "HeaderLengthOutOfRange",
                 "Truncated", "MalformedHeader"} -> "ContainerError"
    [] code = "HeaderHmacMismatch" -> "WrongKeyError"
    [] code = "NoMatchingRecipient" -> "NoMatchingRecipientError"
    [] code = "PayloadAuthenticationFailed" -> "AuthenticationError"
    [] code = "LimitExceeded" -> "LimitExceededError"
    [] code = "UnsafeArchiveEntry" -> "UnsafeArchiveError"
    [] code \in {"UnsupportedCapsule", "UnsupportedFmkEncryptionMethod",
                 "UnsupportedPayloadEncryptionMethod"} ->
         "UnsupportedSchemeError"
    [] OTHER -> "UmbrikError"

\* PyLimits::to_core: what it does not name keeps its default.
ToCore(l) ==
  [DefaultLimits EXCEPT !.max_compression_ratio = l.max_compression_ratio,
                        !.max_entries = l.max_entries,
                        !.max_uncompressed_bytes = l.max_uncompressed_bytes,
                        !.max_recipients = l.max_recipients,
                        !.max_total_kdf_iterations = l.max_total_kdf_iterations]

CanCall(t) ==
  /\ calls < MaxCalls
  /\ call[t].pc \in {"none", "raised", "returned"}
  /\ calls' = calls + 1

Becomes(t, c) == call' = [call EXCEPT ![t] = c]

Raises(t, op, exception) ==
  Becomes(t, [pc |-> "raised", op |-> op, exception |-> exception])

-----------------------------------------------------------------------------
(* encrypt.                                                                *)

To(scheme, label, k) == [scheme |-> scheme, label |-> label, key |-> k]

\* The recipients of an encrypt call, in order.
Recipients(a) ==
  [i \in DOMAIN a.password |->
     To("SC06", Password(a.password[i].label), a.password[i].value)]
  \o [i \in DOMAIN a.secret |->
        To("SC05", Secret(a.secret[i].label), a.secret[i].value)]
  \o [i \in DOMAIN a.certificate |->
        To("SC01", Certificate(a.certificate[i].common_name, Word("sha1"), <<>>),
           a.certificate[i].spki)]

\* The certificate is parsed, PEM or DER; its dates are not looked at.
CertificateErrors(a) ==
  {SpkiError(a.certificate[i].spki) : i \in DOMAIN a.certificate} \ {"none"}

\* build_files, then the recipients, with the GIL held.
EncryptCall(t) ==
  /\ CanCall(t)
  /\ \E a \in EncryptArgs :
       \/ /\ files = <<>>
          /\ Raises(t, "encrypt", "UmbrikError")
       \/ /\ files # <<>>
          /\ \E e \in CertificateErrors(a) : Raises(t, "encrypt", ToPyErr(e))
       \/ /\ files # <<>> /\ CertificateErrors(a) = {}
          /\ a.password = <<>> /\ a.secret = <<>> /\ a.certificate = <<>>
          /\ Raises(t, "encrypt", "UmbrikError")
       \/ /\ files # <<>> /\ CertificateErrors(a) = {}
          /\ Recipients(a) # <<>>
          /\ Becomes(t, [pc |-> "encrypting", args |-> a, payload |-> files])
  /\ UNCHANGED <<shared, draw>>

\* pack.
Packed(payload) ==
  [ archive    |-> [i \in DOMAIN payload |->
                      [type |-> "file", name |-> payload[i].name,
                       size |-> payload[i].data.size, data |-> payload[i].data]],
    compressed |-> Total([i \in DOMAIN payload |-> payload[i].data.zipped], Len(payload)) ]

PackError(payload) ==
  IF \E i \in DOMAIN payload :
       SafeRelativePath(payload[i].name, DefaultLimits) = {}
  THEN "UnsafeArchiveEntry" ELSE "none"

\* The records come before the archive.
SealError(recipients, payload) ==
  IF EncryptError(recipients) # "none" THEN EncryptError(recipients)
  ELSE PackError(payload)

\* What container::encrypt makes of a payload, once the GIL is back.
Seal(t, payload) ==
  LET a == call[t].args
      e == SealError(Recipients(a), payload)
  IN  \/ /\ e # "none"
         /\ Raises(t, "encrypt", ToPyErr(e))
         /\ UNCHANGED <<held, draw>>
      \/ /\ e = "none"
         /\ held' = [file |-> Encrypted(Recipients(a), draw, Packed(payload)),
                     by |-> <<[args |-> a, payload |-> call[t].payload]>>]
         /\ draw' = draw + Draws(Recipients(a))
         /\ Becomes(t, [pc |-> "returned", op |-> "encrypt"])

\* Mutant of EncryptReturn: the dictionary is read when it is needed.
EncryptReturnLazy(t) ==
  /\ call[t].pc = "encrypting"
  /\ Seal(t, files)
  /\ UNCHANGED <<files, limits, calls, changes>>

EncryptReturn(t) ==
  /\ call[t].pc = "encrypting"
  /\ Seal(t, call[t].payload)
  /\ UNCHANGED <<files, limits, calls, changes>>

-----------------------------------------------------------------------------
(* decrypt.                                                                *)

\* SoftwareKeyProvider::add_pem.
AddPemError(k) ==
  IF k \in EcKey /\ Curve[k] \in {"secp256r1", "secp384r1"}
  THEN "none" ELSE "InvalidKeyMaterial"

\* The one key that is tried: a private key before a password before a secret.
KeyOf(a) ==
  IF a.key # <<>> THEN [scheme |-> "SC01", holds |-> {a.key[1]}]
  ELSE IF a.password # <<>> THEN [scheme |-> "SC06", holds |-> {a.password[1]}]
  ELSE [scheme |-> "SC05", holds |-> {a.secret[1]}]

\* The dictionary returned, as its items; directories are skipped.
Unpacked(archive, lim) ==
  UNION {{<<f, archive[i].data>> : f \in SafeRelativePath(archive[i].name, lim)}
         : i \in {i \in DOMAIN archive : archive[i].type # "dir"}}

\* What becomes of a call whose opening ends in e.
Result(given, lim, e) ==
  LET msg     == given.held.file.ciphertext.msg
      verdict == UnpackToMemory([archive |-> msg.archive, limits |-> lim,
                                 compressed |-> msg.compressed])
      error   == IF e # "none" THEN e ELSE verdict
  IN  [ pc |-> IF error = "none" THEN "returned" ELSE "raised",
        op |-> "decrypt", given |-> given,
        exception |-> IF error = "none" THEN "none" ELSE ToPyErr(error),
        files |-> IF error = "none" THEN Unpacked(msg.archive, lim) ELSE {} ]

\* decrypt_to_memory and what is made of its result.
Decrypts(t, given, lim) ==
  \E e \in DecryptErrors(given.held.file, KeyOf(given.args), lim) :
    Becomes(t, Result(given, lim, e))

\* The limits are copied, the PEM key is parsed and used at once, with the GIL
\* held; a password or a secret is used after it is released.
DecryptCall(t) ==
  /\ CanCall(t)
  /\ \E a \in DecryptArgs :
       LET given == [args |-> a, held |-> held,
                     limits |-> IF a.limits THEN ToCore(limits) ELSE DefaultLimits]
       IN  \/ /\ a.key # <<>> /\ AddPemError(a.key[1]) # "none"
              /\ Raises(t, "key", ToPyErr(AddPemError(a.key[1])))
           \/ /\ a.key # <<>> /\ AddPemError(a.key[1]) = "none"
              /\ Decrypts(t, given, given.limits)
           \/ /\ a.key = <<>> /\ (a.password # <<>> \/ a.secret # <<>>)
              /\ Becomes(t, [pc |-> "decrypting", given |-> given])
           \/ /\ a.key = <<>> /\ a.password = <<>> /\ a.secret = <<>>
              /\ Raises(t, "key", "UmbrikError")
  /\ UNCHANGED <<shared, draw>>

\* Mutant of DecryptReturn: the Limits object is borrowed, not copied.
DecryptReturnBorrowed(t) ==
  /\ call[t].pc = "decrypting"
  /\ Decrypts(t, call[t].given,
              IF call[t].given.args.limits THEN ToCore(limits) ELSE DefaultLimits)
  /\ UNCHANGED <<shared, draw, calls>>

DecryptReturn(t) ==
  /\ call[t].pc = "decrypting"
  /\ Decrypts(t, call[t].given, call[t].given.limits)
  /\ UNCHANGED <<shared, draw, calls>>

-----------------------------------------------------------------------------
\* recipients: reads the header, with no key and no limit.
RecipientsCall(t) ==
  /\ CanCall(t)
  /\ LET file == held.file IN
     \/ /\ ParseError(file) # "none"
        /\ Raises(t, "recipients", ToPyErr(ParseError(file)))
     \/ /\ ParseError(file) = "none"
        /\ \E e \in DecodeErrors(file) :
             \/ e # "none" /\ Raises(t, "recipients", ToPyErr(e))
             \/ /\ e = "none"
                /\ Becomes(t, [ pc |-> "returned", op |-> "recipients",
                                held |-> held,
                                list |-> [i \in DOMAIN file.header.recipients |->
                                  LET r == file.header.recipients[i] IN
                                  [scheme |-> r.capsule.scheme,
                                   label |-> r.key_label,
                                   display |-> Display(r.key_label)]] ])
  /\ UNCHANGED <<shared, draw>>

\* External: what the rest of the Python program does to what it shares.
Changed == changes < MaxChanges /\ changes' = changes + 1

ChangeFiles ==
  /\ Changed
  /\ files' \in Dicts \ {files}
  /\ UNCHANGED <<limits, held, call, draw, calls>>

ChangeLimits ==
  /\ Changed
  /\ limits' \in LimitValues \ {limits}
  /\ UNCHANGED <<files, held, call, draw, calls>>

\* Damage to the bytes: cut, a broken field, a record edited or dropped.
Alterations(file) ==
  LET records == file.header.recipients IN
  {[file EXCEPT !.written = n] : n \in {0, MinPieces - 1, MinPieces}}
  \cup {[file EXCEPT !.flaws = {f}] : f \in Flaw}
  \cup {[file EXCEPT !.nonce = 0]}
  \cup {[file EXCEPT !.header = [file.header EXCEPT !.recipients = r]] :
          r \in {Tail(records),
                 [records EXCEPT ![1] = [records[1] EXCEPT !.key_label = <<Control>>]]}}

Alter ==
  /\ Changed
  /\ held.by # <<>>
  /\ held' \in {[file |-> f, by |-> <<>>] : f \in Alterations(held.file)}
  /\ UNCHANGED <<files, limits, call, draw, calls>>

Done ==
  /\ calls = MaxCalls
  /\ \A t \in Thread : call[t].pc \in {"none", "raised", "returned"}
  /\ UNCHANGED vars

Next ==
  \/ \E t \in Thread :
       \/ EncryptCall(t)
       \/ EncryptReturn(t)
       \/ DecryptCall(t)
       \/ DecryptReturn(t)
       \/ RecipientsCall(t)
  \/ ChangeFiles
  \/ ChangeLimits
  \/ Alter
  \/ Done

Spec == Init /\ [][Next]_vars

-----------------------------------------------------------------------------
Ended(c, op) == c.pc \in {"raised", "returned"} /\ c.op = op

\* The decrypt calls that have ended on bytes as some encrypt returned them.
Honest(c) == Ended(c, "decrypt") /\ c.given.held.by # <<>>

Addressed(c) ==
  LET key == KeyOf(c.given.args)
      to  == Recipients(c.given.held.by[1].args)
  IN  \E i \in DOMAIN to : to[i].scheme = key.scheme /\ to[i].key \in key.holds

\* The records, the work that the password records ask for, and each of them.
WithinOpening(file, lim) ==
  LET records == file.header.recipients
      asked   == [i \in DOMAIN records |->
                    IF records[i].capsule.scheme = "SC06"
                       /\ records[i].capsule.kdf_iterations > 0
                    THEN records[i].capsule.kdf_iterations ELSE 0]
  IN  /\ Len(records) <= lim.max_recipients
      /\ Total(asked, Len(records)) <= lim.max_total_kdf_iterations
      /\ \A i \in DOMAIN records : asked[i] <= MAX_ITERATIONS

\* The entries, and the blocks read by the end of the archive.
Inflated(msg) == ReadAt(msg.archive, Len(msg.archive) + 1)
WithinUnpacking(msg, lim) ==
  /\ Len(msg.archive) <= lim.max_entries
  /\ Inflated(msg) <= InflateCeiling(msg.compressed, lim)

\* Two spellings of one name.
NamesCollide(payload) ==
  \E i, j \in DOMAIN payload :
    /\ i # j
    /\ SafeRelativePath(payload[i].name, DefaultLimits)
         = SafeRelativePath(payload[j].name, DefaultLimits)

\* What encrypt was given when it was called is what decrypt returns to each of
\* the recipients, whatever happened to the dictionary while the GIL was
\* released; what stands in the way is a limit, or two spellings of one name,
\* which encrypt lets through.
RoundTrip ==
  \A t \in Thread :
    LET c == call[t] IN
    (Honest(c) /\ Addressed(c)) =>
      LET payload == c.given.held.by[1].payload
          fits    == /\ WithinOpening(c.given.held.file, c.given.limits)
                     /\ WithinUnpacking(Packed(payload), c.given.limits)
      IN  \/ /\ c.pc = "returned"
             /\ c.files = Unpacked(Packed(payload).archive, DefaultLimits)
             /\ Cardinality(c.files) = Len(payload)
          \/ c.exception = "LimitExceededError" /\ ~fits
          \/ c.exception = "UnsafeArchiveError" /\ NamesCollide(payload)

\* decrypt returns nothing beyond the limits that it was called with, and blames
\* a limit only if the container exceeds one of those, whatever becomes of the
\* Limits object meanwhile.
LimitsAsCalled ==
  \A t \in Thread :
    LET c    == call[t]
        file == c.given.held.file
        msg  == file.ciphertext.msg
        lim  == c.given.limits
    IN  Ended(c, "decrypt") =>
          /\ c.pc = "returned" =>
               /\ Len(file.header.recipients) <= lim.max_recipients
               /\ Cardinality(c.files) <= lim.max_entries
               /\ Inflated(msg) <= InflateCeiling(msg.compressed, lim)
          /\ c.exception = "LimitExceededError" =>
               ~WithinOpening(file, lim) \/ ~WithinUnpacking(msg, lim)

\* Exceptions blame the right party: bytes that encrypt returned are never
\* called damaged or tampered with; a key that opens nothing is wrong if the
\* container has a record of its kind, and otherwise the container is for
\* somebody else.
BlameFits ==
  \A t \in Thread :
    LET c   == call[t]
        key == KeyOf(c.given.args)
        to  == Recipients(c.given.held.by[1].args)
        ofItsKind == key.scheme # "SC01"
                     /\ \E i \in DOMAIN to : to[i].scheme = key.scheme
    IN  Honest(c) =>
          /\ c.exception \notin {"ContainerError", "AuthenticationError",
                                 "UnsupportedSchemeError"}
          /\ c.exception = "WrongKeyError" => ~Addressed(c) /\ ofItsKind
          /\ c.exception = "NoMatchingRecipientError" =>
               ~Addressed(c) /\ ~ofItsKind
          /\ c.pc = "returned" => Addressed(c)

\* What a recipient is called in encrypt is what recipients displays, whatever
\* separators, escapes or control characters the name has.
ShownAs(name, type) ==
  (IF name = <<>> THEN <<>> ELSE name \o <<Space>>) \o InParentheses(Word(type))

NamesReadBack ==
  \A t \in Thread :
    LET c == call[t]
        a == c.held.by[1].args
    IN  (Ended(c, "recipients") /\ c.pc = "returned" /\ c.held.by # <<>>) =>
          [i \in DOMAIN c.list |-> c.list[i].display] =
            [i \in DOMAIN a.password |-> ShownAs(a.password[i].label, "pw")]
            \o [i \in DOMAIN a.secret |-> ShownAs(a.secret[i].label, "secret")]
            \o [i \in DOMAIN a.certificate |->
                  ShownAs(a.certificate[i].common_name, "cert")]

-----------------------------------------------------------------------------
(* What every call rests on.                                               *)

\* Bytes that an encrypt call returned are the container of what it was given;
\* drawn are the random draws made so far.
HeldOK(h, drawn) ==
  /\ WellFormed(h.file)
  /\ h.by # <<>> =>
       /\ h.by[1].args \in EncryptArgs /\ h.by[1].payload \in Dicts
       /\ SealError(Recipients(h.by[1].args), h.by[1].payload) = "none"
       /\ \E d \in 1..drawn :
            h.file = Encrypted(Recipients(h.by[1].args), d, Packed(h.by[1].payload))

\* A decrypt call has a copy of the bytes and of the limits.
GivenOK(given, drawn) ==
  /\ HeldOK(given.held, drawn)
  /\ given.limits \in {DefaultLimits} \cup {ToCore(l) : l \in LimitValues}

\* A call works on what it was given, and ends as that decides.
CallOK(c, drawn) ==
  /\ c.pc \in {"none", "encrypting", "decrypting", "raised", "returned"}
  /\ c.pc = "encrypting" => c.args \in EncryptArgs /\ c.payload \in Dicts
  /\ c.pc = "decrypting" => GivenOK(c.given, drawn)
  /\ Ended(c, "decrypt") =>
       /\ GivenOK(c.given, drawn)
       /\ \E e \in DecryptErrors(c.given.held.file, KeyOf(c.given.args), c.given.limits) :
            c = Result(c.given, c.given.limits, e)

\* The inductive invariant of the bindings: whatever is changed meanwhile, a call
\* goes by the copies it made while it held the GIL.
IndInv ==
  /\ files \in Dicts /\ limits \in LimitValues /\ draw \in Nat \ {0}
  /\ HeldOK(held, draw)
  /\ DOMAIN call = Thread /\ \A t \in Thread : CallOK(call[t], draw)
=============================================================================
