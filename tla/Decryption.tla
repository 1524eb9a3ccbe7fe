----------------------------- MODULE Decryption ------------------------------
(***************************************************************************)
(* Containers are written by encrypt, stored where they can be damaged or  *)
(* edited, and opened by `umbrik decrypt` or read by `umbrik list`:        *)
(* container.rs end to end, with the commands around it (main.rs) and the  *)
(* key on a PKCS#11 token with its PIN, as Provider promises it.  What     *)
(* happens to the payload once it has been decrypted is Unpack's subject;  *)
(* here extraction succeeds or fails.                                      *)
(***************************************************************************)
EXTENDS Opening, FiniteSets

CONSTANTS
  Slot,       \* the files containers are written to
  Jobs,       \* slot -> what its author may be asked for
  Opened,     \* the slot whose file is opened
  Commands,   \* the arguments `umbrik decrypt` and `list` may be given
  LimitsSet,  \* the limits it may run with
  Labels,     \* what a label may be edited into
  MaxTries,   \* wrong PINs a card takes before it blocks
  MaxDamage   \* bound on the number of changes to the stored file

\* A job: recipients and, from another implementation, a quirk per record and
\* a payload method.
\* A command: options as sequences of length 0 or 1, the password entered if
\* nothing is given, and whether it only lists the entries.
ASSUME JobsAssumption ==
  \A s \in Slot : \A job \in Jobs[s] :
    /\ IsSeq(job.to)
    /\ \A i \in DOMAIN job.to : job.to[i].scheme \in Supported
ASSUME CommandsAssumption ==
  \A args \in Commands :
    /\ IsSeq(args.provider) /\ IsSeq(args.secret) /\ IsSeq(args.password)
    /\ Len(args.provider) <= 1 /\ Len(args.password) <= 1
    /\ \A i \in DOMAIN args.password : IsSeq(args.password[i])
ASSUME LimitsAssumption ==
  \A lim \in LimitsSet : /\ lim.max_recipients \in Nat
                         /\ lim.max_total_kdf_iterations \in Nat
ASSUME OpenedAssumption == Opened \in Slot
ASSUME BoundsAssumption == MaxTries \in Nat /\ MaxDamage \in Nat

VARIABLES
  files,     \* slot -> <<>> or <<the file>>
  made,      \* slot -> <<>> or <<the container in memory, its job>> (history)
  rng,       \* the next random draw
  writer,    \* the slots whose author is still writing
  damage,    \* changes made to the stored file
  cmd,       \* the command's arguments
  limits,    \* Limits
  container, \* the file as read
  keys,      \* the key material to try, in order
  turn,      \* index of the key being tried
  pc,        \* where the command is
  index,     \* the record open_header looks at
  budget,    \* kdf_budget
  saw_candidate, unsupported,
  fmk,       \* the FMK that authenticated the header
  first_error,
  retries,   \* wrong PINs the card still takes
  work,      \* PBKDF2 iterations run for this key (history)
  total,     \* PBKDF2 iterations run by the command (history)
  prompts,   \* times the user was asked for the PIN (history)
  tries,     \* wrong PINs sent to the card (history)
  mishap,    \* did anything outside umbrik fail? (history)
  released   \* plaintexts handed on, with the record and the key (history)

storage == <<files, made, rng, writer, damage>>
scan == <<index, budget, saw_candidate, unsupported>>
given == <<cmd, limits, container, keys>>
vars == <<files, made, rng, writer, damage, cmd, limits, container, keys,
          turn, pc, index, budget, saw_candidate, unsupported, fmk,
          first_error, retries, work, total, prompts, tries, mishap, released>>

Ended == {"opened", "refused", "stopped"}

\* Before the file is read, or without reading it.
Unread == {"idle", "stopped"}

Init ==
  /\ files = [s \in Slot |-> <<>>]
  /\ made = [s \in Slot |-> <<>>]
  /\ rng = 1
  /\ writer = {}
  /\ damage = 0
  /\ cmd = <<>> /\ limits = <<>> /\ container = <<>> /\ keys = <<>>
  /\ turn = 1
  /\ pc = "idle"
  /\ index = 1 /\ budget = 0
  /\ saw_candidate = FALSE /\ unsupported = FALSE
  /\ fmk = {}
  /\ first_error = "none"
  /\ retries \in 0..MaxTries
  /\ work = 0 /\ total = 0 /\ prompts = 0 /\ tries = 0
  /\ mishap = FALSE
  /\ released = {}

-----------------------------------------------------------------------------
(* Authors.                                                                *)

ContainerOf(s, job, draw) ==
  IF job.by = "umbrik"
  THEN Encrypted(job.to, draw, s)
  ELSE ForeignContainer(job.to, job.quirks, job.method, draw, s)

\* run_encrypt creates (and so empties) the file, and encrypt builds the whole
\* container in memory before it writes; if it refuses, or pack does, the file
\* stays empty.
Encrypt(s) ==
  /\ made[s] = <<>> /\ files[s] = <<>>
  /\ \E job \in Jobs[s] :
       LET c == ContainerOf(s, job, rng) IN
       /\ files' = [files EXCEPT ![s] = <<[c EXCEPT !.written = 0]>>]
       /\ \/ /\ EncryptError(job.to) = "none"
             /\ made' = [made EXCEPT ![s] = <<c, job>>]
             /\ writer' = writer \cup {s}
          \/ UNCHANGED <<made, writer>>
       /\ rng' = rng + Draws(job.to)
  /\ UNCHANGED <<damage, given, turn, pc, scan, fmk, first_error, retries,
                 work, total, prompts, tries, mishap, released>>

\* The write_alls, in order; a reader may come in between.
WritePiece(s) ==
  /\ s \in writer
  /\ files' = [files EXCEPT ![s] = <<[files[s][1] EXCEPT !.written = @ + 1]>>]
  /\ writer' = IF files[s][1].written + 1 = Pieces THEN writer \ {s}
                                                   ELSE writer
  /\ UNCHANGED <<made, rng, damage, given, turn, pc, scan, fmk, first_error,
                 retries, work, total, prompts, tries, mishap, released>>

\* An I/O error or the death of the writer: what is written stays.
WriterStops(s) ==
  /\ s \in writer
  /\ writer' = writer \ {s}
  /\ UNCHANGED <<files, made, rng, damage, given, turn, pc, scan, fmk,
                 first_error, retries, work, total, prompts, tries, mishap,
                 released>>

-----------------------------------------------------------------------------
(* Storage.                                                                *)

WithoutRecord(header, i) ==
  [header EXCEPT !.recipients =
     SubSeq(@, 1, i - 1) \o SubSeq(@, i + 1, Len(@))]

\* What one change can make of a complete file: a flaw, a truncation (which
\* may come after another change), a label edited, a record removed, or a part
\* of it taken from another container.
Damaged(file) ==
  {[file EXCEPT !.flaws = @ \cup {flaw}] : flaw \in Flaw}
  \cup {[file EXCEPT !.written = n] : n \in 0..(file.written - 1)}
  \cup {[file EXCEPT !.header.recipients[i].key_label = l] :
          i \in DOMAIN file.header.recipients, l \in Labels}
  \cup {[file EXCEPT !.header = WithoutRecord(@, i)] :
          i \in DOMAIN file.header.recipients}
  \cup UNION {{[file EXCEPT !.header = files[s][1].header],
               [file EXCEPT !.hmac = files[s][1].hmac],
               [file EXCEPT !.nonce = files[s][1].nonce],
               [file EXCEPT !.ciphertext = files[s][1].ciphertext]} :
              s \in {t \in Slot \ {Opened} : /\ files[t] # <<>>
                                             /\ files[t][1].written = Pieces}}

Damage ==
  /\ pc = "idle"
  /\ damage < MaxDamage
  /\ files[Opened] # <<>>
  /\ files[Opened][1].written = Pieces
  /\ \E file \in Damaged(files[Opened][1]) :
       files' = [files EXCEPT ![Opened] = <<file>>]
  /\ damage' = damage + 1
  /\ UNCHANGED <<made, rng, writer, given, turn, pc, scan, fmk, first_error,
                 retries, work, total, prompts, tries, mishap, released>>

-----------------------------------------------------------------------------
(* The command.                                                            *)

\* Mutant of PasswordCandidates: only the reading without the label.
PasswordCandidatesStripped(spec) ==
  IF Len(spec) > 1 /\ spec[1] # "" /\ Tail(spec) # <<"">>
  THEN <<Tail(spec)>>
  ELSE <<spec>>

\* A password is the sequence of what its colons separate.  `label:password`
\* and a password with a colon in it look alike: both readings are tried.
PasswordCandidates(spec) ==
  IF Len(spec) > 1 /\ spec[1] # "" /\ Tail(spec) # <<"">>
  THEN <<Tail(spec), spec>>
  ELSE <<spec>>

Key(scheme, holds) == [scheme |-> scheme, holds |-> holds]

\* Provider, then secret, then password; a prompt if none is given.
DecryptionKeys(args) ==
  LET provider == [i \in DOMAIN args.provider |-> Key("SC01", args.provider[i])]
      secret   == [i \in DOMAIN args.secret |-> Key("SC05", {args.secret[i]})]
      Read(spec) == LET c == PasswordCandidates(spec)
                    IN  [i \in DOMAIN c |-> Key("SC06", {c[i]})]
      password == IF args.password = <<>> THEN <<>> ELSE Read(args.password[1])
      named    == provider \o secret \o password
  IN  IF named = <<>> THEN <<Key("SC06", {args.entered})>> ELSE named

\* open_header starts afresh for every key.
Begin(lim) ==
  /\ index' = 1
  /\ budget' = lim.max_total_kdf_iterations
  /\ saw_candidate' = FALSE
  /\ unsupported' = FALSE

\* decode_secret refuses a short secret (or one that is no base64, which
\* ShortSecret stands for as well).
Undecodable(args) == \E i \in DOMAIN args.secret : args.secret[i] \in ShortSecret

\* The command ends before any key is tried: its secret is refused, whatever
\* other keys are given, or the provider, the prompt or fs::read fails.
TurnAway ==
  /\ pc = "idle"
  /\ \E args \in Commands, lim \in LimitsSet :
       /\ cmd' = args
       /\ limits' = lim
       /\ mishap' = ~Undecodable(args)
  /\ pc' = "stopped"
  /\ UNCHANGED <<storage, container, keys, turn, scan, fmk, first_error, retries,
                 work, total, prompts, tries, released>>

\* open_provider, decryption_keys and fs::read, which may meet a file that is
\* still being written.
Start ==
  /\ pc = "idle"
  /\ files[Opened] # <<>>
  /\ \E args \in Commands, lim \in LimitsSet :
       /\ ~Undecodable(args)
       /\ cmd' = args
       /\ limits' = lim
       /\ keys' = DecryptionKeys(args)
       /\ Begin(lim)
  /\ container' = files[Opened][1]
  /\ pc' = "parse"
  /\ UNCHANGED <<storage, turn, fmk, first_error, retries, work, total,
                 prompts, tries, mishap, released>>

key == keys[turn]
record == container.header.recipients[index]

\* Mutant of KeyFails: one key too many is tried.
KeyFailsOffByOne(e) ==
  /\ first_error' = IF first_error = "none" THEN e ELSE first_error
  /\ turn' = turn + 1
  /\ pc' = IF turn > Len(keys) THEN "refused" ELSE "parse"
  /\ Begin(limits)

\* Mutant of KeyFails: the latest error is reported.
KeyFailsLatest(e) ==
  /\ first_error' = e
  /\ turn' = turn + 1
  /\ pc' = IF turn = Len(keys) THEN "refused" ELSE "parse"
  /\ Begin(limits)

\* try_keys: the key has failed; on to the next one, the first error is kept.
KeyFails(e) ==
  /\ first_error' = IF first_error = "none" THEN e ELSE first_error
  /\ turn' = turn + 1
  /\ pc' = IF turn = Len(keys) THEN "refused" ELSE "parse"
  /\ Begin(limits)

\* Envelope::parse, decode_header and the limit on records.
Parse ==
  /\ pc = "parse"
  /\ \E e \in IF ParseError(container) # "none" THEN {ParseError(container)}
              ELSE DecodeErrors(container) :
       \/ /\ e # "none"
          /\ KeyFails(e)
       \/ /\ e = "none"
          /\ Len(container.header.recipients) > limits.max_recipients
          /\ KeyFails("LimitExceeded")
       \/ /\ e = "none"
          /\ Len(container.header.recipients) <= limits.max_recipients
          /\ pc' = "scan"
          /\ UNCHANGED <<scan, turn, first_error>>
  /\ work' = 0
  /\ UNCHANGED <<storage, given, fmk, retries, total, prompts, tries, mishap,
                 released>>

MoreRecords == pc = "scan" /\ index <= Len(container.header.recipients)

\* A record for nobody umbrik could be, or for somebody else.
SkipRecord ==
  /\ MoreRecords
  /\ ~Candidate(record, key)
  /\ unsupported' = (unsupported \/ record.capsule.scheme \in Unsupported)
  /\ index' = index + 1
  /\ UNCHANGED <<storage, given, turn, pc, budget, saw_candidate, fmk,
                 first_error, retries, work, total, prompts, tries, mishap,
                 released>>

\* Unwrap the FMK with a KEK that has cost so much, and see whether it
\* authenticates the header.
TryFmk(kek, cost) ==
  LET unwrapped == Xor(record.encrypted_fmk, kek) IN
  /\ work' = work + cost
  /\ total' = total + cost
  /\ \/ /\ record.encrypted_fmk = BadLength
        /\ KeyFails("InvalidKeyMaterial")
        /\ UNCHANGED fmk
     \/ /\ record.encrypted_fmk # BadLength
        /\ Verify(container, unwrapped)
        /\ fmk' = unwrapped
        /\ pc' = "payload"
        /\ budget' = budget - cost
        /\ saw_candidate' = TRUE
        /\ UNCHANGED <<turn, first_error, index, unsupported>>
     \/ /\ record.encrypted_fmk # BadLength
        /\ ~Verify(container, unwrapped)
        /\ index' = index + 1
        /\ budget' = budget - cost
        /\ saw_candidate' = TRUE
        /\ pc' = "scan"
        /\ UNCHANGED <<turn, first_error, unsupported, fmk>>

\* A candidate for a secret or a password: derive the KEK, or fail.
TryRecord ==
  /\ MoreRecords
  /\ Candidate(record, key)
  /\ key.scheme # "SC01"
  /\ LET e == KekError(record, key, budget) IN
     \/ /\ e # "none"
        /\ KeyFails(e)
        /\ UNCHANGED <<fmk, work, total>>
     \/ /\ e = "none"
        /\ TryFmk(TryKek(record, key), KdfCost(record, key))
  /\ UNCHANGED <<storage, given, retries, prompts, tries, mishap, released>>

\* A candidate for a provider: its private-key operation is next.
CallProvider ==
  /\ MoreRecords
  /\ Candidate(record, key)
  /\ key.scheme = "SC01"
  /\ pc' = "perform"
  /\ UNCHANGED <<storage, given, turn, scan, fmk, first_error, retries, work,
                 total, prompts, tries, mishap, released>>

\* ECDH with the sender's point, in software or (after login) on the token,
\* which an empty point does not reach; any other it may refuse (TokenFails).
Derive(kek) ==
  \/ /\ record.capsule.sender_public_key = NoPoint
     /\ KeyFails("InvalidKeyMaterial")
     /\ UNCHANGED <<fmk, work, total>>
  \/ /\ record.capsule.sender_public_key # NoPoint
     /\ TryFmk(kek, 0)

PerformSoftware ==
  /\ pc = "perform"
  /\ ~cmd.token
  /\ Derive(TryKek(record, key))
  /\ UNCHANGED <<storage, given, retries, prompts, tries, mishap, released>>

\* login opens a session and asks for the PIN; finish() stops an empty one.
AskPin ==
  /\ pc = "perform"
  /\ cmd.token
  /\ prompts' = prompts + 1
  /\ \/ /\ pc' = "login"
        /\ UNCHANGED <<turn, first_error, scan, mishap>>
     \/ /\ KeyFails("KeyProvider")
        /\ mishap' = TRUE
  /\ UNCHANGED <<storage, given, fmk, retries, work, total, tries, released>>

\* The token: no session; or, the PIN accepted, no private key, a point that it
\* refuses, or no derived secret.
TokenFails ==
  /\ pc \in {"perform", "login"}
  /\ cmd.token
  /\ KeyFails("KeyProvider")
  /\ \/ UNCHANGED retries
     \/ pc = "login" /\ retries > 0 /\ retries' = MaxTries
  /\ mishap' = TRUE
  /\ UNCHANGED <<storage, given, fmk, work, total, prompts, tries, released>>

\* The card counts a wrong PIN; a blocked card refuses any.
CardRefuses ==
  /\ retries' = IF retries = 0 THEN 0 ELSE retries - 1
  /\ tries' = tries + 1
  /\ mishap' = TRUE
  /\ UNCHANGED <<storage, given, fmk, work, total, prompts, released>>

\* Mutant of PinRejected: the record is passed over.
PinRejectedGoesOn ==
  /\ pc = "login"
  /\ CardRefuses
  /\ index' = index + 1
  /\ pc' = "scan"
  /\ UNCHANGED <<turn, budget, saw_candidate, unsupported, first_error>>

PinRejected ==
  /\ pc = "login"
  /\ CardRefuses
  /\ KeyFails("KeyProvider")

PinAccepted ==
  /\ pc = "login"
  /\ retries > 0
  /\ retries' = MaxTries
  /\ Derive(TryKek(record, key))
  /\ UNCHANGED <<storage, given, prompts, tries, mishap, released>>

\* The card in the reader is no longer the one the key was found on: its PIN
\* was right, and a key with the same CKA_ID derives some other secret.
OtherCard ==
  /\ pc = "login"
  /\ \E k \in EcKey \ key.holds : Derive(ProviderKek(record, k))
  /\ mishap' = TRUE
  /\ UNCHANGED <<storage, given, retries, prompts, tries, released>>

\* No record has opened the header.
NoRecordLeft ==
  /\ pc = "scan"
  /\ index > Len(container.header.recipients)
  /\ KeyFails(IF saw_candidate THEN "HeaderHmacMismatch"
              ELSE IF unsupported THEN "UnsupportedCapsule"
              ELSE "NoMatchingRecipient")
  /\ UNCHANGED <<storage, given, fmk, retries, work, total, prompts, tries,
                 mishap, released>>

\* decrypt_payload: the tag is checked before any plaintext is handed on.
DecryptPayload ==
  /\ pc = "payload"
  /\ LET method == container.header.payload_encryption_method IN
     \/ /\ method # "CHACHA20POLY1305"
        /\ KeyFails("UnsupportedPayloadEncryptionMethod")
        /\ UNCHANGED released
     \/ /\ method = "CHACHA20POLY1305"
        /\ ~Authentic(container, fmk)
        /\ KeyFails("PayloadAuthenticationFailed")
        /\ UNCHANGED released
     \/ /\ method = "CHACHA20POLY1305"
        /\ Authentic(container, fmk)
        /\ released' = released \cup
             {[msg |-> container.ciphertext.msg, index |-> index, key |-> key]}
        /\ pc' = "unpack"
        /\ UNCHANGED <<turn, first_error, scan>>
  /\ UNCHANGED <<storage, given, fmk, retries, work, total, prompts, tries,
                 mishap>>

\* unpack_to_dir, all or nothing (see Unpack); a failure, too, lets try_keys
\* go on to the next key.
Extract ==
  /\ pc = "unpack"
  /\ ~cmd.list
  /\ \/ /\ pc' = "opened"
        /\ UNCHANGED <<turn, first_error, scan, mishap>>
     \/ /\ \E e \in {"Io", "LimitExceeded", "UnsafeArchiveEntry"} : KeyFails(e)
        /\ mishap' = TRUE
  /\ UNCHANGED <<storage, given, fmk, retries, work, total, prompts, tries,
                 released>>

\* container::list reads the archive and writes nothing.
ListEntries ==
  /\ pc = "unpack"
  /\ cmd.list
  /\ \/ /\ pc' = "opened"
        /\ UNCHANGED <<turn, first_error, scan, mishap>>
     \/ /\ \E e \in {"Io", "LimitExceeded", "UnsafeArchiveEntry"} : KeyFails(e)
        /\ mishap' = TRUE
  /\ UNCHANGED <<storage, given, fmk, retries, work, total, prompts, tries,
                 released>>

Done == pc \in Ended /\ UNCHANGED vars

Next ==
  \/ \E s \in Slot : Encrypt(s) \/ WritePiece(s) \/ WriterStops(s)
  \/ Damage
  \/ TurnAway
  \/ Start
  \/ Parse
  \/ SkipRecord
  \/ TryRecord
  \/ CallProvider
  \/ PerformSoftware
  \/ AskPin
  \/ TokenFails
  \/ PinRejected
  \/ PinAccepted
  \/ OtherCard
  \/ NoRecordLeft
  \/ DecryptPayload
  \/ Extract
  \/ ListEntries
  \/ Done

Spec == Init /\ [][Next]_vars

-----------------------------------------------------------------------------
TypeOK ==
  /\ DOMAIN files = Slot /\ DOMAIN made = Slot
  /\ rng \in Nat \ {0}
  /\ writer \subseteq {s \in Slot : made[s] # <<>>}
  /\ \A s \in Slot : files[s] # <<>> => files[s][1].written \in 0..Pieces
  /\ damage \in 0..MaxDamage
  /\ pc \in {"idle", "parse", "scan", "perform", "login", "payload", "unpack"}
              \cup Ended
  /\ pc \notin Ended \cup {"idle"} => turn \in DOMAIN keys
  /\ pc \in {"perform", "login", "payload", "unpack"} =>
       index \in DOMAIN container.header.recipients
  /\ budget \in Nat
  /\ retries \in 0..MaxTries

\* The recipient is one the key stands for.
Owns(k, recipient) == k.scheme = recipient.scheme /\ recipient.key \in k.holds

\* No plaintext is handed on unless the file, as read, is from prelude to the
\* last byte a container that some author sealed, the plaintext is what that
\* author put in, and the record that opened it is one the author addressed to
\* the key used: through truncation, a writer still at work, edits, and parts
\* taken from another container (open_header, then decrypt_payload).
ReleasedAuthentic ==
  \A r \in released :
    \E s \in Slot :
      /\ made[s] # <<>>
      /\ container = made[s][1]
      /\ r.msg = s
      /\ Owns(r.key, made[s][2].to[r.index])

\* The payload is not looked at before the header is known to be the author's:
\* the header, its HMAC and the FMK are those of one sealed container
\* (VerifiedHeader::verify).
VerifiedFirst ==
  pc \in {"payload", "unpack", "opened"} =>
    \E s \in Slot :
      /\ made[s] # <<>>
      /\ container.header = made[s][1].header
      /\ container.hmac = made[s][1].hmac
      /\ DeriveHhk(fmk) = made[s][1].hmac.hhk

\* The records a command's provider is a recipient of.
AddressedToProvider ==
  {i \in DOMAIN container.header.recipients :
     LET c == container.header.recipients[i].capsule
     IN  /\ c.scheme = "SC01"
         /\ \E j \in DOMAIN cmd.provider :
              c.recipient_public_key \in cmd.provider[j]}

\* A container addressed to someone else never costs a PIN entry, and one
\* addressed to the user costs at most one per record that is
\* (provider_kek matches before it calls perform).
PinOnlyIfAddressed ==
  prompts > 0 => prompts <= Cardinality(AddressedToProvider)

\* One command sends the card at most one wrong PIN, however many records are
\* addressed to it and however many keys are tried: perform's error ends the
\* scan, and there is one provider.
OneWrongPin == tries <= 1

\* Opening with one key runs no more PBKDF2 iterations than the limit, over all
\* records (kdf_budget is charged before the work).
KdfWorkBounded ==
  pc \notin Unread => work <= limits.max_total_kdf_iterations

\* The command's arguments hold the recipient's key; a password, unless it is
\* empty, may be given with a label before it.
Offers(args, recipient) ==
  \/ /\ recipient.scheme = "SC01"
     /\ \E j \in DOMAIN args.provider : recipient.key \in args.provider[j]
  \/ /\ recipient.scheme = "SC05"
     /\ \E j \in DOMAIN args.secret : recipient.key = args.secret[j]
  \/ /\ recipient.scheme = "SC06"
     /\ \E j \in DOMAIN args.password :
          \/ args.password[j] = recipient.key
          \/ Len(args.password[j]) > 1 /\ args.password[j][1] # ""
             /\ Tail(args.password[j]) # <<"">>
             /\ Tail(args.password[j]) = recipient.key

\* A record of the job that umbrik writes, or passes over, or that is no
\* candidate for the key that record i is addressed to.
Harmless(job, j, i) ==
  \/ job.quirks[j] \in {"none"} \cup Foreign
  \/ job.to[j].scheme # job.to[i].scheme
  \/ job.to[i].scheme = "SC01" /\ ~Offers(cmd, job.to[j])

\* The author has addressed a record to a key offered, no malformed candidate
\* comes before it, and the limits allow it.
CanOpen(job) ==
  /\ Len(job.to) <= limits.max_recipients
  /\ Len(job.to) * ITERATIONS <= limits.max_total_kdf_iterations
  /\ job.method = "CHACHA20POLY1305"
  /\ \E i \in DOMAIN job.to :
       /\ job.quirks[i] = "none" /\ Offers(cmd, job.to[i])
       /\ \A j \in 1..(i - 1) : Harmless(job, j, i)

\* A command is never refused an undamaged container by a recipient's key:
\* wherever the recipient is in the list, whatever other records (malformed
\* ones, unless they are candidates for the very key), keys and readings of the
\* password are tried first; nor is it turned away before it looks, except for a
\* secret that is none; unless the token, the user's PIN, his swapping of cards,
\* the reading of a file or the extraction fails.
RecipientCanOpen ==
  ~mishap =>
    /\ pc = "refused" =>
         \A s \in Slot :
           (made[s] # <<>> /\ container = made[s][1]) => ~CanOpen(made[s][2])
    /\ pc = "stopped" => Undecodable(cmd)

\* The scan, record by record with its budget and its flags, comes to what the
\* records say as a whole: the record that opens is the first that decides, and
\* the error of the command is the one of its first key (open_header, try_keys).
ScanAgrees ==
  /\ (pc = "payload" /\ ~mishap) =>
       OpenHeader(container, key, limits) = [error |-> "none", index |-> index]
  /\ (pc = "refused" /\ ~mishap) =>
       first_error \in DecryptErrors(container, keys[1], limits)

\* What limits.rs says of max_total_kdf_iterations: the iterations spent opening
\* one container, across all candidate recipients; but open_header takes a new
\* budget for every key, and for both readings of a password, that try_keys
\* tries on the container.
KdfWorkPerContainer ==
  pc \notin Unread => total <= limits.max_total_kdf_iterations

-----------------------------------------------------------------------------
(* The invariants that make these properties inductive.                    *)

\* A header: what is relied on before it is authenticated.
HeaderOK(h) ==
  /\ h = [recipients |-> h.recipients,
          payload_encryption_method |-> h.payload_encryption_method]
  /\ IsSeq(h.recipients)
  /\ \A i \in DOMAIN h.recipients :
       LET c == h.recipients[i].capsule
       IN  c.scheme = "SC06" => c.kdf_iterations \in Int

\* A file and its parts.
FileOK(f) ==
  /\ f = [written |-> f.written, flaws |-> f.flaws, header |-> f.header,
          hmac |-> f.hmac, nonce |-> f.nonce, ciphertext |-> f.ciphertext]
  /\ f.written \in 0..Pieces /\ f.flaws \subseteq Flaw
  /\ HeaderOK(f.header)

\* The HMAC and the ciphertext of a file are from containers sealed, though
\* maybe not from the same one; nothing is said of a file with nothing in it.
PartsSealed(f, sealed) ==
  f.written > 0 =>
    /\ \E s \in Slot : sealed[s] # <<>> /\ f.hmac = sealed[s][1].hmac
    /\ \E s \in Slot : sealed[s] # <<>> /\ f.ciphertext = sealed[s][1].ciphertext

MadeOK ==
  \A s \in Slot : made[s] # <<>> =>
    /\ files[s] # <<>>
    /\ made[s][2] \in Jobs[s] /\ EncryptError(made[s][2].to) = "none"
    /\ \E draw \in 1..rng :
         made[s] = <<ContainerOf(s, made[s][2], draw), made[s][2]>>

FilesOK ==
  \A s \in Slot : files[s] # <<>> =>
    /\ files[s] = <<files[s][1]>>
    /\ FileOK(files[s][1]) /\ PartsSealed(files[s][1], made)

WritersOK ==
  \A s \in writer : /\ made[s] # <<>>
                    /\ files[s][1].hmac = made[s][1].hmac
                    /\ files[s][1].ciphertext = made[s][1].ciphertext
                    /\ files[s][1].written < Pieces

\* Every part of every stored file that a key vouches for was made by encrypt;
\* so it is in the file as read (encrypt, fs::read).
Provenance ==
  /\ MadeOK
  /\ FilesOK
  /\ WritersOK
  /\ pc \notin Unread => FileOK(container) /\ PartsSealed(container, made)

Scanning == {"scan", "perform", "login"}

\* The keys of a command: the provider, if any, is the first, as given.
KeysOK(ks, args) ==
  /\ IsSeq(ks) /\ ks # <<>>
  /\ \A j \in DOMAIN ks :
       /\ ks[j].scheme \in Supported
       /\ ks[j].scheme = "SC01" =>
            j = 1 /\ \E i \in DOMAIN args.provider : ks[j].holds = args.provider[i]
       /\ ks[j].scheme # "SC01" => ks[j].holds # {}

\* What unwrapping the record with the key, or with another card's, may give.
Unwrapped ==
  {Xor(record.encrypted_fmk, kek) :
     kek \in {TryKek(record, key)}
             \cup {ProviderKek(record, k) :
                     k \in {l \in EcKey : key.scheme = "SC01" /\ l \notin key.holds}}}

\* Where the command is in the file and in its keys, and how it got there
\* (try_keys, open_header).
Position ==
  /\ pc \in Unread => turn = 1 /\ released = {}
  /\ pc \notin Unread => KeysOK(keys, cmd) /\ limits \in LimitsSet /\ cmd \in Commands
                    /\ keys = DecryptionKeys(cmd) /\ turn \in 1..(Len(keys) + 1)
  /\ pc \notin Ended \cup {"idle"} => turn \in DOMAIN keys
  /\ pc = "refused" => turn = Len(keys) + 1
  /\ pc \in Scanning \cup {"payload", "unpack", "opened"} =>
       ParseError(container) = "none" /\ "header_garbled" \notin container.flaws
  /\ index \in Nat \ {0}
  /\ pc \in {"perform", "login", "payload", "unpack"} =>
       index \in DOMAIN container.header.recipients /\ Candidate(record, key)
  /\ pc \in {"perform", "login"} => key.scheme = "SC01"
  /\ pc \in {"payload", "unpack", "opened"} => Verify(container, fmk)
  /\ pc = "payload" => record.encrypted_fmk # BadLength /\ fmk \in Unwrapped

\* A command turned away had a secret that is none, or something failed.
TurnedAway == pc = "stopped" => mishap \/ Undecodable(cmd)

\* The account of the PBKDF2 work: what is left and what was spent make up the
\* limit of this key, and each earlier key has spent at most that (kdf_budget).
Account ==
  LET max == limits.max_total_kdf_iterations IN
  /\ budget \in Nat /\ work \in Nat /\ total \in Nat
  /\ pc \in Unread => work = 0 /\ total = 0
  /\ pc \notin Unread => work <= max
  /\ pc = "parse" => budget = max /\ total <= (turn - 1) * max
  /\ pc \in Scanning => work + budget = max
  /\ pc \in Scanning \cup {"payload", "unpack", "opened"} =>
       turn \in DOMAIN keys /\ total <= (turn - 1) * max + work
  /\ pc = "refused" => total <= Len(keys) * max

AddressedBefore == {i \in AddressedToProvider : i < index}

\* PINs asked for and refused: the provider is asked only in the first turn, and
\* at most once for each record addressed to it up to the one at hand.
PinsCounted ==
  /\ prompts \in Nat /\ tries \in Nat
  /\ pc \in Unread \/ (pc = "parse" /\ turn = 1) => prompts = 0
  /\ turn = 1 => tries = 0
  /\ turn = 1 /\ pc \in {"scan", "perform"} => prompts <= Cardinality(AddressedBefore)
  /\ turn = 1 /\ pc = "login" => prompts <= Cardinality(AddressedBefore) + 1
  /\ PinOnlyIfAddressed /\ OneWrongPin

\* How far the scan of open_header has come, as long as nothing outside umbrik
\* fails: no record before this one has decided, and the budget and the flags
\* are what those records come to.
ScanSoFar ==
  LET Outcome(i) == RecordOutcome(container, key, limits, i)
      records    == container.header.recipients
  IN  /\ pc = "parse" => index = 1 /\ ~saw_candidate /\ ~unsupported
      /\ (pc \in Scanning \cup {"payload"} /\ ~mishap) =>
        /\ "none" \in DecodeErrors(container)
        /\ Len(records) <= limits.max_recipients
        /\ index <= Len(records) + 1
        /\ \A i \in 1..(index - 1) : Outcome(i) \in {"passed over", "does not open"}
        /\ pc # "payload" =>
             /\ budget = limits.max_total_kdf_iterations - Spent(container, key, index)
             /\ saw_candidate <=> \E i \in 1..(index - 1) : Outcome(i) = "does not open"
             /\ unsupported <=>
                  \E i \in 1..(index - 1) : records[i].capsule.scheme \in Unsupported
        /\ pc = "payload" =>
             Outcome(index) = "opens" /\ fmk = OpenedFmk(container, key, index)

\* Every key that has failed had a reason to, and the first reason is kept
\* (try_keys).
Refusals ==
  /\ turn = 1 => first_error = "none"
  /\ (pc \notin Unread /\ turn > 1 /\ ~mishap) =>
       /\ first_error \in DecryptErrors(container, keys[1], limits) \ {"none"}
       /\ \A j \in 1..(turn - 1) : DecryptErrors(container, keys[j], limits) # {"none"}

\* The inductive invariant of the decrypt command: what is in a container was
\* made by an author, where the command stands in it, what it has spent, what
\* the scan has found, and that what it has released is authentic
\* (decrypt_with_key).
IndInv ==
  /\ TypeOK
  /\ Provenance
  /\ Position
  /\ TurnedAway
  /\ Account
  /\ PinsCounted
  /\ ScanSoFar
  /\ Refusals
  /\ ReleasedAuthentic
=============================================================================
