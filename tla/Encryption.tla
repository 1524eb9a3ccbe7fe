----------------------------- MODULE Encryption ------------------------------
(***************************************************************************)
(* `umbrik encrypt` (run_encrypt in main.rs): the options become           *)
(* recipients one after the other, an id code through the eID directories, *)
(* each of which may fail to answer; then the files are read, the output   *)
(* is created, and encrypt packs the files and writes the container.       *)
(*                                                                         *)
(* The archive the container holds is that of Archive, the container that  *)
(* of Container.                                                           *)
(***************************************************************************)
EXTENDS Directory, Opening, Archive

CONSTANTS
  Commands,     \* the arguments the command may be given
  Worlds,       \* what the directories may hold: <<id code -> entries, ...>>
  DefaultLimits \* Limits::default(), in blocks

\* Arguments: password is a sequence of at most one spec (what its colons
\* separate), secrets of [label, value], pubkeys of [label, spki], certs of
\* certificates, id_codes, allow_expired, entered (the password typed when
\* asked), inputs, the raw names of the files, and onto: which of the inputs
\* are the very file that the output is written to.
BadIdCode == "bad id"
BadBase64 == "bad base64"

ASSUME CommandsAssumption ==
  \A a \in Commands :
    /\ IsSeq(a.password) /\ IsSeq(a.secrets) /\ IsSeq(a.pubkeys)
    /\ IsSeq(a.certs) /\ IsSeq(a.id_codes)
    /\ Len(a.password) <= 1
\* A directory has a list of entries, maybe empty, for whoever is looked up.
ASSUME WorldsAssumption ==
  \A w \in Worlds :
    /\ IsSeq(w)
    /\ \A d \in DOMAIN w, a \in Commands : \A i \in DOMAIN a.id_codes :
         LET there == w[d][a.id_codes[i]] IN
         a.id_codes[i] # BadIdCode =>
           IsSeq(there) /\ \A j \in DOMAIN there : IsSeq(there[j].certificates)
\* The default budget lasts for one password.
ASSUME DefaultLimitsAssumption ==
  /\ DefaultLimits.max_recipients \in Nat
  /\ DefaultLimits.max_total_kdf_iterations \in Nat
  /\ ITERATIONS <= DefaultLimits.max_total_kdf_iterations

VARIABLES
  args,       \* the arguments
  world,      \* what the directories hold
  before,     \* the output file when the command starts
  pc,         \* where the command is
  todo,       \* options still to be resolved, in order
  recipients, \* Vec<Recipient>
  contents,   \* of the files read: "own", or what the output file held
  asked,      \* directories asked about the id code at hand
  entries,    \* what they have returned and selection has not yet gone through
  any_succeeded,
  found,      \* Lookup: what selection has kept and why it left out the rest
  output,     \* the output file: "absent", "old", "partial" or "complete"
  sealed,     \* <<>> or <<the container written>>
  error,      \* why the command was refused
  answered    \* <<directory, id code>> that have answered (history)

vars == <<args, world, before, pc, todo, recipients, contents, asked, entries,
          any_succeeded, found, output, sealed, error, answered>>
given == <<args, world, before>>
lookup == <<asked, entries, any_succeeded, found, answered>>

Option(kind, specs) == [i \in DOMAIN specs |-> [kind |-> kind, spec |-> specs[i]]]

\* The order in which run_encrypt goes through its options.
Options(a) ==
  Option("password", a.password) \o Option("secret", a.secrets)
    \o Option("pubkey", a.pubkeys) \o Option("id_code", a.id_codes)
    \o Option("cert", a.certs)

Init ==
  /\ args \in Commands
  /\ world \in Worlds
  /\ before \in {"absent", "old"}
  /\ pc = "options"
  /\ todo = Options(args)
  /\ recipients = <<>>
  /\ contents = <<>>
  /\ asked = 0 /\ entries = <<>> /\ any_succeeded = FALSE
  /\ found = NothingFound
  /\ output = before
  /\ sealed = <<>>
  /\ error = "none"
  /\ answered = {}

-----------------------------------------------------------------------------
Refuse(e) ==
  /\ pc' = "refused"
  /\ error' = e
  /\ UNCHANGED <<todo, recipients>>

Resolved(more) ==
  /\ recipients' = recipients \o more
  /\ todo' = Tail(todo)
  /\ pc' = "options"
  /\ UNCHANGED error

At(kind) == pc = "options" /\ todo # <<>> /\ todo[1].kind = kind
spec == todo[1].spec

To(scheme, label, k) == [scheme |-> scheme, label |-> label, key |-> k]

\* `label:password`, or a label and a prompt, which may fail.  There is one
\* such option; what its label says is left out.
HasLabelAndPassword(s) == Len(s) > 1 /\ s[1] # "" /\ Tail(s) # <<"">>

TakePassword ==
  /\ At("password")
  /\ \/ /\ HasLabelAndPassword(spec)
        /\ Resolved(<<To("SC06", "password", Tail(spec))>>)
     \/ /\ ~HasLabelAndPassword(spec)
        /\ Refuse("password")
     \/ /\ ~HasLabelAndPassword(spec)
        /\ \E i \in DOMAIN spec : spec[i] # ""
        /\ args.entered # <<"">>
        /\ Resolved(<<To("SC06", "password", args.entered)>>)
  /\ UNCHANGED <<given, lookup, contents, output, sealed>>

\* split_label, decode_secret.
SecretError(s) == s.label = "" \/ s.value = BadBase64 \/ s.value \in ShortSecret

TakeSecret ==
  /\ At("secret")
  /\ \/ /\ SecretError(spec)
        /\ Refuse("secret")
     \/ /\ ~SecretError(spec)
        /\ Resolved(<<To("SC05", spec.label, spec.value)>>)
  /\ UNCHANGED <<given, lookup, contents, output, sealed>>

\* A public key read from a file, which may fail.
TakePubkey ==
  /\ At("pubkey")
  /\ \/ Refuse("pubkey")
     \/ /\ SpkiError(spec.spki) = "none"
        /\ Resolved(<<To("SC01", spec.label, spec.spki)>>)
  /\ UNCHANGED <<given, lookup, contents, output, sealed>>

\* load_certificate, check_validity.
TakeCert ==
  /\ At("cert")
  /\ \/ /\ Refuse("cert")
     \/ /\ SpkiError(spec.spki) = "none"
        /\ ~ValidityAccepted(spec, args.allow_expired)
        /\ Refuse("validity")
     \/ /\ SpkiError(spec.spki) = "none"
        /\ ValidityAccepted(spec, args.allow_expired)
        /\ Resolved(<<To("SC01", "cert", spec.spki)>>)
  /\ UNCHANGED <<given, lookup, contents, output, sealed>>

\* validate_id_code comes before any query.
TakeIdCode ==
  /\ At("id_code")
  /\ \/ /\ spec = BadIdCode
        /\ Refuse("id_code")
        /\ UNCHANGED lookup
     \/ /\ spec # BadIdCode
        /\ pc' = "lookup"
        /\ asked' = 0 /\ entries' = <<>> /\ any_succeeded' = FALSE
        /\ UNCHANGED <<todo, recipients, error, found, answered>>
  /\ UNCHANGED <<given, contents, output, sealed>>

\* search_one: no connection, no result, or the entries.
AskDirectory ==
  /\ pc = "lookup"
  /\ asked < Len(world)
  /\ asked' = asked + 1
  /\ \/ UNCHANGED <<entries, any_succeeded, answered>>
     \/ /\ entries' = entries \o world[asked + 1][spec]
        /\ any_succeeded' = TRUE
        /\ answered' = answered \cup {<<asked + 1, spec>>}
  /\ UNCHANGED <<given, pc, todo, recipients, contents, found, output,
                 sealed, error>>

\* Selection starts with an empty Lookup.
Select(start) ==
  /\ pc' = "select"
  /\ found' = start
  /\ UNCHANGED <<todo, recipients, error>>

\* Mutant of EndLookup: no answer is taken for an empty one.
EndLookupUnanswered ==
  /\ pc = "lookup"
  /\ asked = Len(world)
  /\ Select(NothingFound)
  /\ UNCHANGED <<given, asked, entries, any_succeeded, answered, contents,
                 output, sealed>>

\* Mutant of EndLookup: what was found for the person before is still there.
EndLookupKeeping ==
  /\ pc = "lookup"
  /\ asked = Len(world)
  /\ \/ ~any_succeeded /\ Refuse("transport") /\ UNCHANGED found
     \/ any_succeeded /\ Select(found)
  /\ UNCHANGED <<given, asked, entries, any_succeeded, answered, contents,
                 output, sealed>>

\* lookup: if every directory failed, that is the error.
EndLookup ==
  /\ pc = "lookup"
  /\ asked = Len(world)
  /\ \/ ~any_succeeded /\ Refuse("transport") /\ UNCHANGED found
     \/ any_succeeded /\ Select(NothingFound)
  /\ UNCHANGED <<given, asked, entries, any_succeeded, answered, contents,
                 output, sealed>>

\* select_certificates goes through the entries, the first of which is at hand,
\* and through its certificates.
AtEntry == pc = "select" /\ entries # <<>>
selecting == <<given, pc, todo, recipients, contents, asked, any_succeeded,
               answered, output, sealed, error>>

RejectEntry ==
  /\ AtEntry
  /\ ClassifyDn(entries[1].dn) # "none"
  /\ found' = Reject(found, ClassifyDn(entries[1].dn))
  /\ entries' = Tail(entries)
  /\ UNCHANGED selecting

\* Mutant of ConsiderCertificate: an entry is taken to hold one certificate.
ConsiderCertificateFirst ==
  /\ AtEntry
  /\ ClassifyDn(entries[1].dn) = "none" /\ entries[1].certificates # <<>>
  /\ found' = Consider(found, entries[1].certificates[1])
  /\ entries' = Tail(entries)
  /\ UNCHANGED selecting

ConsiderCertificate ==
  /\ AtEntry
  /\ ClassifyDn(entries[1].dn) = "none" /\ entries[1].certificates # <<>>
  /\ found' = Consider(found, entries[1].certificates[1])
  /\ entries' = [entries EXCEPT ![1] = [dn |-> entries[1].dn,
                                        certificates |-> Tail(entries[1].certificates)]]
  /\ UNCHANGED selecting

EndEntry ==
  /\ AtEntry
  /\ ClassifyDn(entries[1].dn) = "none" /\ entries[1].certificates = <<>>
  /\ entries' = Tail(entries)
  /\ UNCHANGED <<selecting, found>>

\* The reasons the message for "nothing usable" counts.
Explained ==
  \E i \in DOMAIN found.rejected :
    found.rejected[i] \in {"MobileId", "UnsupportedKey", "NotAuthentication"}

\* What becomes of the selection.
UseMatches ==
  /\ pc = "select" /\ entries = <<>>
  /\ \/ /\ found.matches = <<>>
        /\ Refuse(IF Explained THEN "unusable" ELSE "nothing returned")
     \/ /\ \E i \in DOMAIN found.matches :
             ~ValidityAccepted(found.matches[i], args.allow_expired)
        /\ Refuse("validity")
     \/ /\ found.matches # <<>>
        /\ \A i \in DOMAIN found.matches :
             ValidityAccepted(found.matches[i], args.allow_expired)
        /\ Resolved([i \in DOMAIN found.matches |->
                       To("SC01", spec, found.matches[i].spki)])
  /\ UNCHANGED <<given, lookup, contents, output, sealed>>

\* An input that is the output file holds what that holds when it is read.
Contents(out) == [i \in DOMAIN args.inputs |-> IF i \in args.onto THEN out ELSE "own"]

\* Reading the inputs may fail, and does if one of them does not exist.
ReadInputs(out) ==
  \/ Refuse("inputs") /\ UNCHANGED contents
  \/ /\ args.onto # {} => out # "absent"
     /\ contents' = Contents(out)
     /\ pc' = "create"
     /\ UNCHANGED <<todo, recipients, error>>

\* Mutant of CollectFiles: the output is created before the files are read.
CollectFilesLate ==
  /\ pc = "options" /\ todo = <<>>
  /\ \/ /\ recipients = <<>>
        /\ Refuse("no recipients")
        /\ UNCHANGED <<contents, output>>
     \/ /\ recipients # <<>>
        /\ output' = "partial"
        /\ ReadInputs("partial")
  /\ UNCHANGED <<given, lookup, sealed>>

\* Every option is resolved; collect_files reads the inputs.
CollectFiles ==
  /\ pc = "options" /\ todo = <<>>
  /\ \/ /\ recipients = <<>>
        /\ Refuse("no recipients")
        /\ UNCHANGED contents
     \/ /\ recipients # <<>>
        /\ ReadInputs(output)
  /\ UNCHANGED <<given, lookup, output, sealed>>

\* File::create empties what is there.
CreateOutput ==
  /\ pc = "create"
  /\ \/ /\ Refuse("create")
        /\ UNCHANGED output
     \/ /\ output' = "partial"
        /\ pc' = "encrypt"
        /\ UNCHANGED <<todo, recipients, error>>
  /\ UNCHANGED <<given, lookup, contents, sealed>>

\* pack: one regular entry of one data block per file.
Packed == [i \in DOMAIN args.inputs |->
             [type |-> "file", name |-> args.inputs[i], size |-> 1,
              data |-> contents[i]]]

PackError ==
  \/ args.inputs = <<>>
  \/ \E i \in DOMAIN args.inputs :
       SafeRelativePath(args.inputs[i], DefaultLimits) = {}

\* encrypt builds the container in memory, then writes it: all of it, or as
\* far as the disk allows.
EncryptFiles ==
  /\ pc = "encrypt"
  /\ \/ /\ EncryptError(recipients) # "none" \/ PackError
        /\ Refuse("encrypt")
        /\ UNCHANGED <<output, sealed>>
     \/ /\ EncryptError(recipients) = "none" /\ ~PackError
        /\ Refuse("write")
        /\ UNCHANGED <<output, sealed>>
     \/ /\ EncryptError(recipients) = "none" /\ ~PackError
        /\ sealed' = <<Encrypted(recipients, 1, Packed)>>
        /\ output' = "complete"
        /\ pc' = "written"
        /\ UNCHANGED <<todo, recipients, error>>
  /\ UNCHANGED <<given, lookup, contents>>

Done == pc \in {"written", "refused"} /\ UNCHANGED vars

Next ==
  \/ TakePassword
  \/ TakeSecret
  \/ TakePubkey
  \/ TakeIdCode
  \/ AskDirectory
  \/ EndLookup
  \/ RejectEntry
  \/ ConsiderCertificate
  \/ EndEntry
  \/ UseMatches
  \/ TakeCert
  \/ CollectFiles
  \/ CreateOutput
  \/ EncryptFiles
  \/ Done

Spec == Init /\ [][Next]_vars

-----------------------------------------------------------------------------
Elements(s) == {s[i] : i \in DOMAIN s}
IdCodes == Elements(args.id_codes)

\* The arguments and what was gathered from them are of their kinds.
TypeOK ==
  /\ args \in Commands /\ world \in Worlds /\ before \in {"absent", "old"}
  /\ pc \in {"options", "lookup", "select", "create", "encrypt", "written", "refused"}
  /\ output \in {"absent", "old", "partial", "complete"}
  /\ IsSeq(todo) /\ IsSeq(recipients) /\ IsSeq(entries) /\ IsSeq(found.matches)
  /\ \A r \in Elements(recipients) :
       r.scheme \in Supported /\ (r.scheme = "SC01" => r.key \in EcKey)
  /\ \A e \in Elements(entries) : IsSeq(e.certificates)
  /\ DOMAIN found = {"matches", "rejected"}
  /\ asked \in 0..Len(world)
  /\ any_succeeded \in BOOLEAN
  /\ answered \subseteq (DOMAIN world) \X (IdCodes \ {BadIdCode})

\* The entries for an id code in the directories that answered about it.
EntriesFor(id) ==
  UNION {Elements(world[d][id]) : d \in {d \in DOMAIN world : <<d, id>> \in answered}}

\* The certificates of the person's cards, as opposed to SIMs and signatures.
CardEntry(e) == e.dn.ou = "Authentication" /\ e.dn.o # "Mobile-ID"
CardCertificates(id) ==
  UNION {Elements(e.certificates) : e \in {e \in EntriesFor(id) : CardEntry(e)}}

\* No card is lost on the way: every card certificate of a person that some
\* directory has answered with is a recipient, or is still to be gone through,
\* or a certificate with the same key has been kept (lookup merges the answers,
\* select_certificates skips what is broken, foreign or repeated and goes on,
\* run_encrypt takes every match).
Waiting(c) ==
  \/ \E e \in Elements(entries) : CardEntry(e) /\ c \in Elements(e.certificates)
  \/ pc = "select" /\ \E m \in Elements(found.matches) : m.spki = c.spki
NoCardLost ==
  pc # "refused" =>
    \A id \in IdCodes : \A c \in CardCertificates(id) :
      c.spki \in EcKey =>
        \/ \E r \in Elements(recipients) : r.scheme = "SC01" /\ r.key = c.spki
        \/ pc \in {"lookup", "select"} /\ id = spec /\ Waiting(c)

\* Keys that the command's options stand for.
AskedFor(k) ==
  \/ \E p \in Elements(args.pubkeys) : p.spki = k
  \/ \E c \in (UNION {CardCertificates(id) : id \in IdCodes}) \cup Elements(args.certs) :
       /\ c.spki = k
       /\ args.allow_expired \/ Validity(c) \in {"Valid", "Unknown"}

\* Nothing is mixed in: what is being selected was returned for the person being
\* looked up, not for one before, what has been kept is on a card of theirs, and
\* every public key among the recipients is one that was asked for.
NothingMixedIn ==
  /\ pc \in {"lookup", "select"} =>
       \A e \in Elements(entries) : \E f \in EntriesFor(spec) :
         e.dn = f.dn /\ Elements(e.certificates) \subseteq Elements(f.certificates)
  /\ pc = "select" =>
       \A m \in Elements(found.matches) :
         m \in CardCertificates(spec) /\ m.spki \in EcKey
  /\ \A r \in Elements(recipients) : r.scheme = "SC01" => AskedFor(r.key)

Opens(file, k) ==
  \E i \in DOMAIN file.header.recipients :
    LET r   == file.header.recipients[i]
        key == [scheme |-> "SC01", holds |-> {k}]
    IN  /\ Candidate(r, key)
        /\ Verify(file, UnwrapXor(r, key))
        /\ Authentic(file, UnwrapXor(r, key))

\* A container written for a person opens with every one of the person's cards
\* that any directory that answered knows of, whichever directories failed and
\* whatever broken, foreign or repeated certificates came with them (lookup
\* merges what it got; select_certificates skips and goes on).
EveryCardOpens ==
  pc = "written" =>
    \A id \in IdCodes : \A c \in CardCertificates(id) :
      c.spki \in EcKey => Opens(sealed[1], c.spki)

\* A key that can open the container is one that an option named, or is on a
\* card of a person that was named: never a SIM's or a signature key; and the
\* card is within its dates unless --allow-expired was given.
OnlyAskedFor ==
  pc = "written" => \A k \in EcKey : Opens(sealed[1], k) => AskedFor(k)

\* That a person has no usable certificate is said only if some directory has
\* answered about this very person: failing to ask is told apart (lookup).
NotFoundOnlyIfAnswered ==
  error \in {"unusable", "nothing returned"} =>
    \E d \in DOMAIN world : <<d, spec>> \in answered

\* An existing container is not touched by a command that is refused for its
\* options, for what the directories say, or for its inputs: only encrypt's own
\* refusal and a failing write come after File::create.
OutputKept ==
  (pc = "refused" /\ error \notin {"encrypt", "write"}) => output = before

\* The container holds the files as they were before the command, even one that
\* the container itself replaces (collect_files comes before File::create).
SealedHoldsInputs ==
  pc = "written" =>
    \A i \in DOMAIN args.inputs :
      sealed[1].ciphertext.msg[i].data = Contents(before)[i]

\* The errors that opening what was written with nothing but the recipient's
\* own key, under the default limits, may end in.
OwnKeyErrors(i) ==
  DecryptErrors(sealed[1],
                [scheme |-> recipients[i].scheme, holds |-> {recipients[i].key}],
                DefaultLimits)

\* What was written for no more than max_recipients opens for every recipient,
\* wherever it is in the list and whatever records come before it (encrypt,
\* open_header).
RecipientsOpen ==
  (pc = "written" /\ Len(recipients) <= DefaultLimits.max_recipients) =>
    \A i \in DOMAIN recipients : OwnKeyErrors(i) = {"none"}

\* An option stands for something in the arguments.
OptionGiven(o, a) ==
  /\ o.kind = "pubkey" => o.spec \in Elements(a.pubkeys)
  /\ o.kind = "cert" => o.spec \in Elements(a.certs)
  /\ o.kind = "id_code" => o.spec \in Elements(a.id_codes)

\* What is so at the points that the command passes through.
Phases ==
  /\ \A o \in Elements(todo) : OptionGiven(o, args)
  /\ pc \in {"options", "lookup", "select", "create"} => output = before
  /\ pc \in {"create", "encrypt", "written"} => contents = Contents(before)
  /\ pc = "written" => /\ sealed = <<Encrypted(recipients, 1, Packed)>>
                        /\ EncryptError(recipients) = "none"
  /\ pc \in {"lookup", "select"} =>
       /\ todo # <<>> /\ todo[1].kind = "id_code" /\ spec # BadIdCode
       /\ any_succeeded => \E d \in DOMAIN world : <<d, spec>> \in answered
  /\ pc = "select" => any_succeeded
  /\ pc # "refused" => error = "none"

\* Besides that, nothing that a directory answered is lost or mixed into another
\* lookup, the old output file stays until it is replaced, and "not found" is an
\* answer.
Gathered ==
  /\ TypeOK /\ Phases
  /\ NoCardLost /\ NothingMixedIn
  /\ OutputKept /\ NotFoundOnlyIfAnswered

\* There is at most one password, and its record comes first.
PasswordFirst ==
  /\ \A i \in DOMAIN todo : todo[i].kind = "password" => i = 1 /\ recipients = <<>>
  /\ \A i \in DOMAIN recipients : recipients[i].scheme = "SC06" => i = 1

\* The inductive invariant of the encrypt command.
IndInv == Gathered /\ PasswordFirst

-----------------------------------------------------------------------------
(* What the documentation says and the code does not do.                   *)

\* Lookup::matches: "Certificates umbrik can encrypt to".
MatchesEncryptable ==
  \A i \in DOMAIN recipients :
    recipients[i].label \in IdCodes => ~CannotAddress(recipients[i])

\* Command::Encrypt: "every recipient can open the container"; but encrypt does
\* not count the recipients, and open_header does.
EveryRecipientOpens ==
  pc = "written" => \A i \in DOMAIN recipients : OwnKeyErrors(i) = {"none"}
=============================================================================
