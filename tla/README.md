# Formal model of umbrik

umbrik encrypts files into CDOC2 containers and opens them: a library
(`crates/umbrik-core`), a command (`crates/umbrik-cli`), a PKCS#11 key provider
(`crates/umbrik-pkcs11`), a recipient directory (`crates/umbrik-ldap`) and Python bindings.
This directory holds TLA+ modules of its core, the TLC configurations that check them on
small instances, and TLAPS proofs. `PROJECT.json` gives, for every definition, the source
lines it stands for, and for every property a mutation of the model that breaks it.

    tlc -config MCUnpack_race.cfg MCUnpack      # one run
    tlapm UnpackProofs.tla                      # the proofs about one module

The proof modules are `UnpackProofs`, `ExtractionProofs`, `ContainerProofs`, `DecryptionProofs`,
`EncryptionProofs`, `TokenProofs`, `BindingsProofs` and, for the lemmas on loops that they share,
`LoopProofs`.

## 1. Inventory

| Component | State | Operations | Interacts with |
|---|---|---|---|
| `payload.rs`: archive | the archive being read: entries, bytes inflated (`LimitedReader`), names seen | `pack`, `list`, `unpack_to_memory`, `unpack_to_dir` | `limits.rs`; the file system, shared with other processes |
| `container.rs` | per open: record index, `kdf_budget`, `saw_candidate`, `unsupported` | `encrypt`, `open_header`, `decrypt_payload` | header, keys, schemes, key provider |
| `header.rs` | none | `Envelope::parse`, `Header::decode`, `encode` | container |
| `keys.rs`, `schemes/` | none (FMK, KEK, HHK, CEK are derived) | derivation, XOR wrap, HMAC, AEAD | container |
| `provider/` and `umbrik-pkcs11` | software: PEM keys; token: keys found per slot, session, login, the card's PIN retry counter | `open`, `identities`, `perform` | `open_header` calls `perform`; the user moves cards |
| `umbrik-cli` `main.rs` | key candidates, first error, output file | `encrypt`, `decrypt`, `list`, `recipients`, `identities` | everything above |
| `umbrik-ldap` | connections to up to several directories | `lookup`, `select_certificates` | the encrypt command |
| `cert.rs`, `keylabel.rs` | none | parsing and formatting | encrypt, token discovery, whatever shows a label |
| `bindings/python` | the `Limits` object; per call its copied arguments while the GIL is released | `encrypt`, `decrypt`, `recipients` | container, keylabel; the threads of the Python program |
| fuzz targets, scripts, generated FlatBuffers | none of their own | | |

What is hard here, and what makes each part correct:

* **Extraction** writes names chosen by a sender into a directory other processes use. It looks
  first (`symlink_metadata`) and opens later, cleans up by name, and can fail or be killed at
  every system call. Correct: the user's files are never touched without permission, a failed
  call leaves nothing, a successful one leaves exactly what it reports, inflation is bounded,
  every call ends.
* **Opening** acts on a header it cannot yet authenticate: it selects records, spends PBKDF2
  work and asks for a PIN before the HMAC is verified. Correct: no plaintext unless the whole
  file is an author's, work bounded, no PIN for somebody else's container and no card blocked,
  and a real recipient always gets in, wherever in the list.
* **Storage** between author and reader: a crash between writes, a reader racing the writer,
  truncation, edits, parts of another container.
* **The token** is scanned once and used later, while its user pulls and exchanges cards. Correct:
  a broken reader hides no working card, a PIN is checked by the card it was asked for, a wrong
  one is not sent twice, a call ends.
* **The bindings** release the GIL in the middle of a call. Correct: a call works on what it was
  called with, and its exception blames the right party.
* **Recipient lookup** over several directories with partial failure, and the encrypt command,
  which truncates its output before it has validated its input.

Every hazard, with its line and the properties aimed at it, is listed in `PROJECT.json`.

## 2. Modules

| Module | Extends | Checked as | Proved in |
|---|---|---|---|
| `Archive`, `KeyLabel` | | | |
| `Loops` | | | `LoopProofs` |
| `Container` | | | `ContainerProofs` |
| `Listing` | `Archive`, `Loops` | | `ExtractionProofs` |
| `Opening` | `Container`, `Loops` | | `ContainerProofs` |
| `Directory` | `Container` | | |
| `Unpack` | `Archive`; implements `Extraction` | `MCUnpack` | `UnpackProofs`, `ExtractionProofs` |
| `Verdicts` | `Unpack`, `Listing` | `MCUnpack` | `ExtractionProofs` |
| `Decryption` | `Opening` | `MCDecryption` | `DecryptionProofs` |
| `Encryption` | `Directory`, `Opening`, `Archive` | `MCEncryption` | `EncryptionProofs` |
| `Bindings` | `Directory`, `Opening`, `Listing`, `KeyLabel` | `MCBindings` | `BindingsProofs` |
| `Token` | implements `Provider` | `MCToken` | `TokenProofs` |

**Archive** (no state). Entries, limits and the checks of `payload.rs`: `SafeRelativePath`,
`CheckEntryType`, `CheckUnique`, `InflateCeiling`. Sizes are in 512-byte tar blocks. A name is
what `Path::components()` yields: a possible root or drive, then components; a normal component
is one of `File` or starts with a dot.

**Unpack**. `unpack_to_dir` for a set `Proc` of concurrent calls. The directory maps names to
nothing, a directory, a link, or an inode, and `Fold` gives the name under which the file system
keeps a name (case folding); open handles hold inodes, so a write lands where the
file was opened and not where the name points. One action per system call:

| Action | Code |
|---|---|
| `Start` | `create_dir_all(dest)` |
| `HeaderPastCeiling`, `EndOfArchive`, `ReadEntry` | the loop head of `unpack_inner`, `LimitedReader`, the entry checks |
| `MakeDir` | `create_dir_all(target)` for a directory entry |
| `Stat`, `CreateNew`, `OpenTruncate` | the two halves of `create_output` |
| `CopyBlock`, `CopyDone` | `io::copy`, `out.push` |
| `IoError`, `Crash` | any call fails; the process dies |
| `RemoveCreated`, `ReturnError` | the cleanup loop of `unpack_to_dir` |
| `User` | external: a user creates files and links, or replaces his own file by a link |

The user never touches a file that an extraction created. Cleanup goes by name, so a user who
replaced such a file by his own while the call was still running would lose it; nothing in the
code could tell, and the properties do not claim otherwise.

**Loops** (no state). What a loop comes to that adds a number per round (`Total`), or that stops at
its first error (`FirstError`). `Listing` and `Opening` are written with them.

**Listing**. `list` and `unpack_to_memory` write nothing, so they are functions of their arguments.
They are separate loops in the code and separate in the model: `UnpackToMemory` is a closed form, the
first `ErrorAt` the header of an entry or at the end of the archive; `List` is the loop itself, entry
by entry (`ListCheck`, `ListEntry`, `ListRun`), with its own account of blocks read, names seen and
names listed. Unlike extraction it lists and counts directories.

**Verdicts**. What `Unpack`'s calls come to, compared with `Listing`: `SameVerdict` (the reading
into memory), `ListAgrees` (what is listed is what is extracted, under the names the file system
keeps), and `VerdictInv`, how far a call has come in terms of the reading into memory.

**Extraction**. The abstract specification: without overwriting, a call adds all its files at
once under free names, or none. The mapping hides the files of a call that has not returned
successfully. If some call may overwrite, nothing is promised (`Overwriting`).

**Container** (no state). The format and key hierarchy with perfect cryptography: a derived key
is the term of what went into it; XOR is symmetric difference of sets of terms, so a wrong KEK
yields a key that belongs to nobody; a MAC or ciphertext is a record of all it binds. Containers
of other implementations carry a `Quirk` per record (unknown method, short salt, zero, negative
or excessive iterations, a bad point, an unsupported scheme...). The limit on the size of a header
(`MAX_HEADER_LEN`) is counted in records: `EncodeError` refuses to write more of them.

**Opening** (no state). What opening a container with one key comes to, as a function of file, key
and limits: `RecordOutcome` of each record, `OpenHeader`, `PayloadError`, `DecryptErrors`. The
step-by-step scan of `Decryption` is checked against it (`ScanAgrees`); `Encryption` and `Bindings`
use it to say what a recipient will get.

**Decryption**. Authors write containers piece by piece (`Encrypt`, `WritePiece`,
`WriterStops`); the stored file is damaged (`Damage`); one `umbrik decrypt` reads it
(`Start`), unless it ends before any key is tried (`TurnAway`: `decode_secret` refuses its secret,
or the provider or the file cannot be opened), tries key after key (`KeyFails` is the loop of `try_keys`), and for each parses
(`Parse`), scans records (`SkipRecord`, `TryRecord`, `CallProvider`), uses the key in software
or on a card (`PerformSoftware`, `AskPin`, `PinRejected`, `PinAccepted`, `TokenFails`, and
`OtherCard`: somebody else's card in the reader), and opens the payload (`NoRecordLeft`,
`DecryptPayload`), which is extracted (`Extract`) or listed (`ListEntries`). Variables marked *history*
exist for the properties only.

**Directory** (no state). What a certificate in a directory's answer is worth: `ClassifyDn`,
`SpkiError` (the outcome of parsing a certificate's key), `Validity`.

**Encryption**. One `umbrik encrypt`, from options to output file: `TakePassword`, `TakeSecret`,
`TakePubkey`, `TakeIdCode`, `TakeCert` resolve one option each, in the command's order.
`AskDirectory` is one directory's answer or failure, merged into `entries`; `EndLookup` is the error
of a lookup that nobody answered, or the start of `select_certificates`, which goes entry by entry
and certificate by certificate (`RejectEntry`, `ConsiderCertificate`, `EndEntry`) with its
result so far in `found`; `UseMatches` is what the command makes of it. `CollectFiles`,
`CreateOutput`, `EncryptFiles` read the inputs, empty the output and write the container, whose
records are judged by `Opening`. An input may be the very file the output replaces (`onto`).

**Token**. `Pkcs11KeyProvider` on slots, readers and cards that the user moves (`TakeOut`, `PutIn`,
external). `Open`, `SkipSlot` and `ScanSlot` are `open` and `discover`, slot by slot; `Perform`,
`AskPin`, `NoPinGiven`, `Login`, `Derive` are `perform`: session, prompt, login, private key and
ECDH, each of which may fail. A card shows a token in each slot of its reader, with its own PIN,
certificates and keys; a session ends when its card is taken out. A certificate counts if its key is
one umbrik can use and its key usage permits key establishment (`Usable`, `PermitsKeyEstablishment`).

**Provider**. The abstract specification of `KeyProvider` as `open_header` relies on it: identities
that do not change and cost no PIN, and calls that ask once, send the card at most one PIN (`sent`
counts them) and give a secret only after the card has accepted it.

**KeyLabel** (no state). Labels as texts over symbols: a symbol is a character that matters
(`&`, `=`, `%`, `+`, `,`, a space, a control character), a word that is never escaped, or the
percent-escape of a symbol. `FormUrlencode`, `FormUrldecode`, the writers (`Password`, `Secret`,
`Certificate`, `PublicKey`, `Eid`, `EidDigidoc`), `Parse` and `Display`. The symbols are there
because the round trip of labels depends on which of them are escaped.

**Bindings**. Threads of a Python program. `EncryptCall` and `DecryptCall` take and copy the
arguments under the GIL; `EncryptReturn` and `DecryptReturn` are the computation and the result.
Between them other threads call, and the program changes the dictionary, the `Limits` object and
the bytes it holds (`ChangeFiles`, `ChangeLimits`, `Alter`, external). `decrypt` with a PEM key
never releases the GIL and is one step.

## 3. Runs

| Run | Instance | Shows |
|---|---|---|
| `single` | one call, every archive of up to 2 entries out of 11 kinds, 6 sets of limits | what a call that is alone reports is on disk, even if it overwrites, as long as its names are apart (`ReportedIntact`); inflation is capped (`BoundedInflation`); directory and memory readers judge alike (`SameVerdict`), at every step (`VerdictInv`); what `list` shows is what is extracted (`ListAgrees`); the call ends (`EveryCallEnds`) |
| `race` | two calls with colliding archives, either may overwrite, a user who creates files and links and replaces his own, a file system that takes `A` for `a` | the inductive invariant `DeliveryInv` (of which `IndInv` is a part, and from which `ReportedIntact` follows), `UserFilesKept`, `FailureLeavesNothing`, `ReportedStays`, `UserFilesNeverRemoved`, and the refinement `AllOrNothing` |
| `damage` | two containers for the same people, up to two changes to the opened one, a reader racing the writer | `ReleasedAuthentic`, `VerifiedFirst` |
| `recipients` | up to three recipients of every scheme, every quirk, commands that open or list, one with a secret too short beside a right password, default and tight limits | the inductive invariant `IndInv`, `RecipientCanOpen`, `PinOnlyIfAddressed`, `OneWrongPin`, `KdfWorkBounded`, `ScanAgrees` |
| `commands` | 18 commands, two directories with up to two and one of eight kinds of entries, each answering or not | the inductive invariant `IndInv`, `EveryCardOpens`, `OnlyAskedFor`, `NotFoundOnlyIfAnswered`, `OutputKept`, `SealedHoldsInputs`, `RecipientsOpen` |
| `token` | three slots of two readers, an ID-card in two slots (authentication, signing), a second card with the same `CKA_ID`s, one with unusable certificates; two moves of cards, two calls | the inductive invariant `IndInv`, `CardFound`, `PinToOpenedCard`, `SecretOfIdentity`, the refinement `ImplementsProvider`, and `CallReturns` |
| `bindings` | two threads, two calls, one change to what they share; six dictionaries, seven kinds of recipients, nine of keys, three limits, containers of others with odd labels and a directory entry | the inductive invariant `IndInv`, `RoundTrip`, `LimitsAsCalled`, `BlameFits`, `NamesReadBack` |

Five runs end in a violation, each a place where a document or a comment says something else
than the code does (quoted in `PROJECT.json`):

| Run | Documentation | Code |
|---|---|---|
| `left_alone` | on failure "a file that existed before is left alone" | with `allow_overwrite` it stays truncated |
| `symlink` | "never through a symlink" | with `allow_overwrite`, a link placed between look and open is followed |
| `curve` | lookup matches are "Certificates umbrik can encrypt to." | P-521 certificates match, and encrypt refuses them |
| `kdf_total` | `max_total_kdf_iterations` is what umbrik "will spend opening one container" | the budget restarts for every key tried, and a password with a colon is two; what holds is the limit per key (`KdfWorkBounded`) |
| `many` | "every recipient can open the container" | `encrypt` does not count its recipients; above `max_recipients` none of them can; what holds up to there is `RecipientsOpen` |

More were met on the way and have no run:

* `max_entries` is the "Maximum number of tar entries."; `unpack_to_dir` and `unpack_to_memory` do not
  count directories, `list` does (hence the second half of `ListAgrees`, and the files that
  `LimitsAsCalled` counts).
* `pack` is to refuse "a container whose entry names would be rejected on the way out"; two inputs of
  one name, or of two spellings of one, are packed and refused when unpacked (`NamesCollide` in
  `RoundTrip`).
* The doc of `Recipient::PublicKey` says that editing the label "does not break decryption"; the
  header HMAC covers it (`Verify`).
* "the directory returned nothing for this id code" is also what a person gets whose only
  certificates did not parse or are on an unsupported curve (`Explained`). `Rejection::UnsupportedKey`
  is documented for "an unsupported curve", which is in fact rejected as `Unparseable`.
* `add_pem` is documented to accept RSA keys, which it refuses.
* `UnsafeArchiveError` is documented for entries that escape or are links; it is also raised for two
  names that are one (`NamesCollide` in `RoundTrip`).
* The comment above `printable` says that "nothing in this file prints one directly" of the strings of
  others; the common name in "found:" and the labels of `umbrik identities` are printed directly.

### Bounds

* `File` has two names, a third that folds into the first, and `Proc` two calls: a collision needs
  two calls and one name, cleanup of several files needs two. `MaxLen` = 2 entries per archive: a second entry can fail after a first
  succeeded. Entries have up to 2 blocks, so a copy can be interrupted in the middle.
* `RatioFloor` = 5 blocks and `U64Max` = 1000: with a compressed length of 2 and ratios 1 and 3,
  the ratio, its floor and the absolute cap each bind in some request. No request reaches
  `U64Max`; saturation is only in the operator.
* `MaxDamage` = 2 changes: replacing header and HMAC together takes two. `MaxTries` = 2 wrong PINs.
* `ITERATIONS` = 2, `MAX_ITERATIONS` = 3, total budgets 3, 4 and 6: one record exceeds the
  per-record ceiling, two exceed a tight total.
* `MAX_HEADER_LEN` = 3 records where containers are opened, the longest list of recipients there; 5
  for the encrypt command, above the 4 of `max_recipients` and below the longest command, so that a
  list is written and opens, is written and does not open, or is refused.
* `Now` = 2 lies before, within and after the validity windows of the certificates. A first
  directory with two entries and a second with one put a broken or repeated certificate on either
  side of a good one, in the same entry, the same directory or the other.
* `MaxMoves` = 2: taking one card out and putting another in its place. `MaxCalls` = 2 calls of
  `perform`: one after a wrong PIN. Three slots: two of one card, and one behind a reader that fails.
* `MaxCalls` = 2 calls of Python threads: a decrypt of what an encrypt returned; with `MaxChanges` =
  1 change at any point, in particular between a call's two halves.
* `race` and `bindings` use the symmetry of calls and of threads, which differ by nothing but what
  they are given; their properties quantify over all of them. No liveness is checked with symmetry.
* Eight `Pieces` of a container stand for its bytes: every prefix whose handling differs.

### Fairness

`EveryCallEnds` assumes weak fairness of each call's own steps (`FairSpec`). A call runs in one
thread, takes no lock and makes no call that waits for another process, so a call that can step
does. Nothing is assumed of the user, of errors or of crashes.

`CallReturns` assumes weak fairness of the provider's work (`Work`), the answer to the PIN prompt
included: each PKCS#11 call returns, and a user who is asked types something or closes the input.
Moves of cards and new calls are not assumed to happen. The other properties are safety and assume
none. Of the LDAP lookup no liveness is claimed: the code sets no timeout.

## 4. Proofs

TLC explores the instances above; the theorems hold for any number of calls, names, entries, keys,
records, cards, slots and directories, and any interleaving. Each theorem about a run's property has
the form `Spec => []P` (or `Spec => P` for action properties and refinements). None of the properties
is inductive, so each component has an inductive invariant that is checked by TLC first (as a
property of its run) and proved with one case per action.

### Extraction (`UnpackProofs`, `ExtractionProofs`)

| Theorem | Property |
|---|---|
| `UserFilesSafe` | `UserFilesKept`: without `allow_overwrite` no byte of the user's changes |
| `FailureClean` | `FailureLeavesNothing`: a failed call leaves no file whose removal worked |
| `UserFilesStay` | `UserFilesNeverRemoved`, with or without `allow_overwrite` |
| `InflationBounded` | `BoundedInflation`: the blocks on disk from one payload are under the caps |
| `ReportedFilesIntact`, `ReportedFilesStay` | `ReportedIntact`, `ReportedStays` |
| `Refinement` | `AllOrNothing`: `Unpack` implements `Extraction` |
| `VerdictsAgree`, `ListingAgrees` | `SameVerdict`, `ListAgrees`: extraction does what the other two readers say |
| `TypeCorrect`, `Invariance`, `DeliveryInvariance`, `VerdictInvariance` | the types and the inductive invariants |

Assumptions on constants: `RequestsAssumption` (requests are well typed, archives no longer than
`MaxLen`), `NodesAssumption` (inodes and the markers for absent, directory, link and hole are
distinct), `FoldAssumption` (folding is idempotent, a function from names to names),
`UserSwapsAssumption`, `FileAssumption` (a name is none of the special components),
`RatioFloorAssumption` and `U64MaxAssumption` (numbers).

That cleanup removes only the call's own files needs `CreatedOwned`: each remembered name holds,
right now, an inode of this call, and is remembered once. That it removes all of them needs the
converse, `OwnedCreated`: each file of a call is remembered until removed or its removal failed. That
the user's bytes are safe needs `HandleOwned`: a call that may not overwrite never reaches the
truncating open, and its handle is an inode it made. These need `CursorInArchive`, which ties the
program counter to the entry index, the target and the handle. `IndInv` is their conjunction, proved
in three layers (types, ownership, user's files).

What a call delivers needs more, `DeliveryInv`. `InodesApart`: an inode is under one name, and one
not used yet is empty, nameless and unopened, so that a new file starts empty. `ResultSoFar`: the
result is exactly the files among the entries passed. `FilesInPlace`: as long as the call has not
failed, its files are where it put them or there is an excuse, and every file of its own is reported
or is the one being written. `ContentRight`: reported files are complete and the one being written
is complete so far. The proof of this corrected the property: a call that overwrites, next to others
or to a user who replaces his file by a link, can report a file that another call then writes to;
`ReportedIntact` promises the overwriting call its content only if it is `Alone`.

`BoundedInflation` counts a set of blocks. The blocks on disk from one call never outnumber what its
`LimitedReader` has let through: a write adds at most one (`CopiedByWrite`), truncating adds none.

For the refinement, all files of a call come into view at `EndOfArchive`. By `DeliveryInv` its own
files at that moment are those of its archive, one per name, complete, and hidden until then
(`AllThere`). Creating, writing and removing files under construction is not seen (`HiddenRefines`);
a failure or a crash is `GiveUp`. If some call may overwrite, every step is `Overwriting`.

That the verdict is that of the reading into memory needs `VerdictInv`. Between entries, the blocks
read and those about to be skipped are the blocks before the next header, the names seen are those of
the entries before it, and the reading into memory has let every header so far pass; within an entry
the same, with the blocks copied of it; and throughout, the entries counted are the files before.
A call that fails has the first error of the reading into memory, except that the copy which crosses
the ceiling is refused in the middle of its entry and the reading as a whole at the next header
(`VerdictCopies`); or an I/O error; or it met a link, which then is still there (`LinksStay`).

`ListingAgrees` compares two loops, so it goes by induction along that of `list` (by the least number
of entries at which it fails, see below): as long as `list` has no error, what it has read, seen and
listed is what the reading into memory comes to at the same entry, and no header so far fails there;
where it stops, the other has the same error, unless a directory had been counted before.

### Loops (`LoopProofs`)

What a loop of any length computes is not within reach of the library's induction theorems, which
take an operator as a parameter. `LeastNatural` (a set of numbers that is not empty has a least
element) takes no parameter and serves instead: a lemma about every length is proved by the least
length at which it fails. So `Total` can be written as a recursive function and reasoned about:
`TotalZero`, `TotalNext`, that it is monotone, bounded and depends on the summands alone. `FirstErrorIs`,
`NoErrors` and `FirstErrorCases` say what `FirstError` is, `RoundsCount` and `SomeRoundsCount` how
many rounds there are.

### Container (`ContainerProofs`)

`OwnerUnwraps`: the XOR capsule of a record gives the FMK to the recipient's own key.
`OnlyOwnerUnwraps`: no other key of a candidate record gives it. They rest on XOR as symmetric
difference being its own inverse and on key derivation being injective, and are what authenticity
and "nobody else opens" come down to. The lemmas on `Opening` say when a record decides, what the scan
comes to if no record before it did, and what a container just encrypted gives to each key.

### Opening (`DecryptionProofs`)

| Theorem | Property |
|---|---|
| `OnlyAuthenticReleased`, `HeaderFirst` | `ReleasedAuthentic`, `VerifiedFirst` |
| `PinOnlyForOwner`, `SingleWrongPin` | `PinOnlyIfAddressed`, `OneWrongPin` |
| `KeyWorkBounded` | `KdfWorkBounded` |
| `ScanIsFaithful` | `ScanAgrees`: the scan comes to what the records say as a whole |
| `RecipientNotRefused` | `RecipientCanOpen`: a recipient's key is never refused, and a command is turned away unread only for a secret that is none |
| `PartsFromAuthors`, `TypeCorrect`, `Invariance` | `Provenance`, `TypeOK`, `IndInv` |

Assumptions: `JobsAssumption` and `CommandsAssumption` (authors address supported schemes; options
are sequences, a provider and a password at most one), `LimitsAssumption` (limits are numbers),
`OpenedAssumption`, `BoundsAssumption`, and those of `Container`: `CurveAssumption`,
`IterationsAssumption`, `HeaderLenAssumption`.

The invariant says seven things. `Provenance`: however files are damaged or spliced, a MAC and a
ciphertext in a file were made by some `Encrypt`; the header need not be. So a header that verifies
under an FMK is the one its author sealed, and with it the payload. `Position`: where the command is
in the list of keys and of records, and that past the scan the header has been verified. `Account`:
during a scan what has been spent and what is left add up to the limit, and the keys before cost at
most the limit each. `PinsCounted`: prompts are no more than the addressed records passed, and a
wrong PIN ends the first key's turn. `ScanSoFar`: unless something outside umbrik failed, no record
before the current one has decided, and the budget and the two flags are what those records come to
by the definitions of `Opening`. `TurnedAway`: a command that ended before it read the
file had a secret that cannot be decoded, or something outside umbrik failed. `Refusals`: each key that has failed had an error by those
definitions, and the first one's is kept.

From `ScanSoFar` and `Refusals`, the end of a scan is `OpenHeader`, and a refused command is one all of whose keys
have an error. A key of the recipient's has none: the records before the recipient's are passed over
or do not open, and cost at most `ITERATIONS` each, so that the budget lasts. The proof corrected
`Offers`, which says what a command holds: an argument `label:` with nothing behind the colon is not
a password with a label.

### Encrypt command (`EncryptionProofs`)

| Theorem | Property |
|---|---|
| `CardsOpen` | `EveryCardOpens`: every card any directory answered with opens the container |
| `NobodyElseOpens` | `OnlyAskedFor` |
| `NotFoundIsAnAnswer`, `OldOutputKept`, `FilesAsTheyWere` | `NotFoundOnlyIfAnswered`, `OutputKept`, `SealedHoldsInputs` |
| `EachRecipientOpens` | `RecipientsOpen`: what was written for up to `max_recipients` opens for each of them alone |
| `CardsKept`, `SelectionPure`, `TypeCorrect`, `Invariance` | `NoCardLost`, `NothingMixedIn`, `TypeOK`, `IndInv` |

Assumptions: `CommandsAssumption` and `WorldsAssumption` (options and answers are sequences, and
there is at most one password), `DefaultLimitsAssumption` (the default budget lasts for one
password), `NowAssumption`, and those of `Container`.

`NoCardLost` follows a certificate from the answer to the recipients: until it is a recipient it is
waiting in `entries` or in `found`. `NothingMixedIn` is the converse: what waits was returned for the
person being looked up. `Phases` says what holds at each point of the command, in particular that
the output is untouched until it is created and that the inputs were read before. That a recipient's
key then opens the container, and no other, is the two theorems of `ContainerProofs`. That the whole
scan gets there, under the default limits, needs `PasswordFirst`: there is one password at most and its
record is the first, so the scan of any key derives a password key once at most.

### Token (`TokenProofs`)

| Theorem | Property |
|---|---|
| `PinSafe`, `SecretRight` | `PinToOpenedCard`, `SecretOfIdentity` |
| `ScanComplete` | `CardFound` |
| `Refinement` | `ImplementsProvider`: `Token` implements `Provider`, PINs sent included |
| `TypeCorrect`, `Invariance` | `TypeOK`, `IndInv` |

Assumptions: `ReadersAssumption` (slots belong to readers), `ViewAssumption` (what is read from a
token is well formed), `OneCardAssumption` (a private key is on one card), `CkaIdAssumption` (on one
token, `CKA_ID` ties a certificate to its key).

`BooksKept` relates what the provider remembers to the cards. `KeysFound`: a known key is that of a
certificate some card shows in its slot, and is known once. `ScannedGiven`: the slots the scan is past
have given every key they owed. `SessionOfCall`: a call's session is on the slot of the key asked for,
and while its card stays, the card that was prompted for, the one in the session and the one that
checks the PIN are the same; it need not be the card that was scanned.

### Bindings (`BindingsProofs`)

| Theorem | Property |
|---|---|
| `RoundTrips` | `RoundTrip`: what encrypt was given, decrypt returns |
| `LimitsStand` | `LimitsAsCalled` |
| `BlameIsRight` | `BlameFits` |
| `Invariance` | `IndInv` |

Assumptions: `DictsAssumption`, `EncryptArgsAssumption`, `LimitsAssumption`, `ElsewhereAssumption`
(dictionaries, arguments, limits and the containers of other programs are well formed; of the latter
nothing is assumed that a damaged container would not have), and those of `Archive` and `Container`.

The invariant is what the copies made under the GIL are for. `HeldOK`: bytes that an encrypt call
returned are the container of what that call was given, sealed under some draw of the generator.
`GivenOK`, `CallOK`: a decrypt call has a copy of the bytes and of the limits, and has ended, if it
has, as these decide: `Result` of one of the `DecryptErrors`. The properties then are about functions:
that the container of a payload opens for a recipient's key (from `ContainerProofs`), that its archive
passes the checks unless a limit or two spellings of one name stand in the way (`PackedUnpacks`), and
that a limit is blamed only for what exceeds it (`LimitBlamed`). The proof corrected
`LimitsAsCalled`: directories are not counted in `max_entries`, so what a call that returned stayed
within is the number of files in its result.

### Left to TLC

* `EveryCallEnds` and `CallReturns`: liveness.
* `NamesReadBack`, the round trip of key labels: `FormUrlencode` and `Parse` go through a text with
  the folds of the community modules, and what those compute takes induction with an operator.

## 5. Not modelled

* Bytes: FlatBuffers encoding, PEM, DER, X.509 and DN parsing, tar and zlib, the primitives
  themselves. Cryptography is perfect, so nothing is said about its strength. Each appears by its
  outcomes: what it yields, and the errors it may end in.
* The LDAP protocol, the PKCS#11 module and the cards are external: they answer, fail, or refuse.
* In key labels: percent-escapes that cut a multi-byte character, and `from_str_radix`, which takes
  `%+A` for an escape; labels of the encrypt command are told apart but not spelled out (those of
  the bindings are).
* A user who replaces a file that a running extraction has made.
* Output, verbosity, argument parsing, PyO3's type conversion, generated code, fuzz targets,
  scripts, tooling.

## 6. Open ends

* Of the hazards in `PROJECT.json`, five have no property; each says why.
* `NamesReadBack` could be proved if the texts of `KeyLabel` were taken apart by recursive functions,
  as `Loops` does for sums, at the price of a model further from the code.
