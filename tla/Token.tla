------------------------------- MODULE Token ---------------------------------
(***************************************************************************)
(* The PKCS#11 key provider of crates/umbrik-pkcs11 with the PIN source of *)
(* main.rs: open scans the tokens, perform logs in and derives, while the  *)
(* user takes cards out of the readers and puts others in.                 *)
(*                                                                         *)
(* A card shows a token in each slot of its reader: View[card][slot] is    *)
(* [label, pin, certs, keys], with certs a sequence of [cka_id, key,       *)
(* usage] (cka_id a set of at most one; key one of BadKey if cert.rs       *)
(* refuses it; usage a sequence of at most one, the keyUsage, empty if it  *)
(* is absent or malformed) and keys, the private keys, a sequence of       *)
(* [cka_id, key].  Usages that establish no key are told apart only as far *)
(* as KeyUsage names them.                                                 *)
(***************************************************************************)
EXTENDS Integers, Sequences

CONSTANTS
  SlotCount,  \* the module lists its slots as 1, 2, ...
  Reader,
  ReaderOf,   \* slot -> the reader it belongs to
  Card,
  NoCard,     \* in an empty reader
  View,       \* card -> slot -> the token the card shows there
  EcKey,      \* the keys umbrik can use
  BadKey,     \* keys of certificates that cert.rs refuses
  Pin,        \* what may be typed
  MaxTries,   \* wrong PINs a token takes before it blocks
  MaxMoves,   \* bound on the cards taken out and put in
  MaxCalls    \* bound on the calls of perform

Slot == 1..SlotCount
NoPin == ""
Point == "point"            \* a sender's public key, and one without bytes
EmptyPoint == "empty point"
KeyUsage == {"digital_signature", "non_repudiation", "key_encipherment",
             "key_agreement"}

ASSUME ReadersAssumption ==
  /\ SlotCount \in Nat
  /\ ReaderOf \in [Slot -> Reader]
  /\ NoCard \notin Card
  /\ NoPin \notin Pin
  /\ EcKey \cap BadKey = {}
  /\ MaxTries \in Nat /\ MaxMoves \in Nat /\ MaxCalls \in Nat

\* What is read from a token.
ASSUME ViewAssumption ==
  \A c \in Card, s \in Slot :
    /\ DOMAIN View[c][s].certs \subseteq Nat
    /\ \A i \in DOMAIN View[c][s].certs :
         LET cert == View[c][s].certs[i] IN
         /\ cert.key \in EcKey \cup BadKey
         /\ \A j \in DOMAIN cert.usage : cert.usage[j] \subseteq KeyUsage

\* A private key never leaves its card.
ASSUME OneCardAssumption ==
  \A c, d \in Card, s, t \in Slot :
    \A i \in DOMAIN View[c][s].certs, j \in DOMAIN View[d][t].certs :
      /\ View[c][s].certs[i].key = View[d][t].certs[j].key
      /\ View[c][s].certs[i].key \in EcKey
      => c = d

\* CKA_ID ties a certificate to its private key, on one token.
ASSUME CkaIdAssumption ==
  \A c \in Card, s \in Slot :
    LET t == View[c][s] IN
    \A i \in DOMAIN t.certs, j \in DOMAIN t.keys :
      t.keys[j].cka_id \in t.certs[i].cka_id => t.keys[j].key = t.certs[i].key

VARIABLES
  reader,   \* reader -> the card in it, or NoCard
  tries,    \* <<card, slot>> -> wrong PINs its token still takes
  moves,    \* cards moved
  pc,       \* where the provider is
  slots,    \* the slots still to be scanned, the first one first
  keys,     \* the TokenKeys; in their order nothing looks for a second one
  call,     \* the arguments of perform: [id, peer]
  session,  \* [slot, card], the card NoCard once it has been taken out
  result,   \* of the last perform: [kind, key]
  calls,    \* calls of perform
  owed,     \* slot -> the card whose keys are to be found there, or NoCard
            \* (history)
  prompt,   \* [card, label]: what was in the reader, and shown, when the PIN
            \* was asked for (history)
  checked,  \* the card that last checked a PIN in this call (history)
  sent      \* PINs sent to a card in this call (history)

provider == <<slots, keys, owed>>
vars == <<reader, tries, moves, pc, slots, keys, call, session, result, calls,
          owed, prompt, checked, sent>>

None == [kind |-> "none", key |-> NoCard]
NoSession == [slot |-> 0, card |-> NoCard]
NoPrompt == [card |-> NoCard, label |-> ""]

Init ==
  /\ reader \in {r \in [Reader -> Card \cup {NoCard}] :
                   \A a, b \in Reader : r[a] = r[b] => a = b \/ r[a] = NoCard}
  /\ tries = [t \in Card \X Slot |-> MaxTries]
  /\ moves = 0
  /\ pc = "closed"
  /\ slots = {} /\ keys = {} /\ owed = [s \in Slot |-> NoCard]
  /\ call = [id |-> NoCard, peer |-> Point]
  /\ session = NoSession
  /\ result = None
  /\ calls = 0
  /\ prompt = NoPrompt /\ checked = NoCard /\ sent = 0

-----------------------------------------------------------------------------
(* The user and the cards.                                                 *)

CardIn(s) == reader[ReaderOf[s]]
TokenIn(s) == View[CardIn(s)][s]

\* A session ends with the card's presence: it does not pass to another card.
TakeOut(r) ==
  /\ moves < MaxMoves
  /\ reader[r] # NoCard
  /\ reader' = [reader EXCEPT ![r] = NoCard]
  /\ session' = IF session.card = reader[r]
                THEN [session EXCEPT !.card = NoCard] ELSE session
  /\ moves' = moves + 1
  /\ UNCHANGED <<tries, pc, provider, call, result, calls, prompt, checked, sent>>

PutIn(r, c) ==
  /\ moves < MaxMoves
  /\ reader[r] = NoCard
  /\ \A other \in Reader : reader[other] # c
  /\ reader' = [reader EXCEPT ![r] = c]
  /\ moves' = moves + 1
  /\ UNCHANGED <<tries, pc, provider, call, session, result, calls, prompt,
                 checked, sent>>

-----------------------------------------------------------------------------
(* Pkcs11KeyProvider::open.                                                *)

\* Load and initialise the module, and list the slots with a token.
Open ==
  /\ pc = "closed"
  /\ LET present == {s \in Slot : CardIn(s) # NoCard}
     IN  \/ /\ pc' = "failed"
            /\ UNCHANGED <<slots, owed>>
         \/ /\ slots' = present
            /\ owed' = [s \in Slot |-> CardIn(s)]
            /\ pc' = IF present = {} THEN "ready" ELSE "scan"
  /\ UNCHANGED <<reader, tries, moves, keys, call, session, result, calls,
                 prompt, checked, sent>>

\* permits_key_establishment.
PermitsKeyEstablishment(cert) ==
  \A i \in DOMAIN cert.usage :
    cert.usage[i] \cap {"key_agreement", "key_encipherment"} # {}

\* Mutant of Usable: signing certificates, too.
UsableAny(cert) == cert.cka_id # {} /\ cert.key \notin BadKey

\* certificates_on: a certificate with an id, parsed, for key agreement.
Usable(cert) == cert.cka_id # {} /\ cert.key \notin BadKey
                /\ PermitsKeyEstablishment(cert)

\* The keys on the token in slot s, of the certificates that could be read; of
\* several for one key, the first.
CertificatesOn(s, readable, label) ==
  LET certs == TokenIn(s).certs
      found == {i \in readable : Usable(certs[i])}
      first == {i \in found :
                  \A j \in found : certs[j].key = certs[i].key => i <= j}
  IN  {[key |-> certs[i].key, slot |-> s, token_label |-> label,
        cka_id |-> certs[i].cka_id] : i \in first}

\* Mutant of AddKeys: a key is listed once per slot.
AddKeysPerSlot(known, found) == known \cup found

\* One card shows in several slots: the first one that offers a key is kept.
AddKeys(known, found) ==
  known \cup {k \in found : \A l \in known : l.key # k.key}

\* The scan goes through the slots in the order of the module.
AtSlot(s) == pc = "scan" /\ \A t \in slots : s <= t

Scanned(s) ==
  /\ slots' = slots \ {s}
  /\ pc' = IF slots = {s} THEN "ready" ELSE "scan"
  /\ UNCHANGED <<reader, tries, moves, call, session, result, calls, prompt,
                 checked, sent>>

\* Mutant of SkipSlot: a token that cannot be read ends the scan.
SkipSlotEnds(s) ==
  /\ AtSlot(s)
  /\ slots' = {}
  /\ pc' = "ready"
  /\ owed' = [owed EXCEPT ![s] = NoCard]
  /\ UNCHANGED <<reader, tries, moves, keys, call, session, result, calls,
                 prompt, checked, sent>>

\* No session, or no list of its certificates: on to the next slot.
SkipSlot(s) ==
  /\ AtSlot(s)
  /\ owed' = [owed EXCEPT ![s] = NoCard]
  /\ UNCHANGED keys
  /\ Scanned(s)

\* discover, one slot.  Any certificate, and the label, may be unreadable.
ScanSlot(s) ==
  /\ AtSlot(s)
  /\ CardIn(s) # NoCard
  /\ \E readable \in SUBSET DOMAIN TokenIn(s).certs,
        label \in {TokenIn(s).label, ""} :
       /\ keys' = AddKeys(keys, CertificatesOn(s, readable, label))
       /\ owed' = [owed EXCEPT ![s] = IF readable = DOMAIN TokenIn(s).certs
                                     THEN CardIn(s) ELSE NoCard]
  /\ Scanned(s)

-----------------------------------------------------------------------------
(* perform.                                                                *)

Identities == {k.key : k \in keys}

Entry(id) == CHOOSE k \in keys : k.key = id

\* perform returns, and the session is dropped with it.
Returns(kind, k) ==
  /\ result' = [kind |-> kind, key |-> k]
  /\ session' = NoSession
  /\ pc' = "ready"
Fails == Returns("error", NoCard)

Begin(id, peer) ==
  /\ pc = "ready"
  /\ calls < MaxCalls
  /\ calls' = calls + 1
  /\ call' = [id |-> id, peer |-> peer]
  /\ prompt' = NoPrompt /\ checked' = NoCard /\ sent' = 0
  /\ UNCHANGED <<reader, tries, moves, provider>>

\* key_for, then the session on the slot where the key was found.
Perform(id, peer) ==
  /\ Begin(id, peer)
  /\ \/ Fails
     \/ /\ id \in Identities
        /\ CardIn(Entry(id).slot) # NoCard
        /\ result' = None
        /\ session' = [slot |-> Entry(id).slot, card |-> CardIn(Entry(id).slot)]
        /\ pc' = "ask"

\* The prompt names the token that had the slot when it was scanned.
AskPin ==
  /\ pc = "ask"
  /\ prompt' = [card |-> CardIn(session.slot), label |-> Entry(call.id).token_label]
  /\ pc' = "login"
  /\ UNCHANGED <<reader, tries, moves, provider, call, session, result, calls,
                 checked, sent>>

\* The PIN file or the terminal gives nothing, or nothing but a line end.
NoPinGiven ==
  /\ pc = "login"
  /\ Fails
  /\ UNCHANGED <<reader, tries, moves, provider, call, calls, prompt, checked, sent>>

Accepts(c, s, pin) == tries[<<c, s>>] > 0 /\ pin = View[c][s].pin

\* Mutant of Login: the session is opened once the PIN is there.
LoginOpensAfter(pin) ==
  /\ pc = "login"
  /\ LET c == CardIn(session.slot)
         s == session.slot IN
     \/ /\ c = NoCard
        /\ Fails
        /\ UNCHANGED <<tries, checked, sent>>
     \/ /\ c # NoCard
        /\ checked' = c /\ sent' = sent + 1
        /\ tries' = IF Accepts(c, s, pin) THEN [tries EXCEPT ![<<c, s>>] = MaxTries]
                    ELSE [tries EXCEPT ![<<c, s>>] = IF @ = 0 THEN 0 ELSE @ - 1]
        /\ Fails
  /\ UNCHANGED <<reader, moves, provider, call, calls, prompt>>

\* Mutant of Login: a PIN that the card refuses is sent once more.
LoginResends(pin) ==
  /\ pc = "login"
  /\ LET c == session.card
         s == session.slot IN
     \/ /\ c = NoCard
        /\ Fails
        /\ UNCHANGED <<tries, checked, sent>>
     \/ /\ c # NoCard
        /\ checked' = c
        /\ \/ /\ Accepts(c, s, pin)
              /\ tries' = [tries EXCEPT ![<<c, s>>] = MaxTries]
              /\ sent' = sent + 1
              /\ pc' = "derive"
              /\ UNCHANGED <<session, result>>
           \/ /\ ~Accepts(c, s, pin)
              /\ tries' = [tries EXCEPT ![<<c, s>>] = IF @ <= 2 THEN 0 ELSE @ - 2]
              /\ sent' = sent + 2
              /\ Fails
  /\ UNCHANGED <<reader, moves, provider, call, calls, prompt>>

\* The card in the session checks the PIN; there may be none any more.
Login(pin) ==
  /\ pc = "login"
  /\ LET c == session.card
         s == session.slot IN
     \/ /\ c = NoCard
        /\ Fails
        /\ UNCHANGED <<tries, checked, sent>>
     \/ /\ c # NoCard
        /\ checked' = c /\ sent' = sent + 1
        /\ \/ /\ Accepts(c, s, pin)
              /\ tries' = [tries EXCEPT ![<<c, s>>] = MaxTries]
              /\ pc' = "derive"
              /\ UNCHANGED <<session, result>>
           \/ /\ ~Accepts(c, s, pin)
              /\ tries' = [tries EXCEPT ![<<c, s>>] = IF @ = 0 THEN 0 ELSE @ - 1]
              /\ Fails
  /\ UNCHANGED <<reader, moves, provider, call, calls, prompt>>

\* Mutant of PrivateKeys: any private key of the token.
PrivateKeysAny(s, c, cka_id) == {View[c][s].keys[1]}

\* The private key of a certificate, by CKA_ID: the first found.
PrivateKeys(s, c, cka_id) ==
  LET held == View[c][s].keys
      hits == {i \in DOMAIN held : held[i].cka_id \in cka_id}
  IN  {held[i] : i \in {i \in hits : \A j \in hits : i <= j}}

\* Mutant of Derive: a card that has gone leaves the call waiting.
DeriveWaits ==
  /\ pc = "derive"
  /\ \/ session.card = NoCard /\ UNCHANGED <<pc, session, result>>
     \/ session.card # NoCard /\ Fails
     \/ /\ session.card # NoCard
        /\ call.peer # EmptyPoint
        /\ \E k \in PrivateKeys(session.slot, session.card, Entry(call.id).cka_id) :
             Returns("secret", k.key)
  /\ UNCHANGED <<reader, tries, moves, provider, call, calls, prompt, checked, sent>>

\* private_key and ecdh: no such key, no point, or a token that will not.
Derive ==
  /\ pc = "derive"
  /\ \/ Fails
     \/ /\ session.card # NoCard
        /\ call.peer # EmptyPoint
        /\ \E k \in PrivateKeys(session.slot, session.card, Entry(call.id).cka_id) :
             Returns("secret", k.key)
  /\ UNCHANGED <<reader, tries, moves, provider, call, calls, prompt, checked, sent>>

Done ==
  /\ \/ pc = "failed"
     \/ pc = "ready" /\ calls = MaxCalls
  /\ UNCHANGED vars

Work ==
  \/ Open
  \/ \E s \in slots : SkipSlot(s) \/ ScanSlot(s)
  \/ AskPin
  \/ NoPinGiven
  \/ \E pin \in Pin : Login(pin)
  \/ Derive

Next ==
  \/ \E r \in Reader : TakeOut(r) \/ \E c \in Card : PutIn(r, c)
  \/ Work
  \/ \E id \in EcKey, peer \in {Point, EmptyPoint} : Perform(id, peer)
  \/ Done

\* The provider runs until it returns; the user answers a prompt in the end.
Spec == Init /\ [][Next]_vars /\ WF_vars(Work)

-----------------------------------------------------------------------------
TypeOK ==
  /\ reader \in [Reader -> Card \cup {NoCard}]
  /\ tries \in [Card \X Slot -> 0..MaxTries]
  /\ pc \in {"closed", "failed", "scan", "ready", "ask", "login", "derive"}
  /\ owed \in [Slot -> Card \cup {NoCard}]
  /\ slots \subseteq Slot /\ (pc = "scan" <=> slots # {})
  /\ session \in [slot : Slot \cup {0}, card : Card \cup {NoCard}]
  /\ session.card # NoCard => session.card = CardIn(session.slot)
  /\ pc \in {"ask", "login", "derive"} <=> session # NoSession

\* The keys on a token that are not for signatures only.
Agreement(s, c) ==
  {k \in EcKey : \E i \in DOMAIN View[c][s].certs :
     LET cert == View[c][s].certs[i]
     IN  /\ \A j \in DOMAIN cert.usage :
              ~(cert.usage[j] \subseteq {"digital_signature", "non_repudiation"})
         /\ cert.cka_id # {} /\ cert.key = k}

\* Once the provider is open, every key-agreement key of every token that it
\* did not itself fail to read is offered, exactly once in however many slots it
\* shows, whatever empty, broken or pulled reader came before it; and nothing
\* but key-agreement keys of cards is offered, never a signing key, which
\* would cost a PIN2 (discover, certificates_on).
CardFound ==
  pc \notin {"closed", "failed", "scan"} =>
    /\ \A s \in Slot : owed[s] # NoCard =>
         \A id \in Agreement(s, owed[s]) : \E k \in keys : k.key = id
    /\ \A k, l \in keys : k.key = l.key => k = l
    /\ \A k \in keys : \E c \in Card : k.key \in Agreement(k.slot, c)

\* A PIN is checked only by the card that was in the reader when the user was
\* asked for it, however cards are swapped while the prompt is up: a wrong PIN
\* never counts against a card the user has put in since (login opens the
\* session before it asks).
PinToOpenedCard == checked # NoCard => checked = prompt.card

\* The secret that perform returns is the one of the identity it was asked for
\* if the card is one that was scanned in that slot, and not another with the
\* same CKA_ID put there since (key_for, private_key).
SecretOfIdentity ==
  result.kind = "secret" =>
    \/ result.key = call.id
    \/ call.id \notin Agreement(Entry(call.id).slot, checked)

-----------------------------------------------------------------------------
(* The invariants that make these properties inductive.                    *)

InCall == {"ask", "login", "derive"}

\* The certificate of a card in slot s that a key was found by.
FoundBy(k, c) ==
  \E i \in DOMAIN View[c][k.slot].certs :
    LET cert == View[c][k.slot].certs[i]
    IN  Usable(cert) /\ cert.key = k.key /\ cert.cka_id = k.cka_id

\* Every key known is that of a certificate a card shows in its slot, and is
\* known once (discover).
KeysFound ==
  /\ \A k \in keys : k.slot \in Slot /\ \E c \in Card : FoundBy(k, c)
  /\ \A k, l \in keys : k.key = l.key => k = l

\* The slots that the scan is past have given all they owe.
ScannedGiven ==
  pc \notin {"closed", "failed"} =>
    \A s \in Slot \ slots :
      owed[s] # NoCard => Agreement(s, owed[s]) \subseteq Identities

\* The session of a call is on the slot of the key that was asked for; the card
\* that was prompted for, the one in the session and the one that checks the
\* PIN are the same, as long as it stays (login).
SessionOfCall ==
  /\ pc \in InCall => /\ call.id \in Identities
                      /\ session.slot = Entry(call.id).slot
                      /\ result = None
  /\ pc \in {"ask", "login"} => checked = NoCard /\ sent = 0
  /\ pc \in {"login", "derive"} /\ session.card # NoCard =>
       prompt.card = session.card
  /\ pc = "derive" => checked # NoCard
  /\ pc \in {"closed", "failed", "scan"} => result = None

\* The scan and the calls keep their books: with TypeOK, PinToOpenedCard and
\* SecretOfIdentity this is inductive.
BooksKept == KeysFound /\ ScannedGiven /\ SessionOfCall

\* The inductive invariant of the provider: the books are in order, the PIN goes
\* to the card whose session was opened, and the secret is the identity's
\* (perform).
IndInv == TypeOK /\ BooksKept /\ PinToOpenedCard /\ SecretOfIdentity

-----------------------------------------------------------------------------
\* The provider implements what KeyProvider promises.
Promise == INSTANCE Provider WITH
  Identity <- EcKey,
  offered  <- IF pc \in {"closed", "failed", "scan"} THEN <<>> ELSE <<Identities>>,
  stage    <- CASE pc = "ask" -> "called"
                [] pc = "login" -> "asked"
                [] pc = "derive" -> "accepted"
                [] OTHER -> "idle",
  outcome  <- result.kind,
  sent     <- sent

\* Identities are fixed and cost no PIN; a call asks once, sends the card at most
\* one PIN, a refused one ending the call at once, and gives a secret only after
\* the card has accepted it (identities, perform).
ImplementsProvider == Promise!Spec

\* Opening the provider, and every call, comes to an end, whenever a card is
\* taken out, provided the user answers the prompt (discover, perform).
CallReturns == pc \notin {"ready", "failed"} ~> pc \in {"ready", "failed"}
=============================================================================
