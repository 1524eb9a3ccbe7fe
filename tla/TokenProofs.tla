----------------------------- MODULE TokenProofs -----------------------------
(* Theorems about Token, for any cards, readers, slots and certificates, and *)
(* any number of calls and of moves of cards.                                *)
EXTENDS Token, TLAPS, WellFoundedInduction

\* A non-empty set of numbers has a least one.
LEMMA LeastNumber ==
  ASSUME NEW S, S \subseteq Nat, S # {}
  PROVE  \E n \in S : \A m \in S : n <= m
  <1> DEFINE R == OpToRel(<, Nat)
  <1>1. IsWellFoundedOn(R, Nat)
    BY NatLessThanWellFounded
  <1> HIDE DEF R
  <1>2. PICK n \in S : \A m \in S : <<m, n>> \notin R
    BY <1>1, WFMin
  <1>3. \A a, b \in Nat : a < b => <<a, b>> \in R
    BY DEF OpToRel, R
  <1>4. ASSUME NEW m \in S PROVE n <= m
    <2>1. n \in Nat /\ m \in Nat
      OBVIOUS
    <2>2. ~(m < n)
      BY <1>2, <1>3, <2>1
    <2> QED
      BY <2>1, <2>2
  <1> QED
    BY <1>4

-----------------------------------------------------------------------------
(* The card in a reader, and the types.                                    *)

\* A slot's reader holds a card or none.
LEMMA CardInType ==
  ASSUME TypeOK, NEW s \in Slot
  PROVE  /\ ReaderOf[s] \in Reader
         /\ CardIn(s) \in Card \cup {NoCard}
  BY ReadersAssumption DEF TypeOK, CardIn

\* The types hold initially.
LEMMA TypeInit == Init => TypeOK
  <1> SUFFICES ASSUME Init PROVE TypeOK
    OBVIOUS
  <1>1. tries \in [Card \X Slot -> 0..MaxTries]
    BY ReadersAssumption DEF Init
  <1>2. session \in [slot : Slot \cup {0}, card : Card \cup {NoCard}]
    BY DEF Init, NoSession
  <1> QED
    BY <1>1, <1>2 DEF Init, TypeOK, NoSession

\* The key of an identity that is offered.
LEMMA EntryFacts ==
  ASSUME KeysFound, NEW id \in Identities
  PROVE  /\ Entry(id) \in keys
         /\ Entry(id).key = id
         /\ Entry(id).slot \in Slot
  <1>1. \E k \in keys : k.key = id
    BY DEF Identities
  <1>2. Entry(id) \in keys /\ Entry(id).key = id
    BY <1>1 DEF Entry
  <1> QED
    BY <1>2 DEF KeysFound

\* During a call the session is on a slot.
LEMMA SessionSlot ==
  ASSUME KeysFound, SessionOfCall, pc \in InCall
  PROVE  session.slot \in Slot /\ session.slot # 0
  <1>1. session.slot \in Slot
    BY EntryFacts DEF SessionOfCall
  <1> QED
    BY <1>1, ReadersAssumption DEF Slot

\* Every step keeps the types, one case per action; that a session is on a slot
\* is part of what the calls know.
LEMMA TypeNext ==
  ASSUME TypeOK, KeysFound, SessionOfCall, [Next]_vars
  PROVE  TypeOK'
  <1> USE DEF InCall
  <1>1. ASSUME NEW r \in Reader, TakeOut(r) PROVE TypeOK'
    <2>1. reader' \in [Reader -> Card \cup {NoCard}]
      BY <1>1 DEF TakeOut, TypeOK
    <2>2. session' \in [slot : Slot \cup {0}, card : Card \cup {NoCard}]
      BY <1>1 DEF TakeOut, TypeOK
    <2>3. (session.card # NoCard => session.card = CardIn(session.slot))'
      BY <1>1 DEF TakeOut, TypeOK, CardIn
    <2>4. (pc \in InCall <=> session # NoSession)'
      <3>1. CASE session = NoSession
        BY <1>1, <3>1 DEF TakeOut, TypeOK, NoSession
      <3>2. CASE session # NoSession
        <4>1. session.slot # 0
          BY <3>2, SessionSlot DEF TypeOK
        <4>2. session'.slot = session.slot
          BY <1>1 DEF TakeOut, TypeOK
        <4> QED
          BY <1>1, <3>2, <4>1, <4>2 DEF TakeOut, TypeOK, NoSession
      <3> QED
        BY <3>1, <3>2
    <2> QED
      BY <1>1, <2>1, <2>2, <2>3, <2>4 DEF TakeOut, TypeOK, provider
  <1>2. ASSUME NEW r \in Reader, NEW c \in Card, PutIn(r, c) PROVE TypeOK'
    <2>1. reader' \in [Reader -> Card \cup {NoCard}]
      BY <1>2 DEF PutIn, TypeOK
    <2>2. (session.card # NoCard => session.card = CardIn(session.slot))'
      BY <1>2 DEF PutIn, TypeOK, CardIn
    <2> QED
      BY <1>2, <2>1, <2>2 DEF PutIn, TypeOK, provider
  <1>3. ASSUME Open PROVE TypeOK'
    <2>1. owed' \in [Slot -> Card \cup {NoCard}]
      BY <1>3, CardInType DEF Open, TypeOK
    <2> QED
      BY <1>3, <2>1 DEF Open, TypeOK, CardIn
  <1>4. ASSUME NEW s \in slots, SkipSlot(s) \/ ScanSlot(s) PROVE TypeOK'
    <2>1. Scanned(s) /\ pc = "scan"
      BY <1>4 DEF SkipSlot, ScanSlot, AtSlot
    <2>2. (pc = "scan" <=> slots # {})'
      BY <2>1 DEF Scanned
    <2>3. owed' \in [Slot -> Card \cup {NoCard}]
      <3>1. s \in Slot
        BY DEF TypeOK
      <3>2. \E c \in Card \cup {NoCard} : owed' = [owed EXCEPT ![s] = c]
        BY <1>4, <3>1, CardInType DEF SkipSlot, ScanSlot
      <3> QED
        BY <3>2 DEF TypeOK
    <2> QED
      BY <2>1, <2>2, <2>3 DEF Scanned, TypeOK, CardIn
  <1>5. ASSUME NEW id \in EcKey, NEW peer, Perform(id, peer) PROVE TypeOK'
    <2>1. CASE Fails
      BY <1>5, <2>1 DEF Perform, Begin, Fails, Returns, provider, NoSession,
         TypeOK, CardIn
    <2>2. CASE ~Fails
      <3>1. id \in Identities /\ CardIn(Entry(id).slot) # NoCard
        BY <1>5, <2>2 DEF Perform
      <3>2. Entry(id).slot \in Slot /\ Entry(id).slot # 0
        BY <3>1, EntryFacts, ReadersAssumption DEF Slot
      <3>3. CardIn(Entry(id).slot) \in Card
        BY <3>1, <3>2, CardInType
      <3>4. session' = [slot |-> Entry(id).slot, card |-> CardIn(Entry(id).slot)]
        BY <1>5, <2>2 DEF Perform
      <3>5. session' # NoSession /\ session'.card = CardIn(session'.slot)
        BY <3>2, <3>4 DEF NoSession
      <3> QED
        BY <1>5, <2>2, <3>2, <3>3, <3>4, <3>5
           DEF Perform, Begin, provider, TypeOK, CardIn
    <2> QED
      BY <2>1, <2>2
  <1>6. ASSUME AskPin PROVE TypeOK'
    BY <1>6 DEF AskPin, TypeOK, provider, CardIn
  <1>7. ASSUME NoPinGiven PROVE TypeOK'
    BY <1>7 DEF NoPinGiven, Fails, Returns, TypeOK, provider, CardIn, NoSession
  <1>8. ASSUME NEW pin \in Pin, Login(pin) PROVE TypeOK'
    <2>1. tries' \in [Card \X Slot -> 0..MaxTries]
      <3> DEFINE t == <<session.card, session.slot>>
                 n == tries[t]
      <3>1. \/ tries' = tries
            \/ tries' = [tries EXCEPT ![t] = MaxTries]
            \/ tries' = [tries EXCEPT ![t] = IF n = 0 THEN 0 ELSE n - 1]
        BY <1>8 DEF Login
      <3>2. MaxTries \in 0..MaxTries
        BY ReadersAssumption
      <3>3. \A m \in 0..MaxTries : (IF m = 0 THEN 0 ELSE m - 1) \in 0..MaxTries
        BY ReadersAssumption
      <3>4. t \in Card \X Slot => n \in 0..MaxTries
        BY DEF TypeOK
      <3> HIDE DEF t, n
      <3> QED
        BY <3>1, <3>2, <3>3, <3>4 DEF TypeOK
    <2> QED
      BY <1>8, <2>1 DEF Login, Fails, Returns, TypeOK, provider, CardIn, NoSession
  <1>9. ASSUME Derive PROVE TypeOK'
    BY <1>9 DEF Derive, Fails, Returns, TypeOK, provider, CardIn, NoSession
  <1>10. ASSUME UNCHANGED vars PROVE TypeOK'
    BY <1>10 DEF vars, TypeOK, CardIn
  <1> QED
    BY <1>1, <1>2, <1>3, <1>4, <1>5, <1>6, <1>7, <1>8, <1>9, <1>10
       DEF Next, Work, Done

-----------------------------------------------------------------------------
(* The scan.                                                               *)

\* A certificate is used exactly if its key is one for key agreement.
LEMMA UsableIsAgreement ==
  ASSUME NEW c \in Card, NEW s \in Slot, NEW i \in DOMAIN View[c][s].certs,
         Usable(View[c][s].certs[i])
  PROVE  View[c][s].certs[i].key \in Agreement(s, c)
  <1> DEFINE cert == View[c][s].certs[i]
  <1>1. cert.key \in EcKey
    BY ViewAssumption DEF Usable
  <1>2. ASSUME NEW j \in DOMAIN cert.usage
        PROVE  ~(cert.usage[j] \subseteq {"digital_signature", "non_repudiation"})
    BY <1>2 DEF Usable, PermitsKeyEstablishment
  <1> QED
    BY <1>1, <1>2 DEF Agreement, Usable

\* Every key for key agreement has a certificate that is used.
LEMMA AgreementIsUsable ==
  ASSUME NEW c \in Card, NEW s \in Slot, NEW id \in Agreement(s, c)
  PROVE  \E i \in DOMAIN View[c][s].certs :
           Usable(View[c][s].certs[i]) /\ View[c][s].certs[i].key = id
  <1>1. PICK i \in DOMAIN View[c][s].certs :
          LET cert == View[c][s].certs[i]
          IN  /\ \A j \in DOMAIN cert.usage :
                   ~(cert.usage[j] \subseteq {"digital_signature", "non_repudiation"})
              /\ cert.cka_id # {} /\ cert.key = id
    BY DEF Agreement
  <1> DEFINE cert == View[c][s].certs[i]
  <1>2. id \in EcKey /\ id \notin BadKey
    BY ReadersAssumption DEF Agreement
  <1>3. ASSUME NEW j \in DOMAIN cert.usage
        PROVE  cert.usage[j] \cap {"key_agreement", "key_encipherment"} # {}
    <2>1. cert.usage[j] \subseteq KeyUsage
      BY ViewAssumption
    <2>2. ~(cert.usage[j] \subseteq {"digital_signature", "non_repudiation"})
      BY <1>1
    <2> QED
      BY <2>1, <2>2 DEF KeyUsage
  <1> QED
    BY <1>1, <1>2, <1>3 DEF Usable, PermitsKeyEstablishment

\* The keys read from a slot come from usable certificates of the card in it,
\* each key at most once.
LEMMA CertificatesFacts ==
  ASSUME TypeOK, NEW s \in Slot, CardIn(s) # NoCard, NEW label,
         NEW readable \in SUBSET DOMAIN TokenIn(s).certs
  PROVE  LET found == CertificatesOn(s, readable, label) IN
         /\ \A k \in found : k.slot = s /\ FoundBy(k, CardIn(s))
         /\ \A k, l \in found : k.key = l.key => k = l
  <1> DEFINE c == CardIn(s)
             certs == TokenIn(s).certs
             use == {i \in readable : Usable(certs[i])}
             first == {i \in use :
                         \A j \in use : certs[j].key = certs[i].key => i <= j}
             KeyAt(i) == [key |-> certs[i].key, slot |-> s, token_label |-> label,
                          cka_id |-> certs[i].cka_id]
             found == CertificatesOn(s, readable, label)
  <1>1. c \in Card
    BY CardInType
  <1>2. certs = View[c][s].certs /\ DOMAIN certs \subseteq Nat
    BY <1>1, ViewAssumption DEF TokenIn
  <1>3. found = {KeyAt(i) : i \in first}
    BY DEF CertificatesOn
  <1>4. ASSUME NEW k \in found PROVE k.slot = s /\ FoundBy(k, c)
    <2>1. PICK i \in first : k = KeyAt(i)
      BY <1>3
    <2>2. i \in DOMAIN View[c][s].certs /\ Usable(View[c][s].certs[i])
      BY <1>2
    <2>3. /\ k.slot = s
          /\ View[c][s].certs[i].key = k.key
          /\ View[c][s].certs[i].cka_id = k.cka_id
      BY <1>2, <2>1
    <2> QED
      BY <2>2, <2>3 DEF FoundBy
  <1>5. ASSUME NEW k \in found, NEW l \in found, k.key = l.key PROVE k = l
    <2>1. PICK i \in first : k = KeyAt(i)
      BY <1>3
    <2>2. PICK j \in first : l = KeyAt(j)
      BY <1>3
    <2>3. certs[i].key = certs[j].key
      BY <1>5, <2>1, <2>2
    <2>4. i <= j /\ j <= i /\ i \in Nat /\ j \in Nat
      BY <1>2, <2>3
    <2>5. i = j
      BY <2>4
    <2> QED
      BY <2>1, <2>2, <2>5
  <1> QED
    BY <1>4, <1>5

\* No key for key agreement is left out if all certificates could be read.
LEMMA CertificatesComplete ==
  ASSUME TypeOK, NEW s \in Slot, CardIn(s) # NoCard, NEW label,
         NEW id \in Agreement(s, CardIn(s))
  PROVE  \E k \in CertificatesOn(s, DOMAIN TokenIn(s).certs, label) : k.key = id
  <1> DEFINE certs == TokenIn(s).certs
             use == {i \in DOMAIN certs : Usable(certs[i])}
             first == {i \in use :
                         \A j \in use : certs[j].key = certs[i].key => i <= j}
             KeyAt(i) == [key |-> certs[i].key, slot |-> s, token_label |-> label,
                          cka_id |-> certs[i].cka_id]
             S == {i \in use : certs[i].key = id}
  <1>1. CardIn(s) \in Card
    BY CardInType
  <1>2. certs = View[CardIn(s)][s].certs /\ DOMAIN certs \subseteq Nat
    BY <1>1, ViewAssumption DEF TokenIn
  <1>3. S # {} /\ S \subseteq Nat
    BY <1>1, <1>2, AgreementIsUsable
  <1>4. PICK n \in S : \A m \in S : n <= m
    BY <1>3, LeastNumber
  <1>5. n \in first
    BY <1>4
  <1>6. KeyAt(n) \in {KeyAt(i) : i \in first} /\ KeyAt(n).key = id
    BY <1>4, <1>5
  <1>7. CertificatesOn(s, DOMAIN certs, label) = {KeyAt(i) : i \in first}
    BY DEF CertificatesOn
  <1> QED
    BY <1>6, <1>7

\* Every step keeps what is known of the keys found.
LEMMA KeysFoundNext ==
  ASSUME TypeOK, KeysFound, [Next]_vars
  PROVE  KeysFound'
  <1>1. ASSUME NEW s \in slots, ScanSlot(s) PROVE KeysFound'
    <2>1. PICK readable \in SUBSET DOMAIN TokenIn(s).certs, label \in {TokenIn(s).label, ""} :
            keys' = AddKeys(keys, CertificatesOn(s, readable, label))
      BY <1>1 DEF ScanSlot
    <2>2. s \in Slot /\ CardIn(s) # NoCard
      BY <1>1 DEF ScanSlot, TypeOK
    <2> DEFINE found == CertificatesOn(s, readable, label)
               new == {k \in found : \A l \in keys : l.key # k.key}
    <2>3. /\ \A k \in found : k.slot = s /\ FoundBy(k, CardIn(s))
          /\ \A k, l \in found : k.key = l.key => k = l
      BY <2>2, CertificatesFacts
    <2>4. keys' = keys \cup new
      BY <2>1 DEF AddKeys
    <2>5. CardIn(s) \in Card
      BY <2>2, CardInType
    <2> HIDE DEF found
    <2>6. \A k \in keys' : k.slot \in Slot /\ \E c \in Card : FoundBy(k, c)
      BY <2>2, <2>3, <2>4, <2>5 DEF KeysFound
    <2>7. \A k, l \in keys' : k.key = l.key => k = l
      BY <2>3, <2>4 DEF KeysFound
    <2> QED
      BY <2>6, <2>7 DEF KeysFound
  <1>2. ASSUME UNCHANGED keys PROVE KeysFound'
    BY <1>2 DEF KeysFound
  <1> QED
    BY <1>1, <1>2 DEF Next, Work, Done, vars, provider, TakeOut, PutIn, Open,
       SkipSlot, AskPin, NoPinGiven, Login, Derive, Perform, Begin

\* Every step keeps what the scanned slots owe.
LEMMA ScannedGivenNext ==
  ASSUME TypeOK, ScannedGiven, [Next]_vars
  PROVE  ScannedGiven'
  <1>1. ASSUME NEW s \in slots, ScanSlot(s) PROVE ScannedGiven'
    <2>1. PICK readable \in SUBSET DOMAIN TokenIn(s).certs, label \in {TokenIn(s).label, ""} :
            /\ keys' = AddKeys(keys, CertificatesOn(s, readable, label))
            /\ owed' = [owed EXCEPT ![s] = IF readable = DOMAIN TokenIn(s).certs
                                          THEN CardIn(s) ELSE NoCard]
      BY <1>1 DEF ScanSlot
    <2>2. s \in Slot /\ CardIn(s) # NoCard
      BY <1>1 DEF ScanSlot, TypeOK
    <2> DEFINE found == CertificatesOn(s, readable, label)
               Ids(ks) == {k.key : k \in ks}
    <2>4. Ids(keys') = Ids(keys) \cup Ids(found)
      BY <2>1 DEF AddKeys
    <2>5. readable = DOMAIN TokenIn(s).certs =>
            Agreement(s, CardIn(s)) \subseteq Ids(found)
      <3>1. ASSUME readable = DOMAIN TokenIn(s).certs, NEW id \in Agreement(s, CardIn(s))
            PROVE  \E k \in found : k.key = id
        <4>1. \E k \in CertificatesOn(s, DOMAIN TokenIn(s).certs, label) : k.key = id
          BY <2>2, CertificatesComplete
        <4> QED
          BY <3>1, <4>1
      <3> HIDE DEF found
      <3> QED
        BY <3>1
    <2>6. slots' = slots \ {s} /\ pc = "scan"
      BY <1>1 DEF ScanSlot, Scanned, AtSlot
    <2> HIDE DEF found
    <2>7. ASSUME NEW t \in Slot \ slots', owed'[t] # NoCard
          PROVE  Agreement(t, owed'[t]) \subseteq Ids(keys')
      <3>1. CASE t = s
        <4>1. readable = DOMAIN TokenIn(s).certs /\ owed'[t] = CardIn(s)
          BY <2>1, <2>2, <2>7, <3>1 DEF TypeOK
        <4> QED
          BY <2>4, <2>5, <3>1, <4>1
      <3>2. CASE t # s
        <4>1. t \in Slot \ slots /\ owed'[t] = owed[t]
          BY <2>1, <2>6, <3>2 DEF TypeOK
        <4>2. Agreement(t, owed[t]) \subseteq Ids(keys)
          BY <2>6, <2>7, <4>1 DEF ScannedGiven, Identities
        <4> QED
          BY <2>4, <4>1, <4>2
      <3> QED
        BY <3>1, <3>2
    <2>8. Identities' = Ids(keys')
      BY DEF Identities
    <2> QED
      BY <2>7, <2>8 DEF ScannedGiven, Agreement
  <1>2. ASSUME NEW s \in slots, SkipSlot(s) PROVE ScannedGiven'
    <2>1. s \in Slot /\ owed' = [owed EXCEPT ![s] = NoCard] /\ keys' = keys
      BY <1>2 DEF SkipSlot, TypeOK
    <2>2. slots' = slots \ {s} /\ pc = "scan"
      BY <1>2 DEF SkipSlot, Scanned, AtSlot
    <2>3. ASSUME NEW t \in Slot \ slots', owed'[t] # NoCard
          PROVE  t \in Slot \ slots /\ owed'[t] = owed[t]
      BY <2>1, <2>2, <2>3 DEF TypeOK
    <2> QED
      BY <2>1, <2>2, <2>3 DEF ScannedGiven, Agreement, Identities
  <1>3. ASSUME Open PROVE ScannedGiven'
    <2>1. CASE pc' = "failed"
      BY <2>1 DEF ScannedGiven
    <2>2. CASE pc' # "failed"
      <3>1. /\ slots' = {s \in Slot : CardIn(s) # NoCard}
            /\ owed' = [s \in Slot |-> CardIn(s)]
        BY <1>3, <2>2 DEF Open
      <3> QED
        BY <3>1 DEF ScannedGiven
    <2> QED
      BY <2>1, <2>2
  <1>4. ASSUME UNCHANGED provider,
               pc \in {"closed", "failed"} => pc' = pc
        PROVE  ScannedGiven'
    BY <1>4 DEF ScannedGiven, provider, Agreement, Identities
  <1> QED
    BY <1>1, <1>2, <1>3, <1>4 DEF Next, Work, Done, vars, provider, TakeOut,
       PutIn, AskPin, NoPinGiven, Login, Derive, Fails, Returns, Perform, Begin

-----------------------------------------------------------------------------
(* The calls.                                                              *)

\* Every step keeps what a call knows of its session, its key and its card.
LEMMA SessionOfCallNext ==
  ASSUME TypeOK, KeysFound, SessionOfCall, PinToOpenedCard, [Next]_vars
  PROVE  SessionOfCall'
  <1> USE DEF InCall
  <1>1. ASSUME NEW r \in Reader, TakeOut(r) PROVE SessionOfCall'
    <2>1. /\ session'.slot = session.slot
          /\ session'.card # NoCard => session'.card = session.card
      BY <1>1 DEF TakeOut, TypeOK
    <2> QED
      BY <1>1, <2>1 DEF TakeOut, provider, SessionOfCall, Entry, Identities
  <1>2. ASSUME NEW r \in Reader, NEW c \in Card, PutIn(r, c) PROVE SessionOfCall'
    BY <1>2 DEF PutIn, provider, SessionOfCall, Entry, Identities
  <1>3. ASSUME Open PROVE SessionOfCall'
    BY <1>3 DEF Open, SessionOfCall
  <1>4. ASSUME NEW s \in slots, SkipSlot(s) \/ ScanSlot(s) PROVE SessionOfCall'
    BY <1>4 DEF SkipSlot, ScanSlot, Scanned, AtSlot, SessionOfCall
  <1>5. ASSUME NEW id \in EcKey, NEW peer, Perform(id, peer) PROVE SessionOfCall'
    <2>1. CASE Fails
      BY <2>1 DEF Fails, Returns, SessionOfCall
    <2>2. CASE ~Fails
      <3>1. /\ id \in Identities /\ result' = None /\ pc' = "ask"
            /\ session' = [slot |-> Entry(id).slot, card |-> CardIn(Entry(id).slot)]
            /\ call' = [id |-> id, peer |-> peer] /\ keys' = keys /\ checked' = NoCard
            /\ sent' = 0
        BY <1>5, <2>2 DEF Perform, Begin, provider
      <3>2. session'.slot = Entry(id).slot /\ call'.id = id
        BY <3>1
      <3> QED
        BY <3>1, <3>2 DEF SessionOfCall, Entry, Identities
    <2> QED
      BY <2>1, <2>2
  <1>6. ASSUME AskPin PROVE SessionOfCall'
    BY <1>6 DEF AskPin, provider, SessionOfCall, Entry, Identities, TypeOK
  <1>7. ASSUME NoPinGiven PROVE SessionOfCall'
    BY <1>7 DEF NoPinGiven, Fails, Returns, SessionOfCall
  <1>8. ASSUME NEW pin \in Pin, Login(pin) PROVE SessionOfCall'
    <2>1. CASE pc' = "ready"
      BY <2>1 DEF SessionOfCall
    <2>2. CASE pc' # "ready"
      BY <1>8, <2>2 DEF Login, Fails, Returns, provider, SessionOfCall, Entry,
         Identities
    <2> QED
      BY <2>1, <2>2
  <1>9. ASSUME Derive PROVE SessionOfCall'
    BY <1>9 DEF Derive, Fails, Returns, SessionOfCall
  <1>10. ASSUME UNCHANGED vars PROVE SessionOfCall'
    BY <1>10 DEF vars, SessionOfCall, Entry, Identities
  <1> QED
    BY <1>1, <1>2, <1>3, <1>4, <1>5, <1>6, <1>7, <1>8, <1>9, <1>10
       DEF Next, Work, Done

\* Every step keeps PINs with the card they were asked for: login is the only
\* step in which a card sees one.
LEMMA PinToOpenedCardNext ==
  ASSUME SessionOfCall, PinToOpenedCard, [Next]_vars
  PROVE  PinToOpenedCard'
  <1>1. ASSUME NEW pin \in Pin, Login(pin) PROVE PinToOpenedCard'
    BY <1>1 DEF Login, SessionOfCall, PinToOpenedCard
  <1>2. ASSUME AskPin PROVE PinToOpenedCard'
    BY <1>2 DEF AskPin, SessionOfCall, PinToOpenedCard
  <1>3. ASSUME NEW id \in EcKey, NEW peer, Perform(id, peer) PROVE PinToOpenedCard'
    BY <1>3 DEF Perform, Begin, PinToOpenedCard
  <1>4. ASSUME UNCHANGED <<prompt, checked>> PROVE PinToOpenedCard'
    BY <1>4 DEF PinToOpenedCard
  <1> QED
    BY <1>1, <1>2, <1>3, <1>4 DEF Next, Work, Done, vars, TakeOut, PutIn, Open,
       SkipSlot, ScanSlot, Scanned, NoPinGiven, Derive

\* A private key found by the CKA_ID of a certificate on its own card belongs to
\* that certificate: the card that checked the PIN either has the identity, and
\* then the identity's own secret is returned, or does not have it.
LEMMA PrivateKeyOfIdentity ==
  ASSUME KeysFound, NEW id \in Identities, NEW c \in Card,
         id \in Agreement(Entry(id).slot, c),
         NEW k \in PrivateKeys(Entry(id).slot, c, Entry(id).cka_id)
  PROVE  k.key = id
  <1> DEFINE e == Entry(id)
             s == e.slot
  <1>1. e \in keys /\ e.key = id /\ s \in Slot
    BY EntryFacts
  <1>2. PICK d \in Card : FoundBy(e, d)
    BY <1>1 DEF KeysFound
  <1>3. PICK i \in DOMAIN View[d][s].certs :
          /\ Usable(View[d][s].certs[i])
          /\ View[d][s].certs[i].key = id
          /\ View[d][s].certs[i].cka_id = e.cka_id
    BY <1>1, <1>2 DEF FoundBy
  <1>4. PICK j \in DOMAIN View[c][s].certs : View[c][s].certs[j].key = id
    BY <1>1, AgreementIsUsable
  <1>5. id \in EcKey
    BY DEF Agreement
  <1>6. c = d
    BY <1>1, <1>3, <1>4, <1>5, OneCardAssumption
  <1>7. PICK n \in DOMAIN View[c][s].keys :
          /\ View[c][s].keys[n] = k
          /\ View[c][s].keys[n].cka_id \in e.cka_id
    BY DEF PrivateKeys
  <1> QED
    BY <1>1, <1>3, <1>6, <1>7, CkaIdAssumption

\* Whether the card that checked the PIN has the identity that was asked for
\* depends on the keys, the call and that card alone.
LEMMA HasIdentityStays ==
  ASSUME UNCHANGED <<keys, call, checked>>
  PROVE  (call.id \in Agreement(Entry(call.id).slot, checked))'
           <=> call.id \in Agreement(Entry(call.id).slot, checked)
  <1>1. Entry(call.id)' = Entry(call.id)
    BY DEF Entry
  <1> QED
    BY <1>1 DEF Agreement

\* Every step keeps that a secret is that of the identity asked for.
LEMMA SecretOfIdentityNext ==
  ASSUME TypeOK, KeysFound, SessionOfCall, PinToOpenedCard, SecretOfIdentity,
         [Next]_vars
  PROVE  SecretOfIdentity'
  <1> USE DEF InCall
  <1>1. ASSUME Derive PROVE SecretOfIdentity'
    <2>1. CASE Fails
      BY <2>1 DEF Fails, Returns, SecretOfIdentity
    <2>2. CASE ~Fails
      <3>1. /\ session.card # NoCard /\ pc = "derive"
            /\ \E k \in PrivateKeys(session.slot, session.card, Entry(call.id).cka_id) :
                 Returns("secret", k.key)
            /\ UNCHANGED <<provider, call, checked>>
        BY <1>1, <2>2 DEF Derive
      <3>2. PICK k \in PrivateKeys(session.slot, session.card, Entry(call.id).cka_id) :
              Returns("secret", k.key)
        BY <3>1
      <3>3. result'.key = k.key
        BY <3>2 DEF Returns
      <3>4. /\ call.id \in Identities /\ session.slot = Entry(call.id).slot
            /\ checked = session.card
        BY <3>1 DEF SessionOfCall, PinToOpenedCard
      <3>5. session.card \in Card
        BY <3>1 DEF TypeOK
      <3>6. k.key = call.id \/ call.id \notin Agreement(Entry(call.id).slot, checked)
        BY <3>2, <3>4, <3>5, PrivateKeyOfIdentity
      <3> QED
        BY <3>1, <3>3, <3>6, HasIdentityStays DEF SecretOfIdentity, provider
    <2> QED
      BY <2>1, <2>2
  <1>2. ASSUME UNCHANGED <<result, keys, call, checked>> PROVE SecretOfIdentity'
    BY <1>2, HasIdentityStays DEF SecretOfIdentity
  <1>3. ASSUME result'.kind # "secret" PROVE SecretOfIdentity'
    BY <1>3 DEF SecretOfIdentity
  <1>4. ASSUME NEW s \in slots, SkipSlot(s) \/ ScanSlot(s) PROVE SecretOfIdentity'
    <2>1. result' = None
      BY <1>4 DEF SkipSlot, ScanSlot, Scanned, AtSlot, SessionOfCall
    <2> QED
      BY <1>3, <2>1 DEF None
  <1>5. ASSUME NEW id \in EcKey, NEW peer, Perform(id, peer) PROVE SecretOfIdentity'
    <2>1. result' = None \/ Fails
      BY <1>5 DEF Perform
    <2> QED
      BY <1>3, <2>1 DEF None, Fails, Returns
  <1>6. ASSUME NEW pin \in Pin, Login(pin) PROVE SecretOfIdentity'
    <2>1. result' = result \/ Fails
      BY <1>6 DEF Login
    <2>2. result = None
      BY <1>6 DEF Login, SessionOfCall
    <2> QED
      BY <1>3, <2>1, <2>2 DEF None, Fails, Returns
  <1>7. ASSUME NoPinGiven PROVE SecretOfIdentity'
    BY <1>3, <1>7 DEF NoPinGiven, Fails, Returns
  <1> QED
    BY <1>1, <1>2, <1>4, <1>5, <1>6, <1>7 DEF Next, Work, Done, vars, provider,
       TakeOut, PutIn, Open, AskPin

-----------------------------------------------------------------------------
(* The theorems.                                                           *)

\* The inductive invariant: the types, what is known of the keys, the scanned
\* slots and the session, and the two properties of the calls.
THEOREM Invariance == Spec => []IndInv
  <1>1. Init => IndInv
    <2> SUFFICES ASSUME Init PROVE IndInv
      OBVIOUS
    <2>1. TypeOK
      BY TypeInit
    <2>2. KeysFound /\ ScannedGiven /\ SessionOfCall
      BY DEF Init, KeysFound, ScannedGiven, SessionOfCall, InCall
    <2>3. PinToOpenedCard /\ SecretOfIdentity
      BY DEF Init, PinToOpenedCard, SecretOfIdentity, None
    <2> QED
      BY <2>1, <2>2, <2>3 DEF IndInv, BooksKept
  <1>2. IndInv /\ [Next]_vars => IndInv'
    <2> SUFFICES ASSUME IndInv, [Next]_vars PROVE IndInv'
      OBVIOUS
    <2>1. TypeOK /\ KeysFound /\ ScannedGiven /\ SessionOfCall
      BY DEF IndInv, BooksKept
    <2>2. PinToOpenedCard /\ SecretOfIdentity
      BY DEF IndInv
    <2> QED
      BY <2>1, <2>2, TypeNext, KeysFoundNext, ScannedGivenNext,
         SessionOfCallNext, PinToOpenedCardNext, SecretOfIdentityNext
         DEF IndInv, BooksKept
  <1> QED
    BY <1>1, <1>2, PTL DEF Spec

\* Type correctness: a session is with the card that is in its reader, and
\* exists exactly during a call (perform).
THEOREM TypeCorrect == Spec => []TypeOK
  <1>1. IndInv => TypeOK
    BY DEF IndInv
  <1> QED
    BY <1>1, Invariance, PTL

\* A PIN is checked only by the card it was asked for, whatever cards are
\* exchanged while the prompt is up (login).
THEOREM PinSafe == Spec => []PinToOpenedCard
  <1>1. IndInv => PinToOpenedCard
    BY DEF IndInv
  <1> QED
    BY <1>1, Invariance, PTL

\* A secret returned is that of the identity asked for, unless the card in the
\* slot does not have it (key_for, private_key).
THEOREM SecretRight == Spec => []SecretOfIdentity
  <1>1. IndInv => SecretOfIdentity
    BY DEF IndInv
  <1> QED
    BY <1>1, Invariance, PTL

\* The scan finds every key-agreement key of every token that could be read, each
\* once, and offers no other key (discover).
THEOREM ScanComplete == Spec => []CardFound
  <1>1. IndInv => CardFound
    <2> SUFFICES ASSUME IndInv, pc \notin {"closed", "failed", "scan"}
                 PROVE  CardFound
      BY DEF CardFound
    <2>1. TypeOK /\ KeysFound /\ ScannedGiven
      BY DEF IndInv, BooksKept
    <2>2. slots = {}
      BY <2>1 DEF TypeOK
    <2>3. ASSUME NEW s \in Slot, owed[s] # NoCard, NEW id \in Agreement(s, owed[s])
          PROVE  \E k \in keys : k.key = id
      BY <2>1, <2>2, <2>3 DEF ScannedGiven, Identities
    <2>4. ASSUME NEW k \in keys
          PROVE  \E c \in Card : k.key \in Agreement(k.slot, c)
      <3>1. k.slot \in Slot
        BY <2>1 DEF KeysFound
      <3>2. PICK c \in Card : FoundBy(k, c)
        BY <2>1 DEF KeysFound
      <3>3. PICK i \in DOMAIN View[c][k.slot].certs :
              Usable(View[c][k.slot].certs[i]) /\ View[c][k.slot].certs[i].key = k.key
        BY <3>2 DEF FoundBy
      <3> QED
        BY <3>1, <3>3, UsableIsAgreement
    <2> QED
      BY <2>1, <2>3, <2>4 DEF CardFound, KeysFound
  <1> QED
    BY <1>1, Invariance, PTL

-----------------------------------------------------------------------------
(* The refinement.                                                         *)

\* Where the provider is not open.
Closed == {"closed", "failed", "scan"}

\* Keys found on cards are keys that umbrik can use.
LEMMA KeysAreEcKeys ==
  ASSUME NEW found,
         \A k \in found : k.slot \in Slot /\ \E c \in Card : FoundBy(k, c)
  PROVE  {k.key : k \in found} \in SUBSET EcKey
  <1> SUFFICES ASSUME NEW k \in found PROVE k.key \in EcKey
    OBVIOUS
  <1>1. PICK c \in Card : FoundBy(k, c)
    OBVIOUS
  <1> QED
    BY <1>1, ViewAssumption DEF FoundBy, Usable

\* Every step of the provider is one of its abstract specification, or none.
LEMMA StepRefines ==
  ASSUME TypeOK, KeysFound, KeysFound', SessionOfCall, [Next]_vars
  PROVE  [Promise!Next]_(Promise!vars)
  <1>1. ASSUME UNCHANGED <<pc, keys, result, sent>>
        PROVE  UNCHANGED Promise!vars
    BY <1>1 DEF Promise!vars, Identities
  <1>2. ASSUME pc = "closed" \/ pc = "scan", pc' \in Closed, UNCHANGED <<result, sent>>
        PROVE  UNCHANGED Promise!vars
    BY <1>2 DEF Promise!vars, Closed
  <1>3. ASSUME pc \in Closed, pc' = "ready", UNCHANGED <<result, sent>>
        PROVE  Promise!Open
    <2>1. Identities' \in SUBSET EcKey
      BY KeysAreEcKeys DEF KeysFound, Identities
    <2> QED
      BY <1>3, <2>1 DEF Promise!Open, Closed
  <1>4. ASSUME pc \in {"ask", "login", "derive"}, UNCHANGED <<keys, sent>>, Fails
        PROVE  Promise!Return("error")
    BY <1>4 DEF Promise!Return, Closed, Fails, Returns, Identities
  <1>5. ASSUME Open PROVE [Promise!Next]_(Promise!vars)
    BY <1>2, <1>3, <1>5 DEF Open, Promise!Next, Closed
  <1>6. ASSUME NEW s \in slots, SkipSlot(s) \/ ScanSlot(s)
        PROVE  [Promise!Next]_(Promise!vars)
    BY <1>2, <1>3, <1>6 DEF SkipSlot, ScanSlot, AtSlot, Scanned, Promise!Next, Closed
  <1>7. ASSUME NEW id \in EcKey, NEW peer, Perform(id, peer)
        PROVE  [Promise!Next]_(Promise!vars)
    <2>1. pc = "ready" /\ pc \notin Closed /\ UNCHANGED keys /\ sent' = 0
      BY <1>7 DEF Perform, Begin, Closed, provider
    <2>2. CASE Fails
      <3>1. Promise!Call
        BY <2>1, <2>2 DEF Promise!Call, Fails, Returns, Closed, Identities
      <3> QED
        BY <3>1 DEF Promise!Next
    <2>3. CASE ~Fails
      <3>1. pc' = "ask" /\ result' = None
        BY <1>7, <2>3 DEF Perform
      <3>2. Promise!Call
        BY <2>1, <3>1 DEF Promise!Call, None, Closed, Identities
      <3> QED
        BY <3>2 DEF Promise!Next
    <2> QED
      BY <2>2, <2>3
  <1>8. ASSUME AskPin PROVE Promise!Ask
    BY <1>8 DEF AskPin, Promise!Ask, provider, Identities
  <1>9. ASSUME NoPinGiven PROVE Promise!Return("error")
    BY <1>4, <1>9 DEF NoPinGiven, Closed, provider
  <1>10. ASSUME NEW pin \in Pin, Login(pin) PROVE Promise!Send \/ Promise!Return("error")
    <2>1. pc = "login" /\ UNCHANGED keys
      BY <1>10 DEF Login, provider
    <2>4. sent = 0 /\ (UNCHANGED sent \/ sent' = 1)
      BY <1>10 DEF Login, SessionOfCall
    <2>2. CASE Fails
      <3>1. CASE UNCHANGED sent
        BY <1>4, <2>1, <2>2, <3>1
      <3>2. CASE sent' = 1
        BY <2>1, <2>2, <2>4, <3>2 DEF Promise!Send, Fails, Returns, Closed, Identities
      <3> QED
        BY <2>4, <3>1, <3>2
    <2>3. CASE ~Fails
      <3>1. pc' = "derive" /\ UNCHANGED result /\ sent' = 1
        BY <1>10, <2>3, <2>4 DEF Login
      <3>2. Promise!Send
        BY <2>1, <2>4, <3>1 DEF Promise!Send, Identities
      <3> QED
        BY <3>2
    <2> QED
      BY <2>2, <2>3
  <1>11. ASSUME Derive PROVE Promise!Return("secret") \/ Promise!Return("error")
    <2>1. pc = "derive" /\ UNCHANGED <<keys, sent>>
      BY <1>11 DEF Derive, provider
    <2>2. CASE Fails
      BY <1>4, <2>1, <2>2 DEF Closed
    <2>3. CASE ~Fails
      <3>1. pc' = "ready" /\ result'.kind = "secret"
        BY <1>11, <2>3 DEF Derive, Returns
      <3>2. Promise!Return("secret")
        BY <2>1, <3>1 DEF Promise!Return, Identities
      <3> QED
        BY <3>2
    <2> QED
      BY <2>2, <2>3
  <1>12. CASE UNCHANGED vars
    BY <1>1, <1>12 DEF vars
  <1>13. ASSUME NEW r \in Reader, TakeOut(r) \/ \E c \in Card : PutIn(r, c)
         PROVE  UNCHANGED Promise!vars
    BY <1>1, <1>13 DEF TakeOut, PutIn, provider
  <1> QED
    BY <1>5, <1>6, <1>7, <1>8, <1>9, <1>10, <1>11, <1>12, <1>13
       DEF Next, Work, Done, Promise!Next

\* The provider implements KeyProvider as open_header relies on it: identities
\* are fixed, a call asks for one PIN, sends the card at most one, whatever it
\* says to it, and gives a secret only after the card has accepted it.
THEOREM Refinement == Spec => ImplementsProvider
  <1>1. Init => Promise!Init
    BY DEF Init, Promise!Init, None
  <1>2. IndInv /\ IndInv' /\ [Next]_vars => [Promise!Next]_(Promise!vars)
    BY StepRefines DEF IndInv, BooksKept
  <1> QED
    BY <1>1, <1>2, Invariance, PTL DEF Spec, ImplementsProvider, Promise!Spec
=============================================================================
