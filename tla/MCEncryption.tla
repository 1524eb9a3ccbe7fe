---------------------------- MODULE MCEncryption -----------------------------
(* Small instances of Encryption. *)
EXTENDS Encryption

\* alice and bob are cards' keys, carol's is on a curve encrypt refuses; sim
\* and sig are a SIM's and a signature key.
Curves == [alice |-> "secp384r1", bob |-> "secp256r1", carol |-> "secp521r1",
           sim |-> "secp256r1", sig |-> "secp384r1"]
EcKeys == DOMAIN Curves

Cert(spki) == [spki |-> spki, not_before |-> {1}, not_after |-> {3}]
Expired(spki) == [spki |-> spki, not_before |-> {}, not_after |-> {1}]
Future(spki) == [spki |-> spki, not_before |-> {3}, not_after |-> {}]
Undated(spki) == [spki |-> spki, not_before |-> {}, not_after |-> {}]

Person(ou, o, certificates) ==
  [dn |-> [ou |-> ou, o |-> o], certificates |-> certificates]

Cards ==
  { Person("Authentication", "card", <<Cert("alice")>>),
    Person("Authentication", "card", <<Cert("garbled"), Undated("bob")>>),
    Person("Authentication", "card", <<Cert("other_curve")>>),
    Person("Authentication", "card", <<Cert("rsa"), Cert("alice"), Cert("bob")>>),
    Person("Authentication", "card", <<Expired("bob")>>),
    Person("Authentication", "card", <<>>),
    Person("Authentication", "Mobile-ID", <<Cert("sim")>>),
    Person("Signature", "card", <<Cert("sig")>>) }

UpTo(n, S) == UNION {[1..k -> S] : k \in 0..n}

\* Two directories: up to two entries for one person in the first and one in
\* the second, which also has a card of another's.
TwoDirectories ==
  { << [x |-> first, y |-> <<>>],
       [x |-> second, y |-> <<Person("Authentication", "card", <<Cert("bob")>>)>>] >>
    : first \in UpTo(2, Cards), second \in UpTo(1, Cards) }
OneDirectory(holds) == {<<[x |-> holds]>>}

FileName(comps) == [root |-> "none", comps |-> comps]
A == FileName(<<"a">>)
Dotted == FileName(<<DotName>>)

Bare ==
  [ password |-> <<>>, secrets |-> <<>>, pubkeys |-> <<>>, certs |-> <<>>,
    id_codes |-> <<>>, allow_expired |-> FALSE, entered |-> <<"pw">>,
    inputs |-> <<A>>, onto |-> {} ]

Secrets(n) == [i \in 1..n |-> [label |-> "L", value |-> "s1"]]

ManyCommands ==
  { Bare,
    [Bare EXCEPT !.id_codes = <<"x">>],
    [Bare EXCEPT !.id_codes = <<"x">>, !.allow_expired = TRUE],
    [Bare EXCEPT !.id_codes = <<"x", "y">>, !.inputs = <<Dotted>>],
    [Bare EXCEPT !.id_codes = <<"y", "x">>, !.password = <<<<"l", "pw">>>>],
    [Bare EXCEPT !.id_codes = <<"y", BadIdCode>>],
    [Bare EXCEPT !.password = <<<<"l">>>>,
                 !.secrets = <<[label |-> "L", value |-> "s1"]>>,
                 !.pubkeys = <<[label |-> "L", spki |-> "sig"]>>,
                 !.certs = <<Cert("alice"), Undated("bob")>>],
    [Bare EXCEPT !.password = <<<<"l">>>>, !.inputs = <<A, A>>, !.onto = {2},
                 !.certs = <<Cert("alice"), Cert("alice"), Undated("bob")>>],
    [Bare EXCEPT !.password = <<<<"l", "">>>>, !.entered = <<"">>],
    [Bare EXCEPT !.password = <<<<"", "">>>>],
    [Bare EXCEPT !.password = <<<<"", "pw">>>>],
    [Bare EXCEPT !.secrets = <<[label |-> "L", value |-> "s0"]>>],
    [Bare EXCEPT !.secrets = <<[label |-> "", value |-> "s1"]>>],
    [Bare EXCEPT !.pubkeys = <<[label |-> "L", spki |-> "carol"]>>],
    [Bare EXCEPT !.pubkeys = <<[label |-> "L", spki |-> "rsa"]>>],
    [Bare EXCEPT !.certs = <<Cert("alice"), Expired("bob")>>],
    [Bare EXCEPT !.secrets = Secrets(6)],
    [Bare EXCEPT !.certs = <<Future("alice")>>, !.allow_expired = TRUE] }

\* For the runs that show a disagreement.
OneLookup == {[Bare EXCEPT !.id_codes = <<"x">>]}
BigCurve ==
  OneDirectory(<<Person("Authentication", "card", <<Cert("alice"), Cert("carol")>>)>>)
TooMany == {[Bare EXCEPT !.secrets = Secrets(5)]}
Nowhere == OneDirectory(<<>>)

Default ==
  [ max_compression_ratio |-> 100, max_uncompressed_bytes |-> 50,
    max_entries |-> 10, allow_overwrite |-> FALSE, allow_symlinks |-> FALSE,
    allow_absolute_paths |-> FALSE, max_recipients |-> 4,
    max_total_kdf_iterations |-> 6 ]
=============================================================================
