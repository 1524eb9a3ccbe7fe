----------------------------- MODULE MCBindings ------------------------------
(* A small instance of Bindings. *)
EXTENDS Bindings, TLC

CONSTANTS t1, t2

Interchangeable == Permutations(Thread)

Curves == [alice |-> "secp384r1", carol |-> "secp521r1"]
EcKeys == DOMAIN Curves

FileName(comps) == [root |-> "none", comps |-> comps]
Dense(bytes) == [bytes |-> bytes, size |-> 1, zipped |-> 1]
Sparse(bytes) == [bytes |-> bytes, size |-> 5, zipped |-> 1]
Item(comps, data) == [name |-> FileName(comps), data |-> data]

A == Item(<<"a">>, Dense("x"))
ManyDicts ==
  { <<>>, <<A>>, <<Item(<<"a">>, Sparse("y"))>>,
    <<A, Item(<<"b">>, Dense("y"))>>,
    <<A, Item(<<CurDir, "a">>, Dense("y"))>>,
    <<Item(<<ParentDir>>, Dense("x"))>> }

Lim(ratio, entries, n, kdf) ==
  [ max_compression_ratio |-> ratio, max_uncompressed_bytes |-> 20,
    max_entries |-> entries, max_recipients |-> n,
    max_total_kdf_iterations |-> kdf ]
LooseAndTight == {Lim(10, 2, 3, 6), Lim(1, 1, 3, 6), Lim(10, 2, 3, 1)}
Default ==
  [ max_compression_ratio |-> 3, max_uncompressed_bytes |-> 20,
    max_entries |-> 10, allow_overwrite |-> FALSE, allow_symlinks |-> FALSE,
    allow_absolute_paths |-> FALSE, max_recipients |-> 3,
    max_total_kdf_iterations |-> 6 ]

Cert(spki, common_name) == [spki |-> spki, common_name |-> common_name]
Named(label, value) == [label |-> label, value |-> value]
ForEncrypt(password, secret, certificate) ==
  [password |-> password, secret |-> secret, certificate |-> certificate]

Awkward == <<<<"n">>, Amp, Equals, Percent, Space, Plus, Comma, Control>>

ManyEncrypts ==
  { ForEncrypt(<<>>, <<>>, <<>>),
    ForEncrypt(<<Named(Awkward, <<"pw">>)>>, <<>>, <<>>),
    ForEncrypt(<<Named(<<>>, <<"pw">>)>>, <<Named(<<Equals, Comma>>, "s1")>>,
               <<Cert("alice", Word("n"))>>),
    ForEncrypt(<<>>, <<Named(Word("n"), "s0")>>, <<>>),
    ForEncrypt(<<Named(Word("n"), <<"pw">>)>>, <<>>, <<Cert("rsa", <<>>)>>),
    ForEncrypt(<<>>, <<>>, <<Cert("garbled", <<>>)>>),
    ForEncrypt(<<>>, <<>>, <<Cert("carol", Word("n"))>>) }

ForDecrypt(password, secret, key, lim) ==
  [password |-> password, secret |-> secret, key |-> key, limits |-> lim]

ManyDecrypts ==
  UNION {{ ForDecrypt(<<<<"pw">>>>, <<"s1">>, <<>>, l),
           ForDecrypt(<<<<"pw">>>>, <<>>, <<"alice">>, l) } : l \in BOOLEAN}
  \cup { ForDecrypt(<<>>, <<"s1">>, <<>>, TRUE),
         ForDecrypt(<<>>, <<>>, <<>>, FALSE),
         ForDecrypt(<<<<"other">>>>, <<>>, <<>>, FALSE),
         ForDecrypt(<<>>, <<"s0">>, <<>>, FALSE),
         ForDecrypt(<<>>, <<>>, <<"carol">>, FALSE),
         ForDecrypt(<<>>, <<>>, <<"rsa">>, FALSE) }

\* Containers of other programs, with the labels those may write, and a
\* directory entry.
WithFolder ==
  [ archive    |-> <<[type |-> "dir", name |-> FileName(<<"b">>), size |-> 0]>>
                     \o Packed(<<A>>).archive,
    compressed |-> 1 ]

Made(to, quirk, method) ==
  ForeignContainer(to, [i \in DOMAIN to |-> quirk], method, 0, WithFolder)

Foreigners ==
  { Made(<< To("SC06", <<Control>>, <<"pw">>),
            To("SC06", Eid("Digi-ID", <<<<"L">>, Control>>, <<>>), <<"pw">>),
            To("SC06", PublicKey(<<Control>>), <<"pw">>),
            To("SC06", <<Prefix, <<"CN">>, Amp, <<"x">>, Equals, Control>>, <<"pw">>) >>,
         "none", "CHACHA20POLY1305"),
    Made(<< To("SC05", << Prefix, <<"type">>, Equals, <<"%", BadByte>>, Amp, Amp,
                          <<"cn">>, Equals, Percent, Amp,
                          <<"cn">>, Equals, <<"%", "control">> >>, "s1"),
            To("SC01", <<Prefix, <<"label">>, Equals, Control>>, "alice"),
            To("SC06", EidDigidoc("ID-card", <<<<"L">>, Comma, <<"F">>, Comma, <<"1">>>>,
                                  Word("PNOEE-1"), Word("3")), <<"pw">>) >>,
         "none", "CHACHA20POLY1305"),
    Made(<<To("SC01", <<Prefix, <<"x">>, Equals, Control>>, "alice")>>,
         "SC02", "CHACHA20POLY1305"),
    Made(<<To("SC01", <<>>, "alice")>>, "bad_point", "CHACHA20POLY1305"),
    Made(<<To("SC05", <<>>, "s1")>>, "none", "unknown") }
=============================================================================
