---------------------------- MODULE MCDecryption -----------------------------
(* Small instances of Decryption. *)
EXTENDS Decryption

Curves == [alice |-> "secp384r1", bob |-> "secp256r1", carol |-> "secp521r1"]
EcKeys == DOMAIN Curves

To(scheme, label, k) == [scheme |-> scheme, label |-> label, key |-> k]
Alice == To("SC01", "L1", "alice")
Bob == To("SC01", "L2", "bob")
Carol == To("SC01", "L1", "carol")
Secret == To("SC05", "L1", "s1")
Weak == To("SC05", "L1", "s0")
Plain == To("SC06", "L1", <<"pw">>)
Colon == To("SC06", "L2", <<"l", "pw">>)

UpTo(n, S) == UNION {[1..k -> S] : k \in 0..n}

Umbrik(tos) ==
  {[by |-> "umbrik", to |-> to, method |-> "CHACHA20POLY1305",
    quirks |-> [i \in DOMAIN to |-> "none"]] : to \in tos}
Elsewhere(to, quirks, method) ==
  [by |-> "other", to |-> to, quirks |-> quirks, method |-> method]

Args(provider, token, secret, password) ==
  [provider |-> provider, token |-> token, secret |-> secret,
   password |-> password, entered |-> <<"pw">>, list |-> FALSE]
Listing(args) == [args EXCEPT !.list = TRUE]

Lim(n, kdf) == [max_recipients |-> n, max_total_kdf_iterations |-> kdf]

\* Two containers for the same people, and whatever becomes of the first.
DamageJobs ==
  [s \in Slot |->
     IF s = Opened
     THEN Umbrik({<<Alice, Secret>>, <<Plain, Secret>>})
     ELSE Umbrik({<<Secret, Alice>>})]
DamageCommands ==
  { Args(<<{"alice"}>>, FALSE, <<>>, <<>>),
    Args(<<>>, FALSE, <<"s1">>, <<>>),
    Args(<<>>, FALSE, <<>>, <<>>),
    Listing(Args(<<{"alice"}>>, TRUE, <<"s1">>, <<<<"l", "pw">>>>)) }

\* Lists of up to three recipients, one of more than the header has room for, and containers of other implementations
\* with a record of each quirk before a plain one for the same key.
RecipientJobs ==
  [s \in Slot |->
     Umbrik(UpTo(2, {Alice, Bob, Secret, Plain})
            \cup {<<Carol, Alice>>, <<Weak, Secret>>, <<Secret, Weak>>}
            \cup {<<Colon>>, <<Plain, Colon>>, <<Colon, Plain>>}
            \cup {<<Alice, Plain, Plain>>, <<Plain, Alice, Alice>>, <<Plain, Plain, Plain>>,
                  <<Plain, Alice, Plain, Alice>>})
     \cup {Elsewhere(<<r, r>>, <<q, "none">>, "CHACHA20POLY1305") :
             r \in {Alice, Secret, Plain}, q \in Quirk}
     \cup {Elsewhere(<<r, Alice, Plain>>, <<q, "none", "none">>, "CHACHA20POLY1305") :
             r \in {Plain}, q \in Quirk \ {"none"}}
     \cup {Elsewhere(<<Alice>>, <<"none">>, "unknown")}]
RecipientCommands ==
  { Args(<<{"alice"}>>, TRUE, <<>>, <<>>),
    Args(<<{"alice", "bob"}>>, FALSE, <<>>, <<>>),
    Args(<<{"bob"}>>, TRUE, <<"s1">>, <<<<"l", "pw">>>>),
    Args(<<>>, FALSE, <<"s0">>, <<<<"l", "pw">>>>),
    Args(<<>>, FALSE, <<"s1">>, <<<<"l", "pw">>>>),
    Args(<<>>, FALSE, <<>>, <<<<"l", "l", "pw">>>>),
    Args(<<>>, FALSE, <<>>, <<>>) }
DefaultAndTight == {Lim(3, 6), Lim(2, 3)}
DefaultOnly == {Lim(3, 6)}

\* A password with two colons, and records that either reading is tried on.
KdfJobs == [s \in Slot |-> Umbrik({<<Plain, Plain, Plain>>})]
KdfCommands == {Args(<<>>, FALSE, <<>>, <<<<"l", "l", "pw">>>>)}

=============================================================================
