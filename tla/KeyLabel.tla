------------------------------ MODULE KeyLabel -------------------------------
(***************************************************************************)
(* Key labels: how a recipient's label is written into the header, read    *)
(* back and displayed (keylabel.rs).  This module has no state.            *)
(*                                                                         *)
(* A text is a sequence of symbols.  <<c>> is the character c, or a word   *)
(* of characters that are never escaped, such as the key <<"CN">> and the  *)
(* prefix <<"data:,">>.  <<"%", c>> is the percent-escape of c: of all its *)
(* bytes, or of one byte that is no text (BadByte).  A lone <<"%">> begins *)
(* no escape.  An option that is None is an empty text: a label is written *)
(* the same way.                                                           *)
(***************************************************************************)
EXTENDS Naturals, Sequences, SequencesExt

Word(w) == <<<<w>>>>

Prefix == <<"data:,">>
Amp == <<"&">>
Equals == <<"=">>
Percent == <<"%">>
Plus == <<"+">>
Space == <<" ">>
Comma == <<",">>
Open == <<"(">>
Close == <<")">>
Control == <<"control">>
BadByte == "bad byte"
Replacement == <<"U+FFFD">>

-----------------------------------------------------------------------------
(* form_urlencode and form_urldecode.                                      *)

\* Every symbol that stands for more than A-Z a-z 0-9 . - * _ and space.
Escaped == {Prefix, Amp, Equals, Percent, Plus, Comma, Open, Close, Control,
            Replacement}

\* Mutant of FormUrlencode: the separators are taken for plain characters.
FormUrlencodeLoose(value) ==
  [i \in DOMAIN value |->
     IF value[i] = Space THEN Plus
     ELSE IF value[i] \in Escaped \ {Amp, Equals} THEN Percent \o value[i]
     ELSE value[i]]

FormUrlencode(value) ==
  [i \in DOMAIN value |->
     IF value[i] = Space THEN Plus
     ELSE IF value[i] \in Escaped THEN Percent \o value[i]
     ELSE value[i]]

FormUrldecode(value) ==
  [i \in DOMAIN value |->
     IF value[i] = Plus THEN Space
     ELSE IF Len(value[i]) = 1 THEN value[i]
     ELSE IF value[i][2] = BadByte THEN Replacement
     ELSE Tail(value[i])]

-----------------------------------------------------------------------------
(* Writing a label.  Parameters are a sequence of <<key, value>>.          *)

\* format!("{PREFIX}{body}"): KEY=value pairs joined by `&`.
Body(params) ==
  <<Prefix>> \o
  FlattenSeq([i \in DOMAIN params |->
                (IF i = 1 THEN <<>> ELSE <<Amp>>) \o Word(params[i][1])
                  \o <<Equals>> \o FormUrlencode(params[i][2])])

\* KeyLabel::with and with_opt drop an empty value; format goes through the
\* BTreeMap, in the order of the keys, which is the order given here.
Format(params) == Body(SelectSeq(params, LAMBDA p : p[2] # <<>>))

Typed(type) == << <<"TYPE", Word(type)>>, <<"V", Word("1")>> >>

Password(label) == Format(<< <<"LABEL", label>> >> \o Typed("pw"))

Secret(label) == Format(<< <<"LABEL", label>> >> \o Typed("secret"))

Certificate(common_name, cert_sha1, file) ==
  Format(<< <<"CERT_SHA1", cert_sha1>>, <<"CN", common_name>>, <<"FILE", file>> >>
           \o Typed("cert"))

PublicKey(file) == Format(<< <<"FILE", file>> >> \o Typed("pub_key"))

\* The pieces of a text between separators: where they start, and each.
Starts(text, at) == {1} \cup {i + 1 : i \in {i \in DOMAIN text : text[i] = at}}

Piece(text, at, start) ==
  SubSeq(text, start,
         Min({i \in start..Len(text) : text[i] = at} \cup {Len(text) + 1}) - 1)

\* LASTNAME,FIRSTNAME,IDCODE, or no names at all.
SplitCommonName(common_name) ==
  LET starts == Starts(common_name, Comma)
      last   == Piece(common_name, Comma, 1)
      first  == Piece(common_name, Comma, Min(starts \ {1}))
  IN  IF Cardinality(starts) > 1 /\ last # <<>> /\ first # <<>>
      THEN [last |-> last, first |-> first]
      ELSE [last |-> <<>>, first |-> <<>>]

Present(key, value) == IF value = <<>> THEN <<>> ELSE << <<key, value>> >>

\* The form DigiDoc4 writes: lower case, in this order.
EidDigidoc(type, common_name, serial_number, not_after) ==
  LET name == SplitCommonName(common_name)
  IN  Body(<< <<"v", Word("1")>>, <<"cn", common_name>> >>
             \o Present("first_name", name.first)
             \o Present("last_name", name.last)
             \o Present("serial_number", serial_number)
             \o << <<"type", Word(type)>> >>
             \o Present("server_exp", not_after))

Eid(type, common_name, serial_number) ==
  LET name == SplitCommonName(common_name)
  IN  Format(<< <<"CN", common_name>>, <<"FIRST_NAME", name.first>>,
                <<"LAST_NAME", name.last>>, <<"SERIAL_NUMBER", serial_number>> >>
               \o Typed(type))

-----------------------------------------------------------------------------
(* Reading a label.  A label that does not parse is a plain one.           *)

\* The KEY=value pairs of a label, each with its place; empty ones are skipped.
Pairs(label) ==
  LET body == Tail(label)
  IN  {p \in {<<i, Piece(body, Amp, i)>> : i \in Starts(body, Amp)} : p[2] # <<>>}

\* Where a pair has its first `=`, if it has one.
Cut(text) == SelectInSeq(text, LAMBDA c : c = Equals)

IsFormatted(label) ==
  /\ label # <<>> /\ Head(label) = Prefix
  /\ \A p \in Pairs(label) : Cut(p[2]) # 0

\* The parameters of a formatted label: the last of several with one key.
Parse(label) ==
  LET Key(text)   == SubSeq(text, 1, Cut(text) - 1)
      Value(text) == FormUrldecode(SubSeq(text, Cut(text) + 1, Len(text)))
  IN  [k \in {Key(p[2]) : p \in Pairs(label)} |->
         LET same == {p \in Pairs(label) : Key(p[2]) = k}
         IN  Value((CHOOSE p \in same : \A q \in same : q[1] <= p[1])[2])]

\* What display shows of a key, spelled in upper or in lower case.
Get(params, upper, lower) ==
  IF Word(upper) \in DOMAIN params THEN {params[Word(upper)]}
  ELSE IF Word(lower) \in DOMAIN params THEN {params[Word(lower)]}
  ELSE {}

InParentheses(type) == <<Open>> \o type \o <<Close>>

Display(label) ==
  LET params == Parse(label)
      names  == SelectSeq(<< Get(params, "CN", "cn"),
                             Get(params, "LABEL", "label"),
                             Get(params, "FILE", "file"),
                             Get(params, "SERIAL_NUMBER", "serial_number") >>,
                          LAMBDA n : n # {})
      name   == CHOOSE n \in names[1] : TRUE
      types  == Get(params, "TYPE", "type")
      type   == CHOOSE t \in types : TRUE
  IN  IF ~IsFormatted(label) \/ (names = <<>> /\ types = {}) THEN label
      ELSE IF types = {} THEN name
      ELSE IF names = <<>> THEN InParentheses(type)
      ELSE name \o <<Space>> \o InParentheses(type)

=============================================================================
