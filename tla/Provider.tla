------------------------------ MODULE Provider -------------------------------
(***************************************************************************)
(* What open_header relies on in the provider it is given (provider.rs; the*)
(* PIN is the business of the token behind it, umbrik-pkcs11): identities  *)
(* are fixed once the provider is open and cost no PIN; a call of perform  *)
(* asks for the PIN at most once, sends the card at most one, and gives a  *)
(* secret only if the card has accepted that PIN.                          *)
(***************************************************************************)
CONSTANT Identity   \* the keys a provider may offer

VARIABLES
  offered,  \* <<>> before the provider is open, then <<the set of identities>>
  stage,    \* "idle", or how far the call has come
  outcome,  \* of the last call: "none", "secret" or "error"
  sent      \* PINs sent to a card in the last call

vars == <<offered, stage, outcome, sent>>

Init == offered = <<>> /\ stage = "idle" /\ outcome = "none" /\ sent = 0

Open ==
  /\ offered = <<>>
  /\ \E ids \in SUBSET Identity : offered' = <<ids>>
  /\ UNCHANGED <<stage, outcome, sent>>

\* perform is called, and may refuse at once: an unknown identity, no session.
Call ==
  /\ offered # <<>> /\ stage = "idle"
  /\ \/ stage' = "called" /\ outcome' = "none"
     \/ stage' = "idle" /\ outcome' = "error"
  /\ sent' = 0
  /\ UNCHANGED offered

Ask ==
  /\ stage = "called"
  /\ stage' = "asked"
  /\ UNCHANGED <<offered, outcome, sent>>

\* The one PIN of the call is sent: the card accepts it, or perform returns.
Send ==
  /\ stage = "asked" /\ sent = 0
  /\ sent' = 1
  /\ \/ stage' = "accepted" /\ UNCHANGED outcome
     \/ stage' = "idle" /\ outcome' = "error"
  /\ UNCHANGED offered

\* perform returns.
Return(result) ==
  /\ stage # "idle"
  /\ result = "secret" => stage = "accepted"
  /\ stage' = "idle" /\ outcome' = result
  /\ UNCHANGED <<offered, sent>>

Next == Open \/ Call \/ Ask \/ Send \/ Return("secret") \/ Return("error")

Spec == Init /\ [][Next]_vars
=============================================================================
