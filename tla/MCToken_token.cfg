SPECIFICATION Spec
CONSTANTS
  SlotCount = 3
  Reader = {"r1", "r2"}
  ReaderOf <- Readers
  Card = {"alices", "bobs", "odd"}
  NoCard = "none"
  View <- Views
  EcKey = {"alice", "bob", "carol", "sign", "sign2"}
  BadKey = {"rsa"}
  Pin = {"1234", "0000"}
  MaxTries = 2
  MaxMoves = 2
  MaxCalls = 2
INVARIANTS
  IndInv
  CardFound
  PinToOpenedCard
  SecretOfIdentity
PROPERTIES
  ImplementsProvider
  CallReturns
