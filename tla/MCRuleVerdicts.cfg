CONSTANTS
  ByteBits = 2
  AddressBytes <- Bytes
  MaxPort = 1
  MaxProtocol = 0
  Evaluators = {t1, t2}
  Candidates <- AllActions
  Packets <- MCPackets
  RateSlots = 2
  SK_RULE_MAX = 2
  Modulus = 16
  MaxTime = 1
  MaxVersion = 3
  None = None
SPECIFICATION Spec
CHECK_DEADLOCK FALSE
SYMMETRY Symmetry
INVARIANTS
  VerdictIsBest
  VerdictStands
  ResidueIsStale
