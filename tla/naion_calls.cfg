CONSTANTS
  Block = 4
  LenCells = 2
  Word = 16
  MaxInput = 18
  Piece = {"a", "b"}
  MaxPieces = 2
  MaxSummaries = 2
  EnvKeys = {"k1", "k2", "long", "empty"}
  LongKeys = {"long"}
  EmptyKeys = {"empty"}
  Nonces = {"n1", "n2"}
  Letters = {"x"}
  MaxLen = 2
  MaxSent = 2
  Half = 2
  MacLen = 1
  Ctr32 = 3
  MsgLens = {0, 1, 2, 3, 5, 7, 9}
  Shifts <- MCShifts
  Process = {"p", "q"}
  SmallOrder = {"low"}
  MaxBoxes = 1
SPECIFICATION MCSpec
INVARIANTS
  HashTypeOK
  DigestIsOfInput
  CountersExact
  MacCoversUpdates
  ObjectsInStep
  EnvelopeAuthentic
  EnvelopeRoundTrip
  OutputRight
  NothingBeforeVerified
  KeystreamOnce
  BoxOpens
  KxAgree
CHECK_DEADLOCK FALSE
