CONSTANTS
  Thread = {"t", "u"}
  Size = 2
  Chunk = 1
  MaxCalls = 2
  DLL_NAMES <- MCDllNames
  Required <- MCRequired
  Optional <- MCOptional
  Necessary = {"Kernel32"}
  LoadOrder <- MCLoadOrder
  Pinned = {"kernel32"}
  MaxPublicCalls = 5
  Bits = 5
  Values <- MCValues
  MaxWritten = 2
  MaxJunk = 2
  Word = 8
  SizeT = 8
  TrailerSize = 1
  SignatureSize = 1
  MaxFile = 7
  Numbers <- MCNumbers
  DefaultInterval = 5
  Half = 4
  Width = 4
  HostCount <- MCHostCount
  MaxStarts = 2
  MaxTime = 3
  Timeout = 2
  Limit = 2
  Unit = 2
  TextBytes = {0, 90, 255}
  MaxData = 4
  Letters = {"a", "b"}
  Strings <- MCStrings
  MaxText = 6
  MaxControls = 3
SPECIFICATION MCSpec
INVARIANTS
  ReplacesEvery
CHECK_DEADLOCK FALSE
