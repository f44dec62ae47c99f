SPECIFICATION HelpersSpec
CONSTANTS
  BYTE = 4
  WORD = 8
  MaxLen = 4
  MaxSize = 8
  MaxNumber = 16
  MaxDiscriminant = 16
  Rounds = 4
  MaxCalls = 40
  MaxFieldBits = 11
INVARIANT
  TrialRight
