SPECIFICATION HelpersSpec
CONSTANTS
  BYTE = 4
  WORD = 8
  MaxLen = 8
  MaxSize = 16
  MaxNumber = 64
  MaxDiscriminant = 110
  Rounds = 4
  MaxCalls = 40
  MaxFieldBits = 11
INVARIANTS
  CallsAgree
  HashesText
  SeedsRight
  SubgroupsRight
  PrimesRight
  FormsRight
  DiscriminantsRight
  ObjectsRight
  WrittenRight
  TablesRight
