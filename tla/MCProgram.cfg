CONSTANTS
  ByteSize = 4
  MaxInstVarGroup = 3
  SmallMax = 3
  Answer = 7
  Programs <- MCPrograms
SPECIFICATION Spec
INVARIANTS ParsesAsWritten RunsAsWritten StackIsEnough VersionsAreReal
