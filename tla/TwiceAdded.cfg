CONSTANTS
  ByteCount = 2
  MCMerges = 0
  MCText = 2
  Separator = 1
  Vocabs <- MCVocabs
  MergeLists <- MCMergeLists
  AddedLists <- MCTwiceAdded
  Texts <- MCTexts
INIT Init
NEXT Next
INVARIANTS AddedDistinct
CHECK_DEADLOCK FALSE
