CONSTANTS
  Tokens = {Word, End}
  Eos = End
  MaxSeqLen = 4
  MaxInput = 2
  MaxNew = 2
  MaxRuns = 2
  ByteCount = 2
  MCMerges = 2
  MCText = 6
  Separator = 1
INIT MCInit
NEXT MCNext
INVARIANTS
  ReadersAgree NormalFormIsStandard MatcherMeansPattern MergesAsLearned
  DrawsFromNucleus ResultsAreExact TurnsAreInvisible
  ServerMirrorsGenerate
CHECK_DEADLOCK FALSE
