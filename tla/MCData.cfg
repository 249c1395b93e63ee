CONSTANTS
  AddressBits = 8
  FirstAlloc = 32
  MaxDepth = 15
  ListLen = 1
  MaxObjs = 3
  MaxWords = 12
  MaxSets = 2
  StructSizes <- Sizes
  ListSizes <- ElementSizes
  Trees <- MCTrees
  Written <- MCWritten
  Readers <- MCReaders
  Objects = {obj}
SPECIFICATION MCSpec
INVARIANTS
  Readable MCEqualIsSameValue MCCanonicalIsSameValue MCCanonicalReadsBack ReadsWhatWasSet EstimateIsRecent
PROPERTIES ReadBack
CHECK_DEADLOCK FALSE
