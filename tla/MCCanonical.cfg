SPECIFICATION PairSpec
CONSTANTS
  AddressBits = 8
  FirstAlloc = 32
  MaxDepth = 15
  Trees <- MCTrees
INVARIANTS EqualCanonicalizeAlike
