SPECIFICATION FairSpec
CONSTANTS
  LineSet <- MCLineSet
  Leftovers <- MCLeftovers
  Startups <- MCStartups
  Garbage <- MCGarbage
  Options <- MCOptions
  Arrays <- MCArrays
  Unparsable <- MCUnparsable
INVARIANTS
  DTypeOK
  ReadsEachLineOnce
PROPERTIES
  OffersWholeFiles
  ReadsAllFiles
CHECK_DEADLOCK FALSE
