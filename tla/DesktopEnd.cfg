SPECIFICATION FairSpec
CONSTANTS
  LineSet <- MCLineSet
  Leftovers <- MCLeftovers
  Startups <- MCStartups
  Garbage <- MCGarbage
  Options <- MCOptions
  Arrays <- MCArrays
  Unparsable <- MCUnparsable
PROPERTY
  NoFileBreaksAll
CHECK_DEADLOCK FALSE
