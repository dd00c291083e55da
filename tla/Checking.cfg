SPECIFICATION CheckingSpec
CONSTANTS
  Candidate <- MCCandidate
  Seed <- MCSeed
  Config <- MCConfig
  Direct <- MCDirect
  Seeds <- MCSeeds
  Char <- MCChar
  Alphabetic <- MCAlphabetic
  Numeric <- MCNumeric
  Upper <- MCUpper
  Lower <- MCLower
  Mark <- MCMark
  Apostrophe <- MCApostrophe
  Composed <- MCComposed
  Document <- MCDocument
  Policies <- MCPolicies
  Dictionary <- MCDictionary
  None = None
  A = A
  a = a
  han = han
  acute = acute
  aacute = aacute
  one = one
  viii = viii
  VIII = VIII
  quote = quote
  dash = dash
  Letter <- MCLetter
  Lowercase <- MCLowercase
  Uppercase <- MCUppercase
  UpperLetter <- MCUpperLetter
  LowerLetter <- MCLowerLetter
  Compositions <- MCCompositions
  Queries <- MCQueries
  Tables <- MCTables
  Overlay <- MCOverlay
  Inserted <- MCInserted
  Caller = {c1, c2}
  MaxChanges = 1
  NotYet = NotYet
  c1 = c1
  c2 = c2
CHECK_DEADLOCK FALSE
INVARIANTS BudgetKept ChargedOnce CompleteIsComplete SharesKept SegmentsExact FindingsExact NothingLost PolicyKept
