SPECIFICATION CallSpec
CONSTANTS
  Letter <- MCLetter
  Lowercase <- MCLowercase
  Uppercase <- MCUppercase
  UpperLetter <- MCUpperLetter
  LowerLetter <- MCLowerLetter
  Compositions <- Overlaid
  Queries <- MCQueries
  Tables <- MCTables
  Overlay <- MCOverlay
  Inserted <- MCInserted
  Caller = {c1, c2}
  MaxChanges = 0
  NotYet = NotYet
  c1 = c1
  c2 = c2
CHECK_DEADLOCK FALSE
INVARIANT PolicyKept
