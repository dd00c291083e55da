SPECIFICATION FairSpec
CONSTANTS
  Adder = {a1, a2}
  Word <- MCWord
  Invalid <- MCInvalid
  Torn = Torn
  Pid <- MCPid
  PidOf <- OwnPid
  Faults = {"kill", "io", "power", "suspend"}
  MaxOrphans = 1
  None = None
  a1 = a1
  a2 = a2
  a3 = a3
  w1 = w1
  w2 = w2
  bad = bad
  pid = pid
INVARIANTS AckedStay WellFormed
PROPERTIES ImplementsStore AddReturns
