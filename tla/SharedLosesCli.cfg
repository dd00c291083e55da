SPECIFICATION SharedSpec
CONSTANTS
  Uri = {d1}
  Word <- MCWord
  Feed = feed
  Returns = {}
  Wide = {known}
  Ferrolex = ferrolex
  Ignore = ignore
  Invalid <- NoInvalid
  Similar <- MCSimilar
  Config <- WithFile
  Text <- OneText
  Typed = {}
  Faults = {}
  MaxText = 2
  MaxSent = 2
  None = None
  Adder = {a1}
  Torn = Torn
  Pid = {a1}
  PidOf <- OwnPid
  MaxOrphans = 0
  ferrolex = ferrolex
  ignore = ignore
  known = known
  typo = typo
  feed = feed
  a1 = a1
CHECK_DEADLOCK FALSE
INVARIANT AddWordRetained
