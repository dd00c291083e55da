SPECIFICATION Spec
CONSTANTS
  Installer = {p1, p2}
  Linkers = {p1, p2}
  Manifest <- TwoRevisions
  Bytes <- MCBytes
  ForeignBytes <- MCForeign
  Pid <- Pids
  PidOf <- OwnPid
  Faults = {"fetch", "suspend", "foreign", "kill", "io"}
  MaxTemporaries = 2
  MaxOrphans = 1
  Absent = Absent
  Partial = Partial
  None = None
  pid = pid
  p1 = p1
  p2 = p2
  p3 = p3
  a1 = a1
  a2 = a2
  d1 = d1
  d2 = d2
  d3 = d3
  other = other
SYMMETRY Symmetry
INVARIANTS SuccessMeansInstalled
PROPERTY RunningTempsKept
