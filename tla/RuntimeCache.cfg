SPECIFICATION Spec
CONSTANTS
  Installer = {i1, i2}
  Reader = {r1}
  File = {"aff", "dic"}
  Manifest <- MCManifest
  ForeignBytes <- MCForeign
  Absent = Absent
  Policy = Policy
  Declared = Declared
  Importable <- MCImportable
  Semantics = {old, new}
  SemanticsOf <- MCSemanticsOf
  Torn = Torn
  Failed = Failed
  Faults = {"io", "kill", "power", "suspend"}
  Replaceable = {"dic"}
  MaxRemovals = 1
  i1 = i1
  i2 = i2
  r1 = r1
  old = old
  new = new
INVARIANTS LoadedIsRead CacheWhole ReadyLoads
