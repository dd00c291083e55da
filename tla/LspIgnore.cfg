SPECIFICATION SettingSpec
CONSTANTS
  Uri = {d1}
  Word <- MCWord
  Feed = feed
  Returns = {}
  Wide = {known}
  Ferrolex = ferrolex
  Ignore = ignore
  Invalid <- NoInvalid
  Similar <- MCSimilar
  Config <- OneConfig
  Text <- OneText
  Typed = {}
  Faults = {}
  MaxText = 5
  MaxSent = 3
  None = None
  ferrolex = ferrolex
  ignore = ignore
  known = known
  typo = typo
  feed = feed
  return = return
  d1 = d1
  d2 = d2
CHECK_DEADLOCK FALSE
INVARIANT IgnoreHonoured
