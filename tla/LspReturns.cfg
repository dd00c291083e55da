SPECIFICATION SettingSpec
CONSTANTS
  Uri = {d1}
  Word <- ReturnWord
  Feed = feed
  Returns = {return}
  Wide = {known}
  Ferrolex = ferrolex
  Ignore = ignore
  Invalid <- NoInvalid
  Similar <- MCSimilar
  Config <- OneConfig
  Text <- ReturnTexts
  Typed = {}
  Faults = {}
  MaxText = 2
  MaxSent = 2
  None = None
  ferrolex = ferrolex
  ignore = ignore
  known = known
  typo = typo
  feed = feed
  return = return
  d1 = d1
  d2 = d2
CHECK_DEADLOCK FALSE
INVARIANT InSync
