SPECIFICATION SettingSpec
CONSTANTS
  Uri = {d1, d2}
  Word <- MCWord
  Feed = feed
  Returns = {}
  Wide = {known}
  Ferrolex = ferrolex
  Ignore = ignore
  Invalid <- InvalidIgnore
  Similar <- MCSimilar
  Config <- MCConfig
  Text <- LineTexts
  Typed = {typo, feed}
  Faults = {"crash", "persist"}
  MaxText = 5
  MaxSent = 3
  None = None
  ferrolex = ferrolex
  ignore = ignore
  known = known
  typo = typo
  feed = feed
  return = return
  d1 = d1
  d2 = d2
CHECK_DEADLOCK FALSE
INVARIANTS InSync OneAnswer ShownIsCurrent AckedSaved
PROPERTIES StaysUp AddedIsClean Answered
