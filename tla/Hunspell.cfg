SPECIFICATION Spec
CONSTANTS
  Casing <- MCCasing
  DigitValue <- MCDigitValue
  EncodingOf <- MCEncodingOf
  Cases <- MCCases
  Turkic <- MCTurkic
  SuggestionOnly = {"TRY", "PHONE"}
  VariationSelector = {"~"}
  MaxDictionaryEntries = 9
  MaxFlagsPerEntry = 88
  MaxAffixRules = 6
  MaxConditionAtoms = 6
  MaxCompoundScalars = 6
  MaxCompoundRules = 2
  MaxRuleExpansions = 4
  MaxExpansionsPerRule = 3
  MaxRuleComponents = 3
  MaxCompoundPatterns = 2
  MaxBreakPatterns = 9
  MaxReplacementRules = 2
  MaxCharacterMaps = 2
  MaxInputConversions = 2
  MaxAffixAliases = 2
  MaxMorphologyFields = 2
  MaxReplacementVariants = 2
  MaxAffixChain = 8
  MaxCompoundSplits = 4
  MaxReverseForms = 40
  MaxDerivedCandidates = 4
  MaxDerivations = 12
  MaxCacheBytes = 4000
  CacheFormat = 2
  CacheSemantics = 2
INVARIANTS CacheHonest CacheReadable DerivedExact SearchBounded CompoundExact ExcludedAddNothing RelatedAreWords ExplanationAgrees
PROPERTIES LostLinesAreErrors SearchEnds
