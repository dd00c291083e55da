---------------------------- MODULE HunspellCache ---------------------------
(***************************************************************************)
(* The runtime cache of a Hunspell dictionary: what compile_runtime_cache  *)
(* writes and what load_runtime_cache takes back                           *)
(* (crates/ferrolex-hunspell/src/cache.rs).  How installs and loads share  *)
(* the file on disk is RuntimeCache.                                       *)
(*                                                                         *)
(* An artifact is a record of its header, its content as HunspellCodec     *)
(* writes it and its length; its checksum is the rest of it.  A character  *)
(* is one byte.  The readers' byte requirement of condition atoms, class   *)
(* members and morphology, which no item falls short of, is left out.      *)
(***************************************************************************)
EXTENDS HunspellCodec

CONSTANTS MaxCacheBytes, CacheFormat, CacheSemantics

ASSUME VersionsAreNumbers == CacheFormat \in Nat /\ CacheSemantics \in Nat
ASSUME SizeIsNumber == MaxCacheBytes \in Nat

HeaderBytes == 8 + 2 + 4 + 2 * 32
ChecksumBytes == 32

----------------------------- (* validation *) -----------------------------

FlagsIn(d) ==
  UNION ({l.flags : l \in d.lexemes}
         \cup {{r.flag} \cup r.continuation : r \in d.rules}
         \cup {p.endingFlag \cup p.beginningFlag : p \in Range(d.compound.patterns)}
         \cup {Range(s) : s \in UNION {Range(rule) : rule \in Range(d.compound.rules)}}
         \cup {d.circumfix, d.forbidden, d.keepCase, d.needAffix, d.onlyInCompound,
               d.noSuggest, d.compound.flag, d.compound.begin, d.compound.middle,
               d.compound.end, d.compound.permit, d.compound.forbid,
               d.compound.forceUppercase})

ValidCondition(c) ==
  /\ Len(c.atoms) <= MaxConditionAtoms
  /\ \A atom \in Range(c.atoms) \cup c.notBefore :
       atom = AnyLetter \/ atom.members # {}

ValidRules(rules) ==
  /\ Cardinality(rules) <= MaxAffixRules
  /\ {r.id : r \in rules} = 0..Cardinality(rules) - 1
  /\ \A r \in rules : /\ ValidCondition(r.condition)
                     /\ Cardinality(r.continuation) <= MaxFlagsPerEntry

Expansions(compound) == FoldLeft(LAMBDA n, rule : n + Len(rule), 0, compound.rules)

ValidCompound(c) ==
  /\ c.minimum > 0
  /\ c.maximum \subseteq 1..MaxCompoundScalars
  /\ Len(c.patterns) <= MaxCompoundPatterns
  /\ \A limit \in c.syllables : limit.vowels # {}
  /\ Len(c.rules) <= MaxCompoundRules
  /\ Expansions(c) <= MaxRuleExpansions
  /\ \A rule \in Range(c.rules) :
       /\ Len(rule) \in 1..MaxExpansionsPerRule
       /\ \A s \in Range(rule) : Len(s) \in 2..MaxRuleComponents

ValidConversions(conversions) ==
  /\ Len(conversions) <= MaxInputConversions
  /\ \A c \in Range(conversions) : c.from # <<>>

(* validate_dictionary: asked of what is compiled and of what was loaded.  *)
ValidDictionary(d) ==
  /\ Cardinality(d.lexemes) <= MaxDictionaryEntries
  /\ \A l \in d.lexemes : l.stem # <<>> /\ Cardinality(l.flags) <= MaxFlagsPerEntry
  /\ \A flag \in FlagsIn(d) : IsValidFor(flag, d.mode)
  /\ ValidRules(d.rules)
  /\ ValidCompound(d.compound)
  /\ Len(d.breaks) <= MaxBreakPatterns /\ \A p \in Range(d.breaks) : p.text # <<>>
  /\ Len(d.replacements) <= MaxReplacementRules
  /\ <<>> \notin d.keyboard
  /\ Len(d.maps) <= MaxCharacterMaps /\ \A m \in Range(d.maps) : Len(m) >= 2
  /\ ValidConversions(d.inputConversions) /\ ValidConversions(d.outputConversions)

----------------------------- (* the writers *) ----------------------------

Total(items, Size(_)) == SumFunction([i \in DOMAIN items |-> Size(items[i])])
TotalOf(items, Size(_)) == SumFunction([x \in items |-> Size(x)])

TextSize(text) == 4 + Len(text)
FlagSize(flag, mode) == IF mode = "numeric" THEN 4 ELSE TextSize(flag)
OptionalFlagSize(option, mode) ==
  1 + TotalOf(option, LAMBDA f : FlagSize(f, mode))
FlagsSize(flags, mode) == 4 + TotalOf(flags, LAMBDA f : FlagSize(f, mode))
Morphology == 4

LexemeSize(l, mode) == TextSize(l.stem) + FlagsSize(l.flags, mode) + Morphology

AtomSize(atom) == IF atom = AnyLetter THEN 1
                  ELSE IF Cardinality(atom.members) = 1 /\ ~atom.negated THEN 5
                  ELSE 6 + 4 * Cardinality(atom.members)
ConditionSize(c) == 2 + TotalOf(c.notBefore, AtomSize) + 4 + Total(c.atoms, AtomSize)

RuleSize(r, mode) ==
  4 + 1 + FlagSize(r.flag, mode) + TextSize(r.strip) + TextSize(r.add)
    + ConditionSize(r.condition) + 1 + FlagsSize(r.continuation, mode) + Morphology

ConversionSize(c) == TextSize(c.from) + TextSize(c.to) + 2
BreakSize(p) == TextSize(p.text) + 2
PatternSize(p, mode) ==
  TextSize(p.ending) + OptionalFlagSize(p.endingFlag, mode)
    + TextSize(p.beginning) + OptionalFlagSize(p.beginningFlag, mode)
    + 1 + TotalOf(p.replacement, TextSize)
CompoundRuleSize(rule, mode) ==
  4 + Total(rule, LAMBDA s : 4 + Total(s, LAMBDA f : FlagSize(f, mode)))
SyllablesSize(option) ==
  1 + TotalOf(option, LAMBDA limit : 12 + 4 * Cardinality(limit.vowels))

(***************************************************************************)
(* The sections in the order they are written.  A counted one starts with  *)
(* the number of its items; its reader asks for so many bytes an item, and *)
(* refuses what it does not find readable.                                 *)
(***************************************************************************)
Section(size) ==
  [counted |-> FALSE, items |-> 0, each |-> 0, size |-> size, readable |-> TRUE]
Counts(items, each, size, readable) ==
  [counted |-> TRUE, items |-> items, each |-> each, size |-> size, readable |-> readable]

LexemesSection(d) ==
  Counts(Cardinality(d.lexemes), 8, TotalOf(d.lexemes, LAMBDA l : LexemeSize(l, d.mode)),
         \A l \in d.lexemes : l.stem # <<>>)

RulesSection(d, kind) ==
  LET rules == {r \in d.rules : r.kind = kind}
  IN Counts(Cardinality(rules), 26, TotalOf(rules, LAMBDA r : RuleSize(r, d.mode)), TRUE)

SpecialFlagsSection(d) ==
  Section(TotalOf({"circumfix", "forbidden", "keepCase", "needAffix",
                   "onlyInCompound", "noSuggest"},
                  LAMBDA f : OptionalFlagSize(d[f], d.mode)) + 1)

KeyboardSection(d) == Section(1 + TotalOf(d.keyboard, TextSize))

MapsSection(maps) ==
  Counts(Len(maps), 5, Total(maps, TextSize), \A m \in Range(maps) : Len(m) >= 2)

CompoundSection(c, mode) ==
  Section(TotalOf({"flag", "begin", "middle", "end", "permit", "forbid",
                   "forceUppercase"},
                  LAMBDA f : OptionalFlagSize(c[f], mode)) + 8 + 8 + 5)

CompoundRulesSection(rules, mode) ==
  Counts(Len(rules), 0, Total(rules, LAMBDA rule : CompoundRuleSize(rule, mode)),
         \A rule \in Range(rules) : rule # <<>> /\ \A s \in Range(rule) : Len(s) >= 2)

PatternsSection(patterns, mode) ==
  Counts(Len(patterns), 14, Total(patterns, LAMBDA p : PatternSize(p, mode)),
         \A p \in Range(patterns) :
           p.ending \o p.beginning # <<>> \/ p.endingFlag \cup p.beginningFlag # {})

(* Mutant: the reader asks for the marks as if they were numbers. *)
BreaksSectionWide(breaks) ==
  Counts(Len(breaks), 16, Total(breaks, BreakSize),
         \A p \in Range(breaks) : p.text # <<>> /\ ~(p.atStart /\ p.atEnd))

BreaksSection(breaks) ==
  Counts(Len(breaks), 10, Total(breaks, BreakSize),
         \A p \in Range(breaks) : p.text # <<>> /\ ~(p.atStart /\ p.atEnd))

CharactersSection(characters) ==
  Counts(Cardinality(characters), 4, 4 * Cardinality(characters), TRUE)

ReplacementsSection(rules) ==
  Counts(Len(rules), 8, Total(rules, ConversionSize),
         \A r \in Range(rules) : r.from # <<>> /\ r.to # <<>>)

ConversionsSection(conversions) ==
  Counts(Len(conversions), 10, Total(conversions, ConversionSize),
         \A c \in Range(conversions) : c.from # <<>>)

ModesSize == 3   \* FLAG mode, LANG fallback, LANG mode
MorphologyTable == Counts(0, 4, 0, TRUE)

Sections(d) ==
  << Section(ModesSize), MorphologyTable, LexemesSection(d),
     RulesSection(d, "prefix"), RulesSection(d, "suffix"),
     SpecialFlagsSection(d), KeyboardSection(d), MapsSection(d.maps),
     CompoundSection(d.compound, d.mode),
     CompoundRulesSection(d.compound.rules, d.mode),
     PatternsSection(d.compound.patterns, d.mode),
     Section(SyllablesSize(d.compound.syllables)),
     BreaksSection(d.breaks), CharactersSection(d.wordCharacters),
     ReplacementsSection(d.replacements), CharactersSection(d.ignored),
     ConversionsSection(d.inputConversions), ConversionsSection(d.outputConversions),
     Section(2) >>

SectionBytes(s) == (IF s.counted THEN 4 ELSE 0) + s.size

Sealed(artifact) == [artifact EXCEPT !.checksum = [artifact EXCEPT !.checksum = <<>>]]

(* The artifact, if the dictionary may be compiled.  The writer looks at   *)
(* the size once, in the middle of what it writes.                         *)
CompileRuntimeCache(d, aff, dic) ==
  LET Length(sections) ==
        HeaderBytes + Total(sections, SectionBytes) + ChecksumBytes
  IN IF /\ ValidDictionary(d)
        /\ Length(SubSeq(Sections(d), 1, 9)) <= MaxCacheBytes
     THEN {Sealed([magic |-> "FLXHUN", format |-> CacheFormat,
                   semantics |-> CacheSemantics, aff |-> aff, dic |-> dic,
                   content |-> WriteDictionary(d), trailing |-> 0, length |-> Length(Sections(d)),
                   checksum |-> <<>>])}
     ELSE {}

----------------------------- (* the readers *) ----------------------------

(* require_minimum_items, for every counted section: what is left of the   *)
(* artifact holds at least so many bytes for each of its items.            *)
EnoughBytes(sections, trailing) ==
  \A i \in DOMAIN sections :
    sections[i].items * sections[i].each <=
      sections[i].size + trailing
        + Total(SubSeq(sections, i + 1, Len(sections)), SectionBytes)

(* read_flags asks for five bytes a flag, though a number takes four.      *)
(* Behind the flags of an item come its morphology, the items after it, in *)
(* some order, and the sections that follow.                               *)
FlagsFit(items, mode, behind) ==
  \A i \in DOMAIN items :
    5 * Cardinality(items[i].flags) <=
      FlagsSize(items[i].flags, mode) - 4 + Morphology
        + Total(SubSeq(items, i + 1, Len(items)), LAMBDA x : x.size) + behind

LexemeItems(d) ==
  Each(SetToSeq(d.lexemes), LAMBDA l : [flags |-> l.flags, size |-> LexemeSize(l, d.mode)])

RuleItems(d, kind) ==
  Each(SetToSeq({r \in d.rules : r.kind = kind}),
       LAMBDA r : [flags |-> r.continuation, size |-> RuleSize(r, d.mode)])

EnoughForFlags(d, trailing) ==
  LET Behind(i) == Total(SubSeq(Sections(d), i + 1, Len(Sections(d))), SectionBytes) + trailing
  IN /\ FlagsFit(LexemeItems(d), d.mode, Behind(3))
     /\ FlagsFit(RuleItems(d, "prefix"), d.mode, Behind(4))
     /\ FlagsFit(RuleItems(d, "suffix"), d.mode, Behind(5))

Intact(artifact) ==
  /\ artifact.length <= MaxCacheBytes
  /\ artifact.length >= HeaderBytes + ChecksumBytes
  /\ artifact = Sealed(artifact)

(* inspect_runtime_cache: what the header says of an intact artifact.      *)
Metadata(artifact) ==
  Option(Intact(artifact) /\ artifact.magic = "FLXHUN",
         [format |-> artifact.format, semantics |-> artifact.semantics,
          aff |-> artifact.aff, dic |-> artifact.dic])

(* The dictionary, or nothing; never a part of one.                        *)
LoadRuntimeCache(artifact, aff, dic) ==
  LET d == ReadDictionary(artifact.content)
      current == [format |-> CacheFormat, semantics |-> CacheSemantics,
                  aff |-> aff, dic |-> dic]
  IN Option(/\ Metadata(artifact) = {current}
            /\ \A section \in Range(Sections(d)) : section.readable
            /\ OfKind(artifact.content[5], "prefix")
            /\ OfKind(artifact.content[6], "suffix")
            /\ EnoughBytes(Sections(d), artifact.trailing)
            /\ EnoughForFlags(d, artifact.trailing)
            /\ artifact.trailing = 0
            /\ ValidDictionary(d),
            d)

(* The standalone artifact vouches for its own sources.                    *)
LoadRuntimeArtifact(artifact) ==
  UNION {LoadRuntimeCache(artifact, m.aff, m.dic) : m \in Metadata(artifact)}
=============================================================================
