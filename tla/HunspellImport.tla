--------------------------- MODULE HunspellImport --------------------------
(***************************************************************************)
(* The importer: import_bytes reads an .aff file and a .dic file, line by  *)
(* line, into a dictionary and a set of diagnostics                        *)
(* (crates/ferrolex-hunspell/src/lib.rs, parse.rs).                        *)
(*                                                                         *)
(* A step reads one line.  While a counted section is open it takes every  *)
(* line, whatever the line says.  A field that is absent from a directive  *)
(* is the empty field.                                                     *)
(*                                                                         *)
(* source = [aff, dic: sequences of lines, configured: the encodings given *)
(* for the pair or none, decodes: the encodings each file is valid in,     *)
(* tooBig: the files over the limit, strict].  A line = [name, args, long].*)
(***************************************************************************)
EXTENDS HunspellSyntax

CONSTANTS MaxAffixAliases, MaxMorphologyFields,
          Turkic,             \* the names of languages with dotted i
          EncodingOf,         \* [SET names -> encodings]
          SuggestionOnly      \* directives that only concern suggestions

VARIABLES source, phase, at, section, declared, aliases, morphologies,
          dictionary, entries, expected, diagnostics

importVars == << source, phase, at, section, declared, aliases,
                 morphologies, dictionary, entries, expected, diagnostics >>

Blank == [name |-> "", args |-> <<>>, long |-> FALSE]

(* A dictionary nothing was read into.                                     *)
EmptyCompound ==
  [flag |-> {}, begin |-> {}, middle |-> {}, end |-> {}, permit |-> {},
   forbid |-> {}, forceUppercase |-> {}, minimum |-> 3, maximum |-> {},
   checkDuplicate |-> FALSE, checkReplacement |-> FALSE, checkCase |-> FALSE,
   checkTriple |-> FALSE, simplifiedTriple |-> FALSE, patterns |-> <<>>,
   syllables |-> {}, rules |-> <<>>]

DefaultBreaks ==
  LET Hyphen(start, end) == [text |-> <<"-">>, atStart |-> start, atEnd |-> end]
  IN << Hyphen(FALSE, FALSE), Hyphen(TRUE, FALSE), Hyphen(FALSE, TRUE) >>

EmptyDictionary ==
  [mode |-> "unicode", language |-> "default", caseFallback |-> TRUE,
   lexemes |-> {}, rules |-> {}, circumfix |-> {}, forbidden |-> {},
   keepCase |-> {}, needAffix |-> {}, onlyInCompound |-> {}, noSuggest |-> {},
   checkSharps |-> FALSE, fullStrip |-> FALSE, complexPrefixes |-> FALSE,
   compound |-> EmptyCompound, breaks |-> DefaultBreaks, replacements |-> <<>>,
   wordCharacters |-> {}, ignored |-> {}, keyboard |-> {}, maps |-> <<>>,
   inputConversions |-> <<>>, outputConversions |-> <<>>]

NoSection == [name |-> "none", left |-> 0]

(***************************************************************************)
(* Diagnostics.                                                            *)
(***************************************************************************)
Note(file, line, severity) == [file |-> file, line |-> line, severity |-> severity]

Report(severity) == diagnostics' = diagnostics \cup {Note("aff", at, severity)}

line == source.aff[at]
mode == dictionary.mode
IsIgnored(l) == l.name = ""
Field(l, i) == IF i \in DOMAIN l.args THEN l.args[i] ELSE <<>>

(***************************************************************************)
(* Bytes: the encoding the affix file declares, and what it decodes to.    *)
(***************************************************************************)
SetLines == {i \in DOMAIN source.aff : source.aff[i].name = "SET"}

DeclaredEncoding ==
  IF SetLines = {} THEN {"utf-8"}
  ELSE LET set == source.aff[Min(SetLines)]
       IN {EncodingOf[f] : f \in {x \in DOMAIN EncodingOf : set.args = <<x>>}}

EncodingMatches(encoding, configured) ==
  \/ encoding = configured
  \/ encoding = "utf-8" /\ configured = "utf-8 with fallback"

(* The encodings both files are read in; none when that is an error.       *)
Encodings ==
  IF source.configured = {}
  THEN {[aff |-> e, dic |-> e] : e \in DeclaredEncoding}
  ELSE {c \in source.configured :
          \E e \in DeclaredEncoding : EncodingMatches(e, c.aff)}

Undecoded(file) == {file} \cap {f \in {"aff", "dic"} :
                                 \E e \in Encodings : e[f] \notin source.decodes[f]}

(* A file that cannot be read is read as an empty one.                     *)
ReadBytes ==
  /\ phase = "bytes"
  /\ LET unread == IF source.tooBig # {} \/ Encodings = {} THEN {"aff", "dic"}
                   ELSE Undecoded("aff") \cup Undecoded("dic")
         faults == IF source.tooBig # {} THEN source.tooBig
                   ELSE IF Encodings = {} THEN {"aff"}
                   ELSE unread
     IN /\ source' = [source EXCEPT !.aff = IF "aff" \in unread THEN <<>> ELSE @,
                                    !.dic = IF "dic" \in unread THEN <<>> ELSE @]
        /\ diagnostics' = {Note(f, 0, "error") : f \in faults}
  /\ phase' = "aff"
  /\ UNCHANGED << at, section, declared, aliases, morphologies, dictionary,
                  entries, expected >>

(***************************************************************************)
(* Directives of one line.                                                 *)
(***************************************************************************)
FlagFields == [CIRCUMFIX |-> "circumfix", FORBIDDENWORD |-> "forbidden",
               KEEPCASE |-> "keepCase", NEEDAFFIX |-> "needAffix",
               ONLYINCOMPOUND |-> "onlyInCompound", NOSUGGEST |-> "noSuggest"]
CompoundFlagFields ==
  [COMPOUNDFLAG |-> "flag", COMPOUNDBEGIN |-> "begin", COMPOUNDMIDDLE |-> "middle",
   COMPOUNDEND |-> "end", COMPOUNDPERMITFLAG |-> "permit",
   COMPOUNDFORBIDFLAG |-> "forbid", FORCEUCASE |-> "forceUppercase"]
MarkerFields == [CHECKSHARPS |-> "checkSharps", FULLSTRIP |-> "fullStrip",
                 COMPLEXPREFIXES |-> "complexPrefixes"]
CompoundMarkerFields ==
  [CHECKCOMPOUNDDUP |-> "checkDuplicate", CHECKCOMPOUNDREP |-> "checkReplacement",
   CHECKCOMPOUNDCASE |-> "checkCase", CHECKCOMPOUNDTRIPLE |-> "checkTriple",
   SIMPLIFIEDTRIPLE |-> "simplifiedTriple"]
CharacterFields == [WORDCHARS |-> "wordCharacters", IGNORE |-> "ignored"]

(* A line at the top of the file, read and finished.                       *)
TopLine(l) ==
  /\ phase = "aff" /\ section = NoSection /\ at <= Len(source.aff)
  /\ line = l /\ ~IsIgnored(l) /\ ~l.long
  /\ at' = at + 1
  /\ UNCHANGED << source, phase, aliases, morphologies, entries, expected >>

(* Mutant: what cannot be used is passed over. *)
StoreSilent(valid, stored, severity) ==
  (IF valid THEN dictionary' = stored ELSE UNCHANGED dictionary) /\ UNCHANGED diagnostics

(* Store what the line says, or report it and leave everything as it is.   *)
Store(valid, stored, severity) ==
  IF valid THEN dictionary' = stored /\ UNCHANGED diagnostics
  ELSE Report(severity) /\ UNCHANGED dictionary

Simple == UNCHANGED << section, declared >>

SpecialFlag ==
  /\ TopLine(line) /\ line.name \in DOMAIN FlagFields
  /\ LET f == FlagFields[line.name]
         flag == DecodeFlag(Field(line, 1), mode)
     IN Store(Len(line.args) = 1 /\ dictionary[f] = {} /\ flag # {},
              [dictionary EXCEPT ![f] = flag], "error")
  /\ Simple

CompoundFlag ==
  /\ TopLine(line) /\ line.name \in DOMAIN CompoundFlagFields
  /\ LET f == CompoundFlagFields[line.name]
         flag == DecodeFlag(Field(line, 1), mode)
     IN Store(Len(line.args) = 1 /\ dictionary.compound[f] = {} /\ flag # {},
              [dictionary EXCEPT !.compound[f] = flag], "error")
  /\ Simple

Marker ==
  /\ TopLine(line) /\ line.name \in DOMAIN MarkerFields
  /\ LET f == MarkerFields[line.name]
     IN Store(line.args = <<>> /\ ~dictionary[f],
              [dictionary EXCEPT ![f] = TRUE], "error")
  /\ Simple

CompoundMarker ==
  /\ TopLine(line) /\ line.name \in DOMAIN CompoundMarkerFields
  /\ LET f == CompoundMarkerFields[line.name]
     IN Store(line.args = <<>> /\ ~dictionary.compound[f],
              [dictionary EXCEPT !.compound[f] = TRUE], "error")
  /\ Simple

Characters ==
  /\ TopLine(line) /\ line.name \in DOMAIN CharacterFields
  /\ LET f == CharacterFields[line.name]
     IN Store(Len(line.args) = 1 /\ dictionary[f] = {},
              [dictionary EXCEPT ![f] = Range(Field(line, 1))], "error")
  /\ Simple

Keyboard ==
  /\ TopLine(line) /\ line.name = "KEY"
  /\ Store(Len(line.args) = 1 /\ dictionary.keyboard = {},
           [dictionary EXCEPT !.keyboard = {Field(line, 1)}], "warning")
  /\ Simple

CompoundMinimum ==
  /\ TopLine(line) /\ line.name = "COMPOUNDMIN"
  /\ LET n == Number(Field(line, 1))
     IN Store(Len(line.args) = 1 /\ n # {},
              [dictionary EXCEPT !.compound.minimum = Max(n \cup {1})], "error")
  /\ Simple

CompoundWordMaximum ==
  /\ TopLine(line) /\ line.name = "COMPOUNDWORDMAX"
  /\ LET n == Number(Field(line, 1))
     IN Store(/\ \/ Len(line.args) = 1
                 \/ Len(line.args) = 2 /\ DecodeFlag(Field(line, 2), mode) # {}
              /\ n # {} /\ n \subseteq 1..MaxCompoundScalars
              /\ dictionary.compound.maximum = {},
              [dictionary EXCEPT !.compound.maximum = n], "error")
  /\ Simple

CompoundSyllables ==
  /\ TopLine(line) /\ line.name = "COMPOUNDSYLLABLE"
  /\ LET limits == {[maximum |-> n, vowels |-> Range(Field(line, 2))] :
                      n \in Number(Field(line, 1))}
     IN Store(/\ Len(line.args) = 2 /\ limits # {}
              /\ dictionary.compound.syllables = {},
              [dictionary EXCEPT !.compound.syllables = limits], "error")
  /\ Simple

SetEncoding ==
  /\ TopLine(line) /\ line.name = "SET"
  /\ Store(line.args \in {<<f>> : f \in DOMAIN EncodingOf}, dictionary, "error")
  /\ Simple

Modes == << <<"UTF-8">>, <<"long">>, <<"num">> >>
ModeNamed(args) ==
  {<<"unicode", "long", "numeric">>[i] : i \in {x \in DOMAIN Modes : args = <<Modes[x]>>}}

(* FLAG and LANG may be declared once, wherever they stand.                *)
FlagMode ==
  /\ TopLine(line) /\ line.name = "FLAG"
  /\ LET named == IF "FLAG" \in declared THEN {} ELSE ModeNamed(line.args)
     IN IF named # {}
        THEN /\ \E m \in named : dictionary' = [dictionary EXCEPT !.mode = m]
             /\ declared' = declared \cup {"FLAG"}
             /\ UNCHANGED diagnostics
        ELSE Report("error") /\ UNCHANGED << declared, dictionary >>
  /\ UNCHANGED section

CaseLanguage ==
  /\ TopLine(line) /\ line.name = "LANG"
  /\ IF Len(line.args) = 1 /\ "LANG" \notin declared
     THEN /\ declared' = declared \cup {"LANG"}
          /\ dictionary' = [dictionary EXCEPT !.language =
                              IF Field(line, 1) \in Turkic THEN "turkic" ELSE "default"]
          /\ UNCHANGED diagnostics
     ELSE Report("error") /\ UNCHANGED << declared, dictionary >>
  /\ UNCHANGED section

(***************************************************************************)
(* Counted sections: a header with the number of the lines that follow.    *)
(***************************************************************************)
Counted ==
  LET Rule(severity, least, most, once) ==
        [severity |-> severity, counts |-> least..most, once |-> once]
  IN [AF |-> Rule("error", 0, MaxAffixAliases, TRUE),
      AM |-> Rule("warning", 0, MaxAffixAliases, TRUE),
      ICONV |-> Rule("error", 0, MaxInputConversions, TRUE),
      OCONV |-> Rule("error", 0, MaxInputConversions, TRUE),
      REP |-> Rule("warning", 0, MaxReplacementRules, TRUE),
      MAP |-> Rule("warning", 0, MaxCharacterMaps, TRUE),
      BREAK |-> Rule("error", 0, MaxBreakPatterns, FALSE),
      CHECKCOMPOUNDPATTERN |-> Rule("error", 1, MaxCompoundPatterns, TRUE),
      COMPOUNDRULE |-> Rule("error", 1, MaxCompoundRules, FALSE)]

Open(name, count) ==
  section' = IF count = 0 THEN NoSection
             ELSE [name |-> name, left |-> count, header |-> at, expansions |-> 0]

(* The first BREAK takes the default patterns away.                        *)
OpenSection ==
  /\ TopLine(line) /\ line.name \in DOMAIN Counted
  /\ LET name == line.name
         count == IF Len(line.args) = 1 THEN Number(Field(line, 1)) ELSE {}
         rule == Counted[name]
     IN IF /\ count # {} /\ count \subseteq rule.counts
           /\ rule.once => name \notin declared
        THEN /\ \E n \in count : Open(name, n)
             /\ declared' = IF name = "COMPOUNDRULE" THEN declared
                            ELSE declared \cup {name}
             /\ dictionary' = IF name = "BREAK" /\ name \notin declared
                              THEN [dictionary EXCEPT !.breaks = <<>>] ELSE dictionary
             /\ UNCHANGED diagnostics
        ELSE Report(rule.severity) /\ UNCHANGED << section, declared, dictionary >>

(* A line inside a section.  What it holds is stored; if it holds nothing  *)
(* the section can use it is reported, and counted all the same.           *)
SectionLine(name) ==
  /\ phase = "aff" /\ section.name = name /\ at <= Len(source.aff)
  /\ ~IsIgnored(line)
  /\ at' = at + 1
  /\ UNCHANGED << source, phase, declared, entries, expected >>

CloseOne ==
  section' = IF section.left = 1 THEN NoSection
             ELSE [section EXCEPT !.left = @ - 1]

Belongs(fields) == line.name = section.name /\ Len(line.args) \in fields

Item(items, stored) ==
  /\ CloseOne
  /\ IF items # {} THEN dictionary' = stored /\ UNCHANGED diagnostics
     ELSE Report(Counted[section.name].severity) /\ UNCHANGED dictionary
  /\ UNCHANGED << aliases, morphologies >>

Appended(list, items) == list \o SetToSeq(items)

Conversion ==
  LET items == IF Belongs({2}) THEN ParseConversion(Field(line, 1), Field(line, 2))
               ELSE {}
  IN \/ /\ SectionLine("ICONV")
        /\ Item(items, [dictionary EXCEPT !.inputConversions = Appended(@, items)])
     \/ /\ SectionLine("OCONV")
        /\ Item(items, [dictionary EXCEPT !.outputConversions = Appended(@, items)])

Replacement ==
  /\ SectionLine("REP")
  /\ LET items == IF Belongs({2})
                  THEN ParseReplacementRule(Field(line, 1), Field(line, 2)) ELSE {}
     IN Item(items, [dictionary EXCEPT !.replacements = Appended(@, items)])

CharacterMap ==
  /\ SectionLine("MAP")
  /\ LET items == {f \in {Field(line, 1)} : Belongs({1}) /\ Len(f) >= 2}
     IN Item(items, [dictionary EXCEPT !.maps = Appended(@, items)])

Break ==
  /\ SectionLine("BREAK")
  /\ LET items == IF Belongs({1}) THEN ParseBreakPattern(Field(line, 1)) ELSE {}
     IN Item(items, [dictionary EXCEPT !.breaks = Appended(@, items)])

Pattern ==
  /\ SectionLine("CHECKCOMPOUNDPATTERN")
  /\ LET replacement == Option(Len(line.args) = 3, Field(line, 3))
         items == IF Belongs({2, 3})
                  THEN ParseCompoundPattern(Field(line, 1), Field(line, 2),
                                            replacement, mode)
                  ELSE {}
     IN Item(items, [dictionary EXCEPT !.compound.patterns = Appended(@, items)])

(* The bound on expansions counts the rules under one header.              *)
Rule ==
  /\ SectionLine("COMPOUNDRULE")
  /\ LET rules == {r \in IF Belongs({1}) THEN ParseCompoundRule(Field(line, 1), mode)
                         ELSE {} :
                     section.expansions + Len(r) <= MaxRuleExpansions}
         more == MapThenSumSet(Len, rules)
     IN /\ section' = IF section.left = 1 THEN NoSection
                      ELSE [section EXCEPT !.left = @ - 1, !.expansions = @ + more]
        /\ IF rules # {}
           THEN /\ dictionary' = [dictionary EXCEPT !.compound.rules = Appended(@, rules)]
                /\ UNCHANGED diagnostics
           ELSE Report("error") /\ UNCHANGED dictionary
  /\ UNCHANGED << aliases, morphologies >>

(* An alias that cannot be read keeps its place, empty.                    *)
FlagAlias ==
  /\ SectionLine("AF")
  /\ LET flags == IF Belongs({0}) THEN {{}}
                  ELSE IF Belongs({1})
                  THEN {Range(s) : s \in {x \in FlagSequence(Field(line, 1), mode) :
                                            Len(x) <= MaxFlagsPerEntry}}
                  ELSE {}
     IN /\ aliases' = Append(aliases, flags)
        /\ IF flags # {} THEN UNCHANGED diagnostics ELSE Report("error")
  /\ CloseOne
  /\ UNCHANGED << dictionary, morphologies >>

MorphologyAlias ==
  /\ SectionLine("AM")
  /\ LET valid == line.name = "AM" /\ Len(line.args) \in 1..MaxMorphologyFields
     IN /\ morphologies' = Append(morphologies, valid)
        /\ IF valid THEN UNCHANGED diagnostics ELSE Report("warning")
  /\ CloseOne
  /\ UNCHANGED << dictionary, aliases >>

(***************************************************************************)
(* Affix groups.                                                           *)
(***************************************************************************)
OpenGroup ==
  /\ TopLine(line) /\ line.name \in {"PFX", "SFX"}
  /\ LET count == Number(Field(line, 3))
         flag == DecodeFlag(Field(line, 1), mode)
     IN IF /\ Len(line.args) = 3 /\ flag # {} /\ count # {}
           /\ Field(line, 2) \in {<<"Y">>, <<"N">>}
        THEN /\ section' = IF count = {0} THEN NoSection
                           ELSE [name |-> line.name, left |-> Max(count), header |-> at,
                                 flag |-> flag, cross |-> Field(line, 2) = <<"Y">>]
             /\ UNCHANGED diagnostics
        ELSE Report("error") /\ UNCHANGED section
  /\ UNCHANGED << declared, dictionary >>

(* The letters to add, and behind a slash the flags that follow.           *)
Continuation(field) ==
  IF ~Has(field, "/") THEN {[add |-> field, flags |-> {}]}
  ELSE {[add |-> Before(field, "/"), flags |-> f] :
          f \in IF After(field, "/") = <<>> THEN {}
                ELSE EntryFlags(After(field, "/"), mode, aliases)}

ParseAffixRule(l, id) ==
  IF /\ Len(l.args) >= 3 /\ Len(l.args) <= 4 + MaxMorphologyFields
     /\ l.name = section.name
     /\ DecodeFlag(Field(l, 1), mode) = section.flag
  THEN {[id |-> id, kind |-> IF l.name = "PFX" THEN "prefix" ELSE "suffix",
         flag |-> CHOOSE f \in section.flag : TRUE, strip |-> EmptyMarker(Field(l, 2)),
         add |-> EmptyMarker(c.add), condition |-> condition,
         cross |-> section.cross, continuation |-> c.flags] :
          c \in Continuation(Field(l, 3)),
          condition \in ParseCondition(IF Len(l.args) > 3 THEN Field(l, 4) ELSE <<".">>)}
  ELSE {}

AffixRule ==
  /\ \E name \in {"PFX", "SFX"} : SectionLine(name)
  /\ LET id == Cardinality(dictionary.rules)
         rules == IF line.long \/ id = MaxAffixRules THEN {} ELSE ParseAffixRule(line, id)
     IN \/ /\ \E rule \in rules : dictionary' = [dictionary EXCEPT !.rules = @ \cup {rule}]
           /\ UNCHANGED diagnostics
        \/ rules = {} /\ Report("error") /\ UNCHANGED dictionary
  /\ CloseOne
  /\ UNCHANGED << aliases, morphologies >>

(***************************************************************************)
(* The end of the .aff file, and the .dic file.                            *)
(***************************************************************************)
SkipLine ==
  /\ phase = "aff" /\ at <= Len(source.aff)
  /\ \/ IsIgnored(line) /\ UNCHANGED diagnostics
     \/ line.long /\ section = NoSection /\ Report("error")
  /\ at' = at + 1
  /\ UNCHANGED << source, phase, section, declared, aliases, morphologies,
                  dictionary, entries, expected >>

KnownDirectives == {"SET", "FLAG", "LANG", "KEY", "COMPOUNDMIN", "COMPOUNDWORDMAX",
                    "COMPOUNDSYLLABLE", "PFX", "SFX"}
  \cup DOMAIN FlagFields \cup DOMAIN CompoundFlagFields \cup DOMAIN MarkerFields
  \cup DOMAIN CompoundMarkerFields \cup DOMAIN CharacterFields \cup DOMAIN Counted

UnknownDirective ==
  /\ TopLine(line) /\ line.name \notin KnownDirectives
  /\ Report(IF line.name \in SuggestionOnly THEN "warning" ELSE "error")
  /\ Simple /\ UNCHANGED dictionary

(* IGNORE takes its letters out of what the rules strip and add; a rule    *)
(* that tests for one of them is an error.                                 *)
WithoutIgnored(r) == [r EXCEPT !.strip = Kept(@, dictionary.ignored),
                               !.add = Kept(@, dictionary.ignored)]

TestsIgnored(r) ==
  \E atom \in Range(r.condition.atoms) : atom.members \cap dictionary.ignored # {}

EndOfAff ==
  /\ phase = "aff" /\ at = Len(source.aff) + 1
  /\ LET short == IF section = NoSection THEN {}
                  ELSE {Note("aff", section.header,
                             IF section.name \in DOMAIN Counted
                             THEN Counted[section.name].severity ELSE "error")}
         unsafe == IF \E r \in dictionary.rules : TestsIgnored(r)
                   THEN {Note("aff", 0, "error")} ELSE {}
     IN diagnostics' = diagnostics \cup short \cup unsafe
  /\ dictionary' = [dictionary EXCEPT !.rules = {WithoutIgnored(r) : r \in @}]
  /\ phase' = "dic" /\ at' = 1 /\ section' = NoSection
  /\ UNCHANGED << source, declared, aliases, morphologies, entries, expected >>

(* The first line with content may be the number of entries; an entry is a *)
(* stem, its flags behind a slash, and fields of morphology.               *)
entry == source.dic[at]

IsIgnoredEntry(l) == IF l.args = <<>> THEN TRUE ELSE Head(l.args[1]) \in {"#", "/"}

FirstContent == \A i \in 1..at - 1 : IsIgnoredEntry(source.dic[i]) \/ source.dic[i].long

FlagsOfEntry(split, morphology) ==
  IF split.flags = {} THEN {{}}
  ELSE IF split.flags = {<<>>} THEN Option(morphology # <<>>, {})
  ELSE UNION {EntryFlags(f, mode, aliases) : f \in split.flags}

MorphologyNotes(morphology) ==
  LET first == Head(morphology)
      aliased == morphologies # <<>> /\ AllDigits(first)
      others == Tail(morphology)
      known == \E n \in Number(first) \cap DOMAIN morphologies : morphologies[n]
  IN IF morphology = <<>> THEN {}
     ELSE (IF aliased /\ ~known THEN {"warning"} ELSE {})
          \cup (IF Len(others) > MaxMorphologyFields THEN {"error"} ELSE {})

ReportEntry(severities) ==
  diagnostics' = diagnostics \cup {Note("dic", at, s) : s \in severities}

DicLine ==
  /\ phase = "dic" /\ at <= Len(source.dic)
  /\ at' = at + 1
  /\ UNCHANGED << source, phase, section, declared, aliases, morphologies >>

SkipEntry ==
  /\ DicLine
  /\ \/ IsIgnoredEntry(entry) /\ UNCHANGED diagnostics
     \/ ~IsIgnoredEntry(entry) /\ entry.long /\ ReportEntry({"error"})
  /\ UNCHANGED << dictionary, entries, expected >>

IsCount == FirstContent /\ Len(entry.args) = 1 /\ Number(entry.args[1]) # {}

CountLine ==
  /\ DicLine /\ ~IsIgnoredEntry(entry) /\ ~entry.long /\ IsCount
  /\ expected' = Number(entry.args[1])
  /\ UNCHANGED << dictionary, entries, diagnostics >>

Entry ==
  /\ DicLine /\ ~IsIgnoredEntry(entry) /\ ~entry.long /\ ~IsCount
  /\ entries < MaxDictionaryEntries
  /\ entries' = entries + 1
  /\ LET split == SplitEntry(entry.args[1])
         morphology == Tail(entry.args)
         stem == Kept(split.stem, dictionary.ignored)
         flags == IF stem = <<>> THEN {} ELSE FlagsOfEntry(split, morphology)
     IN IF flags = {} THEN ReportEntry({"error"}) /\ UNCHANGED dictionary
        ELSE /\ dictionary' = [dictionary EXCEPT
                  !.lexemes = @ \cup {[stem |-> stem, flags |-> f] : f \in flags}]
             /\ ReportEntry(MorphologyNotes(morphology))
  /\ UNCHANGED expected

(* One entry too many ends the reading.                                    *)
TooManyEntries ==
  /\ phase = "dic" /\ at <= Len(source.dic)
  /\ ~IsIgnoredEntry(entry) /\ ~entry.long /\ ~IsCount
  /\ entries = MaxDictionaryEntries
  /\ entries' = entries + 1 /\ at' = Len(source.dic) + 1
  /\ ReportEntry({"error"})
  /\ UNCHANGED << source, phase, section, declared, aliases, morphologies,
                  dictionary, expected >>

(* Strict mode refuses a source with an error; lenient mode never does.    *)
Finish ==
  /\ phase = "dic" /\ at > Len(source.dic)
  /\ LET miscounted == {n \in expected : n # entries}
         all == diagnostics \cup {Note("dic", 0, "warning") : n \in miscounted}
     IN /\ diagnostics' = all
        /\ phase' = IF source.strict /\ \E n \in all : n.severity = "error"
                    THEN "refused" ELSE "imported"
  /\ UNCHANGED << source, at, section, declared, aliases, morphologies,
                  dictionary, entries, expected >>

ImportInit ==
  /\ phase = "bytes" /\ at = 1 /\ section = NoSection /\ declared = {}
  /\ aliases = <<>> /\ morphologies = <<>> /\ dictionary = EmptyDictionary
  /\ entries = 0 /\ expected = {} /\ diagnostics = {}

Directive ==
  \/ SpecialFlag \/ CompoundFlag \/ Marker \/ CompoundMarker \/ Characters
  \/ Keyboard \/ CompoundMinimum \/ CompoundWordMaximum \/ CompoundSyllables
  \/ SetEncoding \/ FlagMode \/ CaseLanguage \/ OpenSection \/ OpenGroup
  \/ UnknownDirective

InSection ==
  \/ Conversion \/ Replacement \/ CharacterMap \/ Break \/ Pattern \/ Rule
  \/ FlagAlias \/ MorphologyAlias \/ AffixRule

ImportNext ==
  \/ ReadBytes \/ SkipLine \/ Directive \/ InSection \/ EndOfAff
  \/ SkipEntry \/ CountLine \/ Entry \/ TooManyEntries \/ Finish
=============================================================================
