---------------------------- MODULE HunspellCodec ---------------------------
(***************************************************************************)
(* What the sections of a runtime cache say: the writers put the fields of *)
(* a dictionary down in an order, and the readers build a dictionary from  *)
(* what they find in theirs (crates/ferrolex-hunspell/src/cache.rs).       *)
(*                                                                         *)
(* A tuple is what is written one after the other, a sequence a counted    *)
(* table.  The bytes of a number, a text or a mark are left out, and so is *)
(* the order of entries and of rules, which carry their number.  A class   *)
(* of one letter is written as the letter.                                 *)
(***************************************************************************)
EXTENDS HunspellSyntax

Each(items, Op(_)) == [i \in DOMAIN items |-> Op(items[i])]

(* A marker says whether there is a value behind it.                       *)
WriteOption(option) ==
  IF option = {} THEN << 0 >> ELSE << 1, CHOOSE x \in option : TRUE >>
ReadOption(w) == Option(w[1] = 1, w[2])

(* Zero stands for no maximum.                                             *)
WriteMaximum(option) == IF option = {} THEN 0 ELSE CHOOSE n \in option : TRUE
ReadMaximum(n) == Option(n # 0, n)

(* Names are written as numbers.                                           *)
WriteFlagMode(m) ==
  CASE m = "unicode" -> 0 [] m = "long" -> 1 [] m = "numeric" -> 2
ReadFlagMode(n) ==
  CASE n = 0 -> "unicode" [] n = 1 -> "long" [] n = 2 -> "numeric"

WriteCaseLanguage(l) == CASE l = "default" -> 0 [] l = "turkic" -> 1
ReadCaseLanguage(n) == CASE n = 0 -> "default" [] n = 1 -> "turkic"

WriteKind(kind) == CASE kind = "prefix" -> 0 [] kind = "suffix" -> 1
ReadKind(n) == CASE n = 0 -> "prefix" [] n = 1 -> "suffix"

------------------------- (* entries and rules *) --------------------------

WriteLexeme(l) == << l.stem, l.flags >>
ReadLexeme(w) == [stem |-> w[1], flags |-> w[2]]

WriteAtom(atom) ==
  IF atom = AnyLetter THEN << 0 >>
  ELSE IF ~atom.negated /\ Cardinality(atom.members) = 1
  THEN << 1, CHOOSE c \in atom.members : TRUE >>
  ELSE << 2, atom.negated, atom.members >>
ReadAtom(w) ==
  CASE w[1] = 0 -> AnyLetter
    [] w[1] = 1 -> Literal(w[2])
    [] w[1] = 2 -> [negated |-> w[2], members |-> w[3]]

WriteCondition(c) ==
  << c.anchored, WriteOption({WriteAtom(a) : a \in c.notBefore}), Each(c.atoms, WriteAtom) >>
ReadCondition(w) ==
  [anchored |-> w[1], notBefore |-> {ReadAtom(a) : a \in ReadOption(w[2])},
   atoms |-> Each(w[3], ReadAtom)]

WriteRule(r) ==
  << r.id, WriteKind(r.kind), r.flag, r.strip, r.add, WriteCondition(r.condition),
     r.cross, r.continuation >>
ReadRule(w) ==
  [id |-> w[1], kind |-> ReadKind(w[2]), flag |-> w[3], strip |-> w[4], add |-> w[5],
   condition |-> ReadCondition(w[6]), cross |-> w[7], continuation |-> w[8]]

WriteRules(d, kind) == {WriteRule(r) : r \in {x \in d.rules : x.kind = kind}}

(* A rule is refused in the section of the other kind.                     *)
OfKind(rules, kind) == \A w \in rules : ReadKind(w[2]) = kind

------------------------ (* tables of spellings *) -------------------------

WriteConversion(c) == << c.from, c.to, c.atStart, c.atEnd >>
ReadConversion(w) == [from |-> w[1], to |-> w[2], atStart |-> w[3], atEnd |-> w[4]]

WriteBreak(p) == << p.text, p.atStart, p.atEnd >>

(* Mutant: the two marks are read in the other order. *)
ReadBreakSwapped(w) == [text |-> w[1], atStart |-> w[3], atEnd |-> w[2]]

ReadBreak(w) == [text |-> w[1], atStart |-> w[2], atEnd |-> w[3]]

WritePattern(p) ==
  << p.ending, WriteOption(p.endingFlag), p.beginning, WriteOption(p.beginningFlag),
     WriteOption(p.replacement) >>
ReadPattern(w) ==
  [ending |-> w[1], endingFlag |-> ReadOption(w[2]), beginning |-> w[3],
   beginningFlag |-> ReadOption(w[4]), replacement |-> ReadOption(w[5])]

----------------------------- (* compounds *) ------------------------------

WriteSyllables(option) ==
  WriteOption({<< limit.maximum, limit.vowels >> : limit \in option})
ReadSyllables(w) == {[maximum |-> l[1], vowels |-> l[2]] : l \in ReadOption(w)}

WriteCompound(c) ==
  << WriteOption(c.flag), WriteOption(c.begin), WriteOption(c.middle), WriteOption(c.end),
     WriteOption(c.permit), WriteOption(c.forbid), WriteOption(c.forceUppercase),
     c.minimum, WriteMaximum(c.maximum), c.checkDuplicate, c.checkReplacement,
     c.checkCase, c.checkTriple, c.simplifiedTriple, c.rules,
     Each(c.patterns, WritePattern), WriteSyllables(c.syllables) >>
ReadCompound(w) ==
  [flag |-> ReadOption(w[1]), begin |-> ReadOption(w[2]), middle |-> ReadOption(w[3]),
   end |-> ReadOption(w[4]), permit |-> ReadOption(w[5]), forbid |-> ReadOption(w[6]),
   forceUppercase |-> ReadOption(w[7]), minimum |-> w[8], maximum |-> ReadMaximum(w[9]),
   checkDuplicate |-> w[10], checkReplacement |-> w[11], checkCase |-> w[12],
   checkTriple |-> w[13], simplifiedTriple |-> w[14], rules |-> w[15],
   patterns |-> Each(w[16], ReadPattern), syllables |-> ReadSyllables(w[17])]

--------------------------- (* the dictionary *) ---------------------------

WriteSpecialFlags(d) ==
  << WriteOption(d.circumfix), WriteOption(d.forbidden), WriteOption(d.keepCase),
     WriteOption(d.needAffix), WriteOption(d.onlyInCompound), WriteOption(d.noSuggest),
     d.checkSharps >>

(* compile_runtime_cache, from the FLAG mode on.                           *)
WriteDictionary(d) ==
  << WriteFlagMode(d.mode), d.caseFallback, WriteCaseLanguage(d.language),
     {WriteLexeme(l) : l \in d.lexemes}, WriteRules(d, "prefix"), WriteRules(d, "suffix"),
     WriteSpecialFlags(d), WriteOption(d.keyboard), d.maps, WriteCompound(d.compound),
     Each(d.breaks, WriteBreak), d.wordCharacters, Each(d.replacements, WriteConversion),
     d.ignored, Each(d.inputConversions, WriteConversion),
     Each(d.outputConversions, WriteConversion), d.fullStrip, d.complexPrefixes >>

(* load_verified_runtime_cache, and the dictionary from_parts makes of it. *)
ReadDictionary(w) ==
  [mode |-> ReadFlagMode(w[1]), caseFallback |-> w[2], language |-> ReadCaseLanguage(w[3]),
   lexemes |-> {ReadLexeme(l) : l \in w[4]}, rules |-> {ReadRule(r) : r \in w[5] \cup w[6]},
   circumfix |-> ReadOption(w[7][1]), forbidden |-> ReadOption(w[7][2]),
   keepCase |-> ReadOption(w[7][3]), needAffix |-> ReadOption(w[7][4]),
   onlyInCompound |-> ReadOption(w[7][5]), noSuggest |-> ReadOption(w[7][6]),
   checkSharps |-> w[7][7], keyboard |-> ReadOption(w[8]), maps |-> w[9],
   compound |-> ReadCompound(w[10]), breaks |-> Each(w[11], ReadBreak),
   wordCharacters |-> w[12], replacements |-> Each(w[13], ReadConversion),
   ignored |-> w[14], inputConversions |-> Each(w[15], ReadConversion),
   outputConversions |-> Each(w[16], ReadConversion), fullStrip |-> w[17],
   complexPrefixes |-> w[18]]
=============================================================================
