--------------------------- MODULE HunspellModel ---------------------------
(***************************************************************************)
(* The data a Hunspell dictionary recognises words with, and what one      *)
(* affix rule does: crates/ferrolex-hunspell/src/model.rs.                 *)
(*                                                                         *)
(* A word is a sequence of letters.  An optional flag is a set of at most  *)
(* one flag, so "the declared flag is among these" is an intersection.     *)
(* Functions that may return nothing return a set of at most one value.    *)
(***************************************************************************)
EXTENDS Integers, SequencesExt, FiniteSetsExt

CONSTANTS Casing   \* Casing[l].lower, Casing[l].upper: a letter's letters

Languages == {"default", "turkic"}

(* The limits of a dictionary, which importer, cache and lookup share.     *)
CONSTANTS MaxDictionaryEntries, MaxFlagsPerEntry, MaxAffixRules,
          MaxConditionAtoms, MaxCompoundScalars, MaxCompoundRules,
          MaxRuleExpansions, MaxExpansionsPerRule, MaxRuleComponents,
          MaxCompoundPatterns, MaxBreakPatterns, MaxReplacementRules,
          MaxCharacterMaps, MaxInputConversions

Kind == {"prefix", "suffix"}

Carries(flags, option) == flags \cap option # {}

IsText(t) == t \in Seq(Range(t))

ASSUME CasesAreLetters ==
  \A lang \in Languages : \A map \in {Casing[lang].lower, Casing[lang].upper} :
    \A c \in DOMAIN map : IsText(map[c])

(* The numbers of a set from left to right, and what a sequence has there. *)
LeftToRight(places) ==
  [k \in 1..Cardinality(places) |->
     CHOOSE i \in places : Cardinality({j \in places : j <= i}) = k]

Picked(s, places) ==
  LET order == LeftToRight(places) IN [k \in 1..Cardinality(places) |-> s[order[k]]]

------------------------------- (* casing *) -------------------------------

(* A letter that is not listed has no other case.                          *)
InCase(c, map) == IF c \in DOMAIN map THEN map[c] ELSE <<c>>
LowerOf(c, lang) == InCase(c, Casing[lang].lower)
UpperOf(c, lang) == InCase(c, Casing[lang].upper)

Lowercase(w, lang) == FlattenSeq([i \in DOMAIN w |-> LowerOf(w[i], lang)])
Uppercase(w, lang) == FlattenSeq([i \in DOMAIN w |-> UpperOf(w[i], lang)])

InitialCase(w, lang) ==
  IF w = <<>> THEN <<>>
  ELSE UpperOf(Head(w), lang) \o Lowercase(Tail(w), lang)

IsCased(c, lang) == LowerOf(c, lang) # UpperOf(c, lang)
IsUppercase(c, lang) == LowerOf(c, lang) # <<c>>
IsLowercase(c, lang) == UpperOf(c, lang) # <<c>>

(* Both tests of the code draw from one iterator: the letter that ends the *)
(* run of capitals is consumed, and the test for small letters starts      *)
(* behind it.                                                              *)
CasePattern(w, lang) ==
  LET cased == SelectSeq(w, LAMBDA c : IsCased(c, lang))
      others == {i \in DOMAIN cased : ~IsUppercase(cased[i], lang)}
  IN IF cased = <<>> \/ 1 \in others THEN "none"
     ELSE IF others = {} THEN "upper"
     ELSE IF \A i \in DOMAIN cased :
               i > Min(others) => IsLowercase(cased[i], lang)
          THEN "initial"
     ELSE "none"

----------------------------- (* affix rules *) ----------------------------

(* A rule: [id, kind, flag, strip, add, condition, cross, continuation];   *)
(* a condition: [atoms, notBefore, anchored]; an atom: [members, negated], *)
(* so that a literal is one member and the dot excludes none.              *)
NoCondition == [atoms |-> <<>>, notBefore |-> {}, anchored |-> FALSE]

Admits(atom, c) == (c \in atom.members) # atom.negated

ConditionMatches(c, stem, kind) ==
  LET n == Len(c.atoms)
      from == IF kind = "prefix" \/ c.anchored THEN 0 ELSE Len(stem) - n
  IN /\ n <= Len(stem)
     /\ \A i \in 1..n : Admits(c.atoms[i], stem[from + i])
     /\ kind = "suffix" /\ ~c.anchored /\ from > 0 =>
          \A atom \in c.notBefore : ~Admits(atom, stem[from])

Without(w, edge, kind) ==
  IF kind = "prefix"
  THEN IF IsPrefix(edge, w) THEN {SubSeq(w, Len(edge) + 1, Len(w))} ELSE {}
  ELSE IF IsSuffix(edge, w) THEN {SubSeq(w, 1, Len(w) - Len(edge))} ELSE {}

With(w, edge, kind) == IF kind = "prefix" THEN edge \o w ELSE w \o edge

Apply(r, stem, fullStrip) ==
  {With(rest, r.add, r.kind) : rest \in
     {x \in Without(stem, r.strip, r.kind) :
        /\ ConditionMatches(r.condition, stem, r.kind)
        /\ fullStrip \/ x # <<>>}}

ReverseApply(r, form, fullStrip) ==
  {stem \in {With(rest, r.strip, r.kind) : rest \in
               {x \in Without(form, r.add, r.kind) : fullStrip \/ x # <<>>}} :
     ConditionMatches(r.condition, stem, r.kind)}

(* AffixRuleIndex: the rules filed under the edge letter of what they add, *)
(* and those that add nothing.                                             *)
EdgeOf(w, kind) ==
  IF w = <<>> THEN {} ELSE {IF kind = "prefix" THEN Head(w) ELSE Last(w)}

(* Mutant: the rules that add nothing are not filed. *)
CandidateRulesAdding(rules, word) ==
  {r \in rules : EdgeOf(r.add, r.kind) = EdgeOf(word, r.kind)}

CandidateRules(rules, word) ==
  {r \in rules : r.add = <<>> \/ EdgeOf(r.add, r.kind) = EdgeOf(word, r.kind)}

----------------------------- (* derivations *) ----------------------------

(* FormState: a form, the flags that govern its next rule, and the chain   *)
(* of rules that led to it.                                                *)
NewForm(lexeme) ==
  [form |-> lexeme.stem, flags |-> lexeme.flags, origin |-> lexeme.flags,
   used |-> <<>>, prefixes |-> 0, suffixes |-> 0, last |-> {}, cross |-> TRUE,
   circumfix |-> {}]

Depth(s) == Len(s.used)

FlagsFor(s, kind) == IF s.last \in {{}, {kind}} THEN s.flags ELSE s.origin

(* Mutant: a third suffix is let through. *)
CanApplyThrice(s, r, complexPrefixes) ==
  /\ r.id \notin Range(s.used)
  /\ IF r.kind = "prefix"
     THEN s.prefixes < (IF complexPrefixes THEN 2 ELSE 1) /\ s.suffixes = 0
     ELSE s.suffixes <= 2
  /\ IF s.last \in {{}, {r.kind}} THEN r.flag \in s.flags
     ELSE s.cross /\ r.cross /\ r.flag \in s.origin

CanApply(s, r, complexPrefixes) ==
  /\ r.id \notin Range(s.used)
  /\ IF r.kind = "prefix"
     THEN s.prefixes < (IF complexPrefixes THEN 2 ELSE 1) /\ s.suffixes = 0
     ELSE s.suffixes < 2
  /\ IF s.last \in {{}, {r.kind}} THEN r.flag \in s.flags
     ELSE s.cross /\ r.cross /\ r.flag \in s.origin

Extend(s, r, form, circumfix) ==
  [s EXCEPT !.form = form,
            !.flags = r.continuation,
            !.used = Append(@, r.id),
            !.prefixes = @ + (IF r.kind = "prefix" THEN 1 ELSE 0),
            !.suffixes = @ + (IF r.kind = "suffix" THEN 1 ELSE 0),
            !.last = {r.kind},
            !.cross = r.cross,
            !.circumfix = @ \cup (IF Carries(r.continuation, circumfix)
                                  THEN {r.kind} ELSE {})]

(* Both halves of a circumfix, or neither.                                 *)
CompleteCircumfix(s) == s.circumfix \in {{}, Kind}

(* The rules a state may be extended by, and the states that yields.       *)
Successors(d, s) ==
  UNION {{Extend(s, r, form, d.circumfix) :
            form \in Apply(r, s.form, d.fullStrip)} :
         r \in {x \in d.rules : /\ x.flag \in FlagsFor(s, x.kind)
                               /\ CanApply(s, x, d.complexPrefixes)}}

---------------------------- (* conversions *) -----------------------------

(* ICONV and OCONV, from left to right: of the rules that match here the   *)
(* longest, of those the first.  Conversion: [from, to, atStart, atEnd].   *)
ApplyConversions(w, conversions) ==
  LET MatchesAt(c, i) ==
        /\ c.atStart => i = 1
        /\ c.atEnd => Len(c.from) = Len(w) - i + 1
        /\ IsPrefix(c.from, SubSeq(w, i, Len(w)))
      Best(i) ==
        LET hits == {n \in DOMAIN conversions : MatchesAt(conversions[n], i)}
            longest == Max({Len(conversions[n].from) : n \in hits})
        IN Min({n \in hits : Len(conversions[n].from) = longest})
      converted[i \in 1..Len(w) + 1] ==
        IF i > Len(w) THEN <<>>
        ELSE IF \E n \in DOMAIN conversions : MatchesAt(conversions[n], i)
        THEN LET c == conversions[Best(i)] IN c.to \o converted[i + Len(c.from)]
        ELSE <<w[i]>> \o converted[i + 1]
  IN converted[1]

Kept(w, ignored) == Picked(w, {i \in DOMAIN w : w[i] \notin ignored})

NormalizeInput(d, w) == Kept(ApplyConversions(w, d.inputConversions), d.ignored)
=============================================================================
