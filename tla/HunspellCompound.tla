-------------------------- MODULE HunspellCompound -------------------------
(***************************************************************************)
(* Stems, single affixes and compounds: what one part of a word may be,    *)
(* and how parts make a word.  crates/ferrolex-hunspell/src/compound.rs    *)
(* and the predicates of lib.rs it rests on.                               *)
(*                                                                         *)
(* A boundary is the number of letters before it.  reach is the frontier   *)
(* of the code: the boundaries that so many components can end at.         *)
(***************************************************************************)
EXTENDS HunspellModel

CONSTANT MaxReplacementVariants

LexemesFor(d, stem) == {l \in d.lexemes : l.stem = stem}

Forbidden(d, flags) == Carries(flags, d.forbidden)
RequiresAffix(d, flags) == Carries(flags, d.needAffix)
OnlyInCompound(d, flags) == Carries(flags, d.onlyInCompound)
CompoundForbidden(d, flags) == Carries(flags, d.compound.forbid)

(* An entry that may be used at all; KEEPCASE entries only as they stand.  *)
UsableForbidden(d, l, keep) == keep \/ ~Carries(l.flags, d.keepCase)  \* mutant

Usable(d, l, keep) == /\ ~Forbidden(d, l.flags)
                      /\ keep \/ ~Carries(l.flags, d.keepCase)

AcceptsStem(d, l, keep) ==
  /\ Usable(d, l, keep)
  /\ ~RequiresAffix(d, l.flags)
  /\ ~OnlyInCompound(d, l.flags)

AcceptedSingleAffix(d, l, r) ==
  /\ ~Forbidden(d, r.continuation)
  /\ ~RequiresAffix(d, r.continuation)
  /\ ~OnlyInCompound(d, l.flags)
  /\ ~OnlyInCompound(d, r.continuation)
  /\ ~Carries(r.continuation, d.circumfix)

SingleAffixPairs(d, w, keep) ==
  {p \in CandidateRules(d.rules, w) \X d.lexemes :
     /\ {p[2].stem} = ReverseApply(p[1], w, d.fullStrip)
     /\ Usable(d, p[2], keep)
     /\ p[1].flag \in p[2].flags
     /\ AcceptedSingleAffix(d, p[2], p[1])}

MatchesNoncompoundWord(d, w, keep) ==
  \/ \E l \in LexemesFor(d, w) : AcceptsStem(d, l, keep)
  \/ SingleAffixPairs(d, w, keep) # {}

AcceptedCompoundState(d, s) ==
  /\ ~Forbidden(d, s.flags)
  /\ ~CompoundForbidden(d, s.origin) /\ ~CompoundForbidden(d, s.flags)
  /\ ~RequiresAffix(d, s.flags)
  /\ CompleteCircumfix(s)

--------------------------- (* one component *) ----------------------------

MatchesComponent(d, w, flag, final, keep) ==
  \E l \in LexemesFor(d, w) :
    /\ Usable(d, l, keep)
    /\ final \/ ~CompoundForbidden(d, l.flags)
    /\ flag \in l.flags

CompoundRuleAllowed(d, r, position) ==
  \/ Carries(r.continuation, d.compound.permit)
  \/ position = "begin" /\ r.kind = "prefix"
  \/ position = "end" /\ r.kind = "suffix"

Positioned(d, l, flag) == flag \in l.flags \/ Carries(l.flags, d.compound.flag)

MatchesOneAffixComponent(d, w, flag, position, keep) ==
  \E r \in CandidateRules(d.rules, w) :
    /\ CompoundRuleAllowed(d, r, position)
    /\ \E stem \in ReverseApply(r, w, d.fullStrip) :
         \E l \in LexemesFor(d, stem) :
           /\ Usable(d, l, keep)
           /\ r.flag \in l.flags
           /\ Positioned(d, l, flag)
           /\ AcceptedCompoundState(d, Extend(NewForm(l), r, w, d.circumfix))

MatchesPositionedComponent(d, w, flag, position, keep) ==
  \/ \E l \in LexemesFor(d, w) :
       /\ Usable(d, l, keep)
       /\ position = "end" \/ ~CompoundForbidden(d, l.flags)
       /\ Positioned(d, l, flag)
  \/ MatchesOneAffixComponent(d, w, flag, position, keep)

----------------------------- (* boundaries *) -----------------------------

(* Three equal letters across the boundary b.                              *)
TripleAt(w, b) ==
  /\ b >= 1 /\ b < Len(w) /\ w[b] = w[b + 1]
  /\ \/ b >= 2 /\ w[b - 1] = w[b]
     \/ b + 2 <= Len(w) /\ w[b + 2] = w[b]

PatternForbids(d, w, start, right) ==
  LET left == SubSeq(w, 1, start)
  IN \E p \in Range(d.compound.patterns) :
       /\ p.replacement = {}
       /\ p.ending # <<"0">>
       /\ IsSuffix(p.ending, left) /\ IsPrefix(p.beginning, right)
       /\ p.endingFlag # {} =>
            \E l \in LexemesFor(d, left) : Carries(l.flags, p.endingFlag)
       /\ p.beginningFlag # {} =>
            \E l \in LexemesFor(d, right) : Carries(l.flags, p.beginningFlag)

BoundaryAllowed(d, w, start, end, triples) ==
  LET component == SubSeq(w, start + 1, end)
      StartsUpper(v) == v # <<>> /\ IsUppercase(Head(v), "default")
  IN /\ ~(d.compound.checkCase /\ start # 0 /\ StartsUpper(component))
     /\ ~(d.compound.checkDuplicate /\ IsSuffix(component, SubSeq(w, 1, start)))
     /\ ~(d.compound.checkTriple /\ ~triples /\ TripleAt(w, start))
     /\ ~(/\ end = Len(w)
          /\ \E l \in LexemesFor(d, component) :
               Carries(l.flags, d.compound.forceUppercase)
          /\ ~StartsUpper(w))
     /\ ~PatternForbids(d, w, start, component)

CountAllowed(d, w, n) ==
  \/ \A maximum \in d.compound.maximum : n <= maximum
  \/ \E limit \in d.compound.syllables :
       Len(SelectSeq(w, LAMBDA c : c \in limit.vowels)) <= limit.maximum

(* Mutant: the extension stops one component short of the maximum. *)
CannotContinueEarly(d, n) ==
  d.compound.syllables = {} /\ \E maximum \in d.compound.maximum : n + 1 >= maximum

CannotContinue(d, n) ==
  d.compound.syllables = {} /\ \E maximum \in d.compound.maximum : n >= maximum

------------------------------ (* frontiers *) -----------------------------

ExtendComponents(d, w, reach, triples, Fits(_, _)) ==
  {end \in 1..Len(w) : \E start \in reach :
     /\ start + d.compound.minimum <= end
     /\ BoundaryAllowed(d, w, start, end, triples)
     /\ Fits(SubSeq(w, start + 1, end), end = Len(w))}

GenericReach(d, w, flag, keep, triples) ==
  LET Fits(part, final) == MatchesComponent(d, part, flag, final, keep)
      reach[n \in 0..Len(w)] ==
        IF n = 0 THEN {0}
        ELSE ExtendComponents(d, w, reach[n - 1], triples, Fits)
  IN reach

MatchesGeneric(d, w, flag, keep, triples) ==
  \E n \in 2..Len(w) :
    /\ \A m \in 1..n - 1 : ~CannotContinue(d, m)
    /\ CountAllowed(d, w, n)
    /\ Len(w) \in GenericReach(d, w, flag, keep, triples)[n]

PatternReach(d, w, pattern, keep, triples) ==
  LET reach[n \in 0..Len(pattern)] ==
        IF n = 0 THEN {0}
        ELSE LET Fits(part, final) ==
                   MatchesComponent(d, part, pattern[n], final, keep)
             IN ExtendComponents(d, w, reach[n - 1], triples, Fits)
  IN reach

MatchesFixedPattern(d, w, pattern, keep, triples) ==
  /\ Len(pattern) >= 2
  /\ CountAllowed(d, w, Len(pattern))
  /\ Len(w) \in PatternReach(d, w, pattern, keep, triples)[Len(pattern)]

ExtendPositioned(d, w, reach, flags, position, keep, triples) ==
  LET Fits(part, final) == \E flag \in flags :
        MatchesPositionedComponent(d, part, flag, position, keep)
  IN ExtendComponents(d, w, reach, triples, Fits)

(* The boundaries that a beginning and so many components less one end at. *)
PositionedReach(d, w, keep, triples) ==
  LET reach[n \in 1..Len(w)] ==
        IF n = 1
        THEN ExtendPositioned(d, w, {0}, d.compound.begin, "begin", keep, triples)
        ELSE ExtendPositioned(d, w, reach[n - 1], d.compound.middle, "middle", keep, triples)
  IN reach

MatchesPositioned(d, w, keep, triples) ==
  /\ d.compound.begin # {} /\ d.compound.end # {}
  /\ \E n \in 2..Len(w) :
       /\ \A m \in 2..n - 1 : ~CannotContinue(d, m)
       /\ CountAllowed(d, w, n)
       /\ Len(w) \in ExtendPositioned(d, w, PositionedReach(d, w, keep, triples)[n - 1],
                                      d.compound.end, "end", keep, triples)

RulePatterns(d) == UNION {Range(rule) : rule \in Range(d.compound.rules)}

MatchesWithTriples(d, w, keep, triples) ==
  \/ \E flag \in d.compound.flag : MatchesGeneric(d, w, flag, keep, triples)
  \/ \E pattern \in RulePatterns(d) :
       MatchesFixedPattern(d, w, pattern, keep, triples)
  \/ MatchesPositioned(d, w, keep, triples)

------------------------- (* whole-word variants *) ------------------------

(* Where t occurs in w, leftmost first and without overlap.                *)
Occurrences(w, t) ==
  LET at[i \in 1..Len(w) + 1] ==
        IF i + Len(t) > Len(w) + 1 THEN {}
        ELSE IF SubSeq(w, i, i + Len(t) - 1) = t THEN {i} \cup at[i + Len(t)]
        ELSE at[i + 1]
  IN at[1]

Replaced(w, i, t, by) == SubSeq(w, 1, i - 1) \o by \o SubSeq(w, i + Len(t), Len(w))

(* SIMPLIFIEDTRIPLE: one letter of a double one was left out.              *)
SimplifiedTriples(d, w) ==
  {InsertAt(w, i, w[i]) : i \in
     {i \in 2..Len(w) : /\ d.compound.checkTriple /\ d.compound.simplifiedTriple
                        /\ w[i] = w[i - 1]
                        /\ Len(w) < MaxCompoundScalars}}

(* A compound pattern with a replacement: what stood there before.         *)
PatternReplacements(d, w) ==
  LET Undone(p, by) ==
        {Replaced(w, i, by, p.ending \o p.beginning) : i \in
           {i \in Occurrences(w, by) :
              Cardinality({j \in Occurrences(w, by) : j <= i}) <= MaxReplacementVariants}}
  IN {v \in UNION {UNION {Undone(p, by) : by \in p.replacement} :
                     p \in Range(d.compound.patterns)} :
        Len(v) <= MaxCompoundScalars}

MatchesNoncompoundReplacement(d, w, keep) ==
  \E r \in Range(d.replacements) : \E i \in Occurrences(w, r.from) :
    /\ r.atStart => i = 1
    /\ r.atEnd => i + Len(r.from) - 1 = Len(w)
    /\ MatchesNoncompoundWord(d, Replaced(w, i, r.from, r.to), keep)

HasCompounds(d) ==
  \/ d.compound.flag # {} \/ d.compound.rules # <<>>
  \/ d.compound.begin # {} /\ d.compound.end # {}

MatchesSimpleCompound(d, w, keep) ==
  /\ HasCompounds(d)
  /\ ~(d.compound.checkReplacement /\ MatchesNoncompoundReplacement(d, w, keep))
  /\ Len(w) <= MaxCompoundScalars
  /\ \E v \in ({<< w, FALSE >>} \cup (SimplifiedTriples(d, w) \X {TRUE}))
             \cup (PatternReplacements(d, w) \X {FALSE}) :
       MatchesWithTriples(d, v[1], keep, v[2])
=============================================================================
