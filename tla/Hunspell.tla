------------------------------ MODULE Hunspell ------------------------------
(***************************************************************************)
(* A Hunspell dictionary from its sources to its answers: an .aff and a    *)
(* .dic file are imported, compiled into a runtime cache, loaded from it   *)
(* and asked for spellings.  The parts are HunspellImport, HunspellCache,  *)
(* HunspellDerivation and HunspellExplanation; the properties say how they *)
(* must agree.                                                             *)
(***************************************************************************)
EXTENDS HunspellImport, HunspellCache, HunspellDerivation, HunspellExplanation

CONSTANT Cases   \* [source, words]: sources and the spellings asked of them

(* A file is a sequence of lines, a line of fields, a field of characters; *)
(* what is between white space is never empty.                             *)
IsLine(l) == IsText(l.args) /\ \A f \in Range(l.args) : IsText(f) /\ f # <<>>

IsFile(lines) == IsText(lines) /\ \A l \in Range(lines) : IsLine(l)

ASSUME CasesAreTexts ==
  \A case \in Cases :
    /\ {"aff", "dic"} \subseteq DOMAIN case.source
    /\ IsFile(case.source.aff) /\ IsFile(case.source.dic)
    /\ \A w \in case.words : IsText(w)

VARIABLES words,
          artifact,      \* the cache, once compiled
          disturbance,   \* what became of it before it was loaded
          loaded,        \* what it gave
          ready          \* there is a dictionary to ask

cacheVars == << artifact, disturbance, loaded, ready >>
vars == << importVars, searchVars, words, cacheVars >>

Init ==
  /\ \E case \in Cases : source = case.source /\ words = case.words
  /\ ImportInit /\ SearchInit(EmptyDictionary)
  /\ artifact = {} /\ disturbance = "none" /\ loaded = {} /\ ready = FALSE

Import ==
  /\ ImportNext
  /\ UNCHANGED << searchVars, words, cacheVars >>

(* A dictionary that may not be compiled is asked as it was imported.      *)
Compile ==
  /\ phase = "imported" /\ artifact = {} /\ ~ready
  /\ artifact' = CompileRuntimeCache(dictionary, "aff", "dic")
  /\ ready' = (artifact' = {})
  /\ hunspell' = IF artifact' = {} THEN dictionary ELSE hunspell
  /\ UNCHANGED << importVars, words, word, keep, stage, pending, forms, candidates,
                  states, derivations, answer, exhausted, disturbance, loaded >>

(* What a cache file may have become: compiled from other sources, by      *)
(* another version, or no longer the bytes that were written.              *)
Disturbances ==
  {"otherAff", "otherDic", "format", "semantics", "magic", "damaged", "cut", "longer"}

Disturbed(a, how) ==
  CASE how = "otherAff" -> Sealed([a EXCEPT !.aff = "otherAff"])
    [] how = "otherDic" -> Sealed([a EXCEPT !.dic = "otherDic"])
    [] how = "format" -> Sealed([a EXCEPT !.format = @ + 1])
    [] how = "semantics" -> Sealed([a EXCEPT !.semantics = @ - 1])
    [] how = "magic" -> Sealed([a EXCEPT !.magic = "other"])
    [] how = "damaged" -> [a EXCEPT !.content[2] = ~@]
    [] how = "cut" -> [a EXCEPT !.length = HeaderBytes]
    [] how = "longer" -> Sealed([a EXCEPT !.trailing = 1, !.length = @ + 1])

Disturb ==
  /\ artifact # {} /\ disturbance = "none" /\ ~ready
  /\ disturbance' \in Disturbances
  /\ artifact' = {Disturbed(a, disturbance') : a \in artifact}
  /\ UNCHANGED << importVars, searchVars, words, loaded, ready >>

(* A cache that does not load is dropped for the sources.                  *)
Load ==
  /\ artifact # {} /\ ~ready
  /\ loaded' = UNION {LoadRuntimeCache(a, "aff", "dic") : a \in artifact}
  /\ hunspell' = IF loaded' = {} THEN dictionary ELSE CHOOSE d \in loaded' : TRUE
  /\ ready' = TRUE
  /\ UNCHANGED << importVars, words, word, keep, stage, pending, forms, candidates,
                  states, derivations, answer, exhausted, artifact, disturbance >>

(* The affix search for one spelling, as it stands or folded.              *)
LookUp ==
  /\ ready /\ disturbance = "none"
  /\ \E w \in words, k \in BOOLEAN : Ask(w, k)
  /\ UNCHANGED << importVars, words, cacheVars >>

Search == SearchStep /\ UNCHANGED << importVars, words, cacheVars >>

Return == Forget /\ UNCHANGED << importVars, words, cacheVars >>

(* Sources that strict mode refuses give no dictionary.                    *)
Refused == phase = "refused" /\ UNCHANGED vars

(* The files behind a disturbed cache were only there to be loaded.        *)
Reloaded == ready /\ disturbance # "none" /\ UNCHANGED vars

Next ==
  \/ Import \/ Compile \/ Disturb \/ Load \/ LookUp \/ Search \/ Return
  \/ Refused \/ Reloaded

Spec == Init /\ [][Next]_vars /\ WF_vars(Import) /\ WF_vars(Search)

(***************************************************************************)
(* Import.                                                                 *)
(***************************************************************************)
ReadsContent ==
  /\ phase = "aff" /\ at <= Len(source.aff) /\ ~IsIgnored(line)
  /\ at' = at + 1

Noted(severities) == Note("aff", at, severities) \in diagnostics'

(* A line that may leave everything as it is: the encoding is read         *)
(* beforehand, a minimum may repeat, a table may be empty.                 *)
SaysNothing ==
  /\ section = NoSection
  /\ \/ line.name = "SET" /\ Field(line, 1) \in DOMAIN EncodingOf
     \/ line.name = "COMPOUNDMIN" /\ Number(Field(line, 1)) # {}
     \/ /\ line.name \in DOMAIN Counted \cup {"PFX", "SFX"}
        /\ \E n \in DOMAIN line.args : Number(line.args[n]) = {0}

(* A line that is taken in: at the top of the file or by its own table.    *)
TakenIn ==
  \/ section = NoSection /\ section' # NoSection
  \/ /\ section = NoSection \/ line.name = section.name
     /\ << dictionary, declared, aliases, morphologies >>' #
          << dictionary, declared, aliases, morphologies >>

(* The replacements of REP are for suggestions and for CHECKCOMPOUNDREP.   *)
BearsOnRecognition == line.name \notin SuggestionOnly \cup {"MAP", "KEY", "AM"}

(* A warning is all there is for a line about suggestions, for REP, and for*)
(* what an open REP, MAP or AM table took for a line of its own.           *)
OnlyWarned == ~BearsOnRecognition \/ line.name = "REP" \/ section.name \in {"REP", "MAP", "AM"}

Accounted ==
  TakenIn \/ SaysNothing \/ Noted("error") \/ (Noted("warning") /\ OnlyWarned)

(* LostLinesAreErrors: no line of an .aff file is passed over in silence,  *)
(* and one that bears on recognition is not passed over without an error,  *)
(* unless it is a REP line, though CHECKCOMPOUNDREP may need it, or an open*)
(* table of replacements (REP), suggestions (MAP) or morphology (AM) took  *)
(* it for one of its own.  (parse_aff)                                     *)
LostLinesAreErrors == [][ReadsContent => Accounted]_vars

(***************************************************************************)
(* Cache.                                                                  *)
(***************************************************************************)
(* What the artifact gives on its own, and whether it is still what was    *)
(* written, if perhaps for other sources.                                  *)
Standalone == UNION {LoadRuntimeArtifact(a) : a \in artifact}
Whole == disturbance \in {"none", "otherAff", "otherDic"}

Asked == ready /\ artifact # {} /\ stage = "idle"

(* CacheHonest: a cache gives the dictionary it was compiled from or       *)
(* nothing; when its version or its bytes are no longer the same it gives  *)
(* nothing, nor, unless it is loaded as a standalone artifact, when its    *)
(* sources are not.                                                        *)
(* (compile_runtime_cache, load_runtime_cache, load_runtime_artifact)      *)
CacheHonest ==
  Asked => /\ Standalone \subseteq (IF Whole THEN {dictionary} ELSE {})
           /\ loaded = IF disturbance = "none" THEN Standalone ELSE {}

(* CacheReadable: a cache as it was written is refused only if it has more *)
(* than seven BREAK patterns, more compound patterns or, under FLAG num,   *)
(* more flags in one list than the little that follows them makes up for,  *)
(* or more bytes than a cache may have, which the writer does not look at  *)
(* when it is done: the readers ask for more bytes a pattern or a flag     *)
(* than the writer may have used.                                          *)
(* (require_minimum_items, read_flags, ensure_artifact_size)               *)
ManyNumbers(d) ==
  /\ d.mode = "numeric"
  /\ \/ \E l \in d.lexemes : Cardinality(l.flags) > 87
     \/ \E r \in d.rules : Cardinality(r.continuation) > 79

CacheReadable ==
  Asked /\ Whole /\ Standalone = {} =>
    \/ Len(dictionary.breaks) > 7
    \/ Len(dictionary.compound.patterns) > 27 + 7 * Len(dictionary.breaks)
    \/ ManyNumbers(dictionary)
    \/ \E a \in artifact : a.length > MaxCacheBytes

(***************************************************************************)
(* Lookup: stated of the spelling asked, once it has been answered.        *)
(***************************************************************************)
Answered == stage = "answered" /\ keep

(* A compound by its cuts: one set of boundaries, all parts at once.       *)
Boundary(cuts, b) ==
  [number |-> Cardinality({c \in cuts : c <= b}), end |-> b,
   start |-> IF \E c \in cuts : c < b THEN Max({c \in cuts : c < b}) ELSE 0]

CutInto(d, w, cuts, triples) ==
  LET parts == {Boundary(cuts, b) : b \in cuts}
      n == Cardinality(cuts)
      Text(p) == SubSeq(w, p.start + 1, p.end)
      Is(p, flag) == MatchesComponent(d, Text(p), flag, p.end = Len(w), TRUE)
      Position(p) == IF p.number = 1 THEN "begin"
                     ELSE IF p.end = Len(w) THEN "end" ELSE "middle"
  IN /\ CountAllowed(d, w, n)
     /\ \A p \in parts : /\ p.start + d.compound.minimum <= p.end
                         /\ BoundaryAllowed(d, w, p.start, p.end, triples)
     /\ \/ \E flag \in d.compound.flag : \A p \in parts : Is(p, flag)
        \/ \E rule \in RulePatterns(d) :
             Len(rule) = n /\ \A p \in parts : Is(p, rule[p.number])
        \/ \A p \in parts : \E flag \in d.compound[Position(p)] :
             MatchesPositionedComponent(d, Text(p), flag, Position(p), TRUE)

(* CompoundExact: extending a frontier of boundaries component by component*)
(* finds a compound exactly when the word can be cut into two or more parts*)
(* that are legal together; giving up at the word maximum loses none.      *)
(* (matches_generic_compound, matches_fixed_compound_pattern,              *)
(* matches_positioned_compound)                                            *)
CompoundExact ==
  Answered => \A triples \in BOOLEAN :
    MatchesWithTriples(hunspell, word, TRUE, triples) <=>
      \E cuts \in SUBSET (1..Len(word)) :
        /\ Cardinality(cuts) > 1 /\ Len(word) \in cuts
        /\ CutInto(hunspell, word, cuts, triples)

(* ExcludedAddNothing: an entry marked FORBIDDENWORD never makes a word    *)
(* accepted, by whatever stem, affix, compound, BREAK or sharp-s path; an  *)
(* entry marked KEEPCASE never does for a folded spelling.                 *)
(* (is_forbidden and is_keep_case, asked on every path)                    *)
ExcludedAddNothing ==
  LET Excluding(option) ==
        [hunspell EXCEPT !.lexemes = {l \in @ : ~Carries(l.flags, option)}]
  IN Answered =>
       \A k \in BOOLEAN :
         \A excluded \in {hunspell.forbidden} \cup (IF k THEN {} ELSE {hunspell.keepCase}) :
           ContainsNormalized(hunspell, word, k) =>
             ContainsNormalized(Excluding(excluded), word, k)

(* RelatedAreWords: what the dictionary offers the suggester as a form of  *)
(* a stem it recognises itself.  (visit_related_suggestion_forms)          *)
RelatedAreWords ==
  Answered => \A form \in RelatedForms(hunspell, word) :
                ContainsNormalized(hunspell, form, TRUE)

(* A chain of rules, applied to the stem one after the other.              *)
Replays(stem, chain, w) ==
  LET RuleOf(id) == {r \in hunspell.rules : r.id = id}
      made[n \in 0..Len(chain)] ==
        IF n = 0 THEN {stem}
        ELSE UNION {Apply(r, form, hunspell.fullStrip) :
                      r \in RuleOf(chain[n]), form \in made[n - 1]}
  IN w \in made[Len(chain)]

Honest(e) ==
  LET b == e.because
  IN CASE b.kind = "stem" -> b.stem = e.of
       [] b.kind = "affixed" ->
            LexemesFor(hunspell, b.stem) # {} /\ Replays(b.stem, b.trace, e.of)
       [] b.kind = "compound" ->
            FlattenSeq(b.trace) = e.of
            /\ \A i \in DOMAIN b.trace : LexemesFor(hunspell, b.trace[i]) # {}
       [] OTHER -> TRUE

(* Two kinds of explanation are given to words that are rejected: a folded *)
(* spelling among the capitals of a sharp s, and a COMPOUNDRULE compound of*)
(* more words than COMPOUNDWORDMAX allows.                                 *)
ExplainsTooMuch(e) ==
  \/ e.because = Because("compatibility", <<>>, <<"sharps">>)
     /\ e.of # NormalizeInput(hunspell, word)
  \/ e.because.kind = "compound" /\ ~CountAllowed(hunspell, e.of, Len(e.because.trace))

(* ExplanationAgrees: the second search finds an explanation for what the  *)
(* first accepts and, but for the two kinds above, for nothing else; and   *)
(* the entry, the rules and the parts it names make up the word.           *)
(* (HunspellDictionary::explain, contains)                                 *)
Agree(accepted, explained) ==
  /\ accepted => explained # {}
  /\ \A e \in explained : Honest(e) /\ (accepted \/ ExplainsTooMuch(e))

ExplanationAgrees ==
  Answered => Agree(ContainsWord(hunspell, word), Explanations(hunspell, word))

(* SearchEnds: every search is answered, whatever rules the dictionary has:*)
(* not even rules that add nothing keep it going.                          *)
SearchEnds == (stage = "reverse") ~> (stage = "answered")
=============================================================================
