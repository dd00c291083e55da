-------------------------- MODULE CandidateSearch --------------------------
(***************************************************************************)
(* Callers ask one composition of dictionaries for suggestions: Checker,   *)
(* UserDictionary and the candidate sources of crates/ferrolex-core, and   *)
(* what Suggester::suggest_into makes of the candidates they name.         *)
(*                                                                         *)
(* The layers share what is behind a reference: an index that the first    *)
(* request builds, and the words of an overlay that any thread changes.    *)
(* A step is one visit of a layer, one candidate or the ranking.           *)
(* SuggestBudget has the limits, which are not met here, and Hunspell the  *)
(* forms derived from related seeds, which are left out.                   *)
(***************************************************************************)
EXTENDS CandidateIndex

CONSTANTS
  Caller,
  Compositions,  \* [kind: {"checker", "analysis"}, layers: sequences of layers]
  Queries,       \* Queries[c]: [word, distance, scalars, results] a caller may ask
  Tables,        \* [rules, keyboard, maps]: REP, KEY and MAP
  Overlay,       \* words of the overlay at the start
  Inserted,      \* words that are added to it or removed
  UpperLetter, LowerLetter,  \* char::is_uppercase, char::is_lowercase
  MaxChanges,    \* bound: changes of the overlay
  NotYet         \* no index, no query, no frequency

ASSUME SearchAssumption ==
  /\ UpperLetter \cap LowerLetter = {}
  /\ MaxChanges \in Nat

(* Dictionaries hold finitely many words, and frequencies are numbers.     *)
IsWords(words) == words \subseteq Seq(Letter) /\ IsFiniteSet(words)

IsLayer(layer) ==
  /\ IsWords(layer.words)
  /\ \A word \in DOMAIN layer.frequency : layer.frequency[word] \in Nat

ASSUME SearchTypes ==
  /\ \A comp \in Compositions :
       /\ comp.layers \in Seq(ToSet(comp.layers))
       /\ \A l \in DOMAIN comp.layers : IsLayer(comp.layers[l])
  /\ Queries \in [Caller -> SUBSET [word: Seq(Letter), distance: Nat,
                                     scalars: Nat, results: Nat]]
  /\ IsWords(Overlay) /\ Inserted \subseteq Seq(Letter)

VARIABLES
  composition,
  tables,
  index,      \* index[l]: the limit the index of layer l was built with
  overlay,    \* UserDictionary::words
  changes,    \* changes of the overlay so far
  call,       \* call[c]: the request of a caller
  seen        \* history: words the overlay had at every, and at some time of it

shared == <<composition, tables>>
callVars == <<composition, tables, index, overlay, changes, call, seen>>

-----------------------------------------------------------------------------
(* Words in byte order                                                     *)

WordBefore(u, v) ==
  \/ IsStrictPrefix(u, v)
  \/ \E i \in DOMAIN u \cap DOMAIN v :
       SubSeq(u, 1, i - 1) = SubSeq(v, 1, i - 1) /\ u[i] < v[i]

(* from_entries: a word list is sorted and has no word twice.              *)
Sorted(words) == Arranged(words, WordBefore)

-----------------------------------------------------------------------------
(* Layers: [kind, words, hidden, silent, derived, frequency]               *)

Layers == composition.layers

(* A word list or a compiled dictionary, Hunspell, the overlay, or a        *)
(* dictionary of the caller that only checks.  Hunspell recognises its      *)
(* stems without the hidden ones (FORBIDDENWORD, NEEDAFFIX) and words it    *)
(* derives; silent stems are NOSUGGEST.                                    *)
Enumerated(layer) == layer.kind # "lookup"

Stored(layer) == IF layer.kind = "overlay" THEN overlay ELSE layer.words

(* Dictionary::contains *)
Recognises(layer, word) ==
  IF layer.kind = "hunspell" THEN word \in (layer.words \ layer.hidden) \cup layer.derived
  ELSE word \in Stored(layer)

(* is_suggestion_candidate of a constituent: a source without a policy      *)
(* admits whatever it is asked for.                                        *)
AdmittedBy(layer, word) ==
  layer.kind = "hunspell" => Recognises(layer, word) /\ word \notin layer.silent

StoredBy(layer, word) ==
  IF layer.kind = "hunspell" THEN word \in layer.words /\ AdmittedBy(layer, word)
  ELSE Recognises(layer, word)

(* Mutant: the layers of an analysis are asked like those of a checker. *)
AdmittedAny(word) ==
  \E l \in DOMAIN Layers : Enumerated(Layers[l]) /\ AdmittedBy(Layers[l], word)

(* Checker, and CombinedCandidateSource of the Node binding, ask every      *)
(* source of candidates, the AnalysisDictionary of the command line only    *)
(* those that contain the word.                                            *)
Admitted(word) ==
  \E l \in DOMAIN Layers :
    /\ Enumerated(Layers[l])
    /\ AdmittedBy(Layers[l], word)
    /\ composition.kind = "analysis" => Recognises(Layers[l], word)

(* contains_candidate *)
ContainsCandidate(word) ==
  \E l \in DOMAIN Layers :
    IF composition.kind = "analysis" THEN Recognises(Layers[l], word)
    ELSE Enumerated(Layers[l]) /\ StoredBy(Layers[l], word)

(* candidate_frequency: of the first layer that has one.                   *)
Frequency(word) ==
  LET having == {l \in DOMAIN Layers : word \in DOMAIN Layers[l].frequency}
  IN  IF having = {} THEN NotYet ELSE Layers[Min(having)].frequency[word]

-----------------------------------------------------------------------------
(* consider_candidate                                                      *)

(* replacement_distance: one rule applied at one place.                    *)
Replaces(rule, query, word) ==
  LET from == Lowered(rule.from)
      to == Lowered(rule.to)
  IN  /\ Len(from) <= Len(query) /\ Len(to) <= Len(word)
      /\ \E start \in 0..Len(query) - Len(from) :
           /\ rule.atStart => start = 0
           /\ rule.atEnd => start + Len(from) = Len(query)
           /\ SubSeq(query, start + 1, start + Len(from)) = from
           /\ word = SubSeq(query, 1, start) \o to
                       \o SubSeq(query, start + Len(from) + 1, Len(query))

Replaced(query, word) == \E rule \in tables.rules : Replaces(rule, query, word)

(* ranking_distance: one substitution of neighbours on the keyboard or of   *)
(* letters of one map is as good as none.                                  *)
Adjacent(x, y) ==
  \E row \in tables.keyboard : \E i \in 1..Len(row) - 1 : {row[i], row[i + 1]} = {x, y}

Ranking(query, word, distance) ==
  LET changed == {i \in DOMAIN query : query[i] # word[i]} IN
  IF /\ distance = 1 /\ Len(query) = Len(word)
     /\ Cardinality(changed) = 1
     /\ \A i \in changed : \/ Adjacent(query[i], word[i])
                           \/ \E group \in tables.maps : {query[i], word[i]} \subseteq group
  THEN 0 ELSE distance

AllUpper(word) == word # <<>> /\ ToSet(word) \subseteq UpperLetter

(* is_title_case_query *)
TitleCase(word) ==
  word # <<>> /\ Head(word) \in UpperLetter /\ ToSet(Tail(word)) \subseteq LowerLetter

(* present: the candidate in the case of the query.                        *)
Presented(word, query) ==
  IF AllUpper(query) THEN FlattenSeq([i \in DOMAIN word |-> Uppercase[word[i]]])
  ELSE IF TitleCase(query) /\ word # <<>>
  THEN Uppercase[Head(word)] \o Lowered(Tail(word))
  ELSE word

(* A title-case word that is not stored so is shown as it is stored.       *)
Shown(word, query) ==
  LET displayed == Presented(word, query) IN
  IF TitleCase(query) /\ displayed # word /\ ~ContainsCandidate(displayed)
  THEN word ELSE displayed

(* The suggestion a candidate leads to, if any.                            *)
SuggestionsFor(word, q) ==
  LET query == Lowered(q.word)
      lowered == Lowered(word)
      distance == IF Replaced(query, lowered) THEN 0 ELSE Distance(query, lowered)
  IN  IF \/ ~WithinLimit(word, q.scalars)
         \/ distance > q.distance
         \/ ~Admitted(word)
         \/ TitleCase(q.word) /\ Shown(word, q.word) = q.word
      THEN {}
      ELSE {[word |-> Shown(word, q.word), distance |-> distance,
             ranking |-> Ranking(query, lowered, distance),
             frequency |-> Frequency(word)]}

(* compare_suggestions: a frequency precedes none.                         *)
MoreFrequent(f, g) == f # NotYet /\ (g = NotYet \/ f > g)

RanksBefore(s, t) ==
  \/ s.ranking < t.ranking
  \/ s.ranking = t.ranking /\ s.distance < t.distance
  \/ <<s.ranking, s.distance>> = <<t.ranking, t.distance>> /\
       \/ MoreFrequent(s.frequency, t.frequency)
       \/ s.frequency = t.frequency /\ WordBefore(s.word, t.word)

(* The first suggestion of every word. *)
Unrepeated(found) ==
  {s \in found : \A t \in found : t.word = s.word => ~RanksBefore(t, s)}

Truncated(suggestions, results) ==
  SubSeq(suggestions, 1, Min({results, Len(suggestions)}))

Ranked(found, results) ==
  Truncated(Arranged(Unrepeated(found), RanksBefore), results)

-----------------------------------------------------------------------------
(* A request                                                               *)

Idle == [phase |-> "idle", query |-> NotYet, layer |-> 0, nearby |-> <<>>,
         found |-> {}, result |-> <<>>]

CallInit ==
  /\ composition \in Compositions
  /\ tables \in Tables
  /\ index = [l \in DOMAIN composition.layers |-> NotYet]
  /\ overlay = Overlay
  /\ changes = 0
  /\ call = [c \in Caller |-> Idle]
  /\ seen = [c \in Caller |-> [always |-> {}, ever |-> {}]]

(* suggest_into: a query that is too long gets no suggestion.              *)
Request(c, q) ==
  /\ call[c].phase = "idle"
  /\ call' = [call EXCEPT ![c] =
       [Idle EXCEPT !.query = q,
                    !.phase = IF WithinLimit(q.word, q.scalars) THEN "visit" ELSE "done"]]
  /\ seen' = [seen EXCEPT ![c] = [always |-> overlay, ever |-> overlay]]
  /\ UNCHANGED <<shared, index, overlay, changes>>

(* visit_nearby_candidates of the next layer.  The index of a layer is      *)
(* built once, behind a OnceLock that makes other callers wait; an overlay  *)
(* has none and gives a snapshot of all its words.                         *)
VisitLayer(c) ==
  LET q == call[c].query
      l == call[c].layer + 1
  IN
  /\ call[c].phase = "visit"
  /\ l \in DOMAIN Layers
  /\ LET built == IF index[l] = NotYet THEN q.scalars ELSE index[l]
         words == Sorted(Stored(Layers[l]))
         indexed == Layers[l].kind \in {"words", "hunspell"}
     IN  /\ index' = IF indexed THEN [index EXCEPT ![l] = built] ELSE index
         /\ call' = [call EXCEPT
              ![c].layer = l,
              ![c].nearby = @ \o
                 (IF indexed
                  THEN VisitNearby(NewIndex(words, built), Lowered(q.word),
                                   q.distance, q.scalars)
                  ELSE IF Enumerated(Layers[l]) THEN words ELSE <<>>)]
  /\ UNCHANGED <<shared, overlay, changes, seen>>

(* Candidates are compared after all were collected.                       *)
Consider(c) ==
  /\ call[c].phase = "visit"
  /\ call[c].layer = Len(Layers)
  /\ call[c].nearby # <<>>
  /\ call' = [call EXCEPT
       ![c].found = @ \cup SuggestionsFor(Head(call[c].nearby), call[c].query),
       ![c].nearby = Tail(@)]
  /\ UNCHANGED <<shared, index, overlay, changes, seen>>

(* rank_suggestions, the removal of words that repeat, and truncate.       *)
Rank(c) ==
  /\ call[c].phase = "visit"
  /\ call[c].layer = Len(Layers)
  /\ call[c].nearby = <<>>
  /\ call' = [call EXCEPT ![c].phase = "done",
                          ![c].result = Ranked(call[c].found, call[c].query.results)]
  /\ UNCHANGED <<shared, index, overlay, changes, seen>>

(* UserDictionary::insert and remove, by any thread.                       *)
Change(words) ==
  /\ changes < MaxChanges
  /\ changes' = changes + 1
  /\ overlay' = words
  /\ seen' = [c \in Caller |-> [always |-> seen[c].always \cap words,
                                ever |-> seen[c].ever \cup words]]
  /\ UNCHANGED <<shared, index, call>>

InsertWord(word) == word \notin overlay /\ Change(overlay \cup {word})
RemoveWord(word) == word \in overlay /\ Change(overlay \ {word})

CallNext ==
  \/ \E c \in Caller : \/ \E q \in Queries[c] : Request(c, q)
                       \/ VisitLayer(c) \/ Consider(c) \/ Rank(c)
  \/ \E word \in Inserted : InsertWord(word) \/ RemoveWord(word)

CallSpec == CallInit /\ [][CallNext]_callVars

-----------------------------------------------------------------------------
(* Properties                                                              *)

Answered(c) == call[c].phase = "done" /\ WithinLimit(call[c].query.word, call[c].query.scalars)

(* Words a layer stored during the whole request, and those it stored or    *)
(* derived at some time of it.                                             *)
Dependable(c, layer) == IF layer.kind = "overlay" THEN seen[c].always ELSE layer.words
Occurring(c, layer) ==
  IF layer.kind = "overlay" THEN seen[c].ever ELSE layer.words \cup layer.derived

Near(word, q) ==
  WithinLimit(word, q.scalars) /\ Distance(Lowered(q.word), Lowered(word)) <= q.distance

(* Shown as stored or in the case of the query; a title-case query is not   *)
(* answered with itself.                                                   *)
ShownIn(result, word, q) ==
  LET forms == {word, Presented(word, q.word)} IN
  \/ \E i \in DOMAIN result : result[i].word \in forms
  \/ TitleCase(q.word) /\ q.word \in forms

(* A word that a layer stores and offers, and that is near enough, is shown *)
(* unless the result is full of suggestions that are at least as near:      *)
(* whichever limit the index was built with, whoever changes the overlay,   *)
(* and whichever words are shown alike.                                    *)
NothingLost ==
  \A c \in Caller : Answered(c) =>
    LET q == call[c].query
        result == call[c].result
    IN  \A l \in {k \in DOMAIN Layers : Enumerated(Layers[k])} :
        \A word \in Dependable(c, Layers[l]) :
          Near(word, q) /\ AdmittedBy(Layers[l], word) =>
            \/ ShownIn(result, word, q)
            \/ /\ Len(result) = q.results
               /\ \A i \in DOMAIN result :
                    result[i].ranking <= Distance(Lowered(q.word), Lowered(word))

(* Where every constituent is asked of every word (kind "checker"), one     *)
(* without a policy admits what Hunspell hides: PolicyKept needs layers that *)
(* have a policy all, or none of them.                                     *)
PoliciesAlike ==
  \A comp \in Compositions :
    LET enumerated == {l \in DOMAIN comp.layers : Enumerated(comp.layers[l])} IN
    \/ comp.kind = "analysis"
    \/ \A k, l \in enumerated :
         comp.layers[k].kind = "hunspell" => comp.layers[l].kind = "hunspell"

(* Nothing is suggested but what a layer stores or derives, and offers: no  *)
(* stem that only exists with affixes, is forbidden or must not be          *)
(* suggested.                                                              *)
PolicyKept ==
  \A c \in Caller : Answered(c) =>
    \A i \in DOMAIN call[c].result :
      \E l \in DOMAIN Layers : \E word \in Occurring(c, Layers[l]) :
        /\ Enumerated(Layers[l]) /\ AdmittedBy(Layers[l], word)
        /\ call[c].result[i].word \in {word, Presented(word, call[c].query.word)}
=============================================================================
