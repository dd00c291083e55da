------------------------------ MODULE MCSearch ------------------------------
(* Instances of CandidateSearch: words over a, b and the capital I with a  *)
(* dot, which is two scalars in lower case.                                *)
EXTENDS CandidateSearch, TLC

CA == 65
CB == 66
CI == 73
la == 97
lb == 98
li == 105
Idot == 304
dot == 775

MCLetter == {CA, CB, CI, la, lb, li, Idot, dot}
MCUpperLetter == {CA, CB, CI, Idot}
MCLowerLetter == {la, lb, li}

Same == [c \in MCLetter |-> <<c>>]
MCLowercase ==
  (CA :> <<la>>) @@ (CB :> <<lb>>) @@ (CI :> <<li>>) @@ (Idot :> <<li, dot>>) @@ Same
MCUppercase == (la :> <<CA>>) @@ (lb :> <<CB>>) @@ (li :> <<CI>>) @@ Same

Layer(kind, words) ==
  [kind |-> kind, words |-> words, hidden |-> {}, silent |-> {}, derived |-> {},
   frequency |-> <<>>]

(* Repeated letters, letters in another order, a word in two cases, and     *)
(* one that is longer in lower case.                                       *)
Simple == Layer("words", {<<la, la>>, <<lb, la>>, <<la, lb, lb>>, <<Idot, la>>})
Frequent ==
  [Layer("words", {<<la>>, <<lb, la>>, <<lb, CA>>})
     EXCEPT !.frequency = (<<lb, CA>> :> 2) @@ (<<lb, la>> :> 1)]
Stems ==
  [Layer("hunspell", {<<la, lb>>, <<la>>, <<lb, lb>>, <<CA, lb>>})
     EXCEPT !.hidden = {<<la>>}, !.silent = {<<lb, lb>>}, !.derived = {<<la, lb, la>>}]
User == Layer("overlay", {})
Checked == Layer("lookup", {<<lb>>, <<CB>>})

Composition(kind, layers) == [kind |-> kind, layers |-> layers]

WithUser == Composition("checker", <<Simple, User>>)
MCCompositions ==
  {WithUser, Composition("checker", <<Checked, Stems>>),
   Composition("analysis", <<Stems, Frequent>>)}
Overlaid == {Composition("checker", <<Stems, User>>)}

Asked(word, distance, scalars, results) ==
  [word |-> word, distance |-> distance, scalars |-> scalars, results |-> results]

CONSTANTS c1, c2

(* One caller asks anything, the other only has the index built.           *)
AnyQuery ==
  {Asked(word, distance, scalars, results) :
     word \in {<<>>, <<CB, lb>>, <<la, lb>>, <<CB, CB>>, <<Idot>>, <<la, la, lb>>},
     distance \in 1..2, scalars \in 2..3, results \in 1..2}

MCQueries ==
  (c1 :> AnyQuery) @@ (c2 :> {Asked(<<lb>>, 0, scalars, 1) : scalars \in 1..2})

Rule(from, to, atStart, atEnd) ==
  [from |-> from, to |-> to, atStart |-> atStart, atEnd |-> atEnd]

Keyboard == [rules |-> {}, keyboard |-> {<<la, lb>>}, maps |-> {}]
MCTables ==
  {Keyboard,
   [rules |-> {Rule(<<lb>>, <<la>>, TRUE, FALSE), Rule(<<la, lb>>, <<lb, la>>, FALSE, TRUE)},
    keyboard |-> {}, maps |-> {{la, lb}}]}

MCOverlay == {<<la, lb>>}
MCInserted == {<<la, lb>>, <<CB, lb>>}
=============================================================================
