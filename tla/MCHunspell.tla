----------------------------- MODULE MCHunspell -----------------------------
(* Small dictionaries for Hunspell: each case is a pair of sources and the *)
(* spellings asked of it.  Texts are strings here and sequences of         *)
(* characters in the specification.                                        *)
EXTENDS Hunspell

(* The names of encodings and flag modes are never taken apart.            *)
Chars(text) == IF text \in {"UTF-8", "long", "num"} THEN << text >>
               ELSE [i \in 1..Len(text) |-> SubSeq(text, i, i)]
Line(fields) == [name |-> Head(fields), long |-> FALSE,
                 args |-> [i \in 1..Len(fields) - 1 |-> Chars(fields[i + 1])]]
EntryLine(fields) == [args |-> [i \in DOMAIN fields |-> Chars(fields[i])], long |-> FALSE]
Lines(texts) == [i \in DOMAIN texts |-> Line(texts[i])]
EntryLines(texts) == [i \in DOMAIN texts |-> EntryLine(texts[i])]

Letters == {"a", "b", "c", "s", "i", "A", "B", "C", "S", "I", "dotless", "dotted", "sharp", "-"}
Pairs == [a |-> "A", b |-> "B", c |-> "C", s |-> "S"]
Cased(small, capital) ==
  [lower |-> [l \in Letters |->
                IF \E x \in DOMAIN small : small[x] = l
                THEN <<CHOOSE x \in DOMAIN small : small[x] = l>>
                ELSE <<l>>],
   upper |-> [l \in Letters |-> IF l = "sharp" THEN <<"S", "S">>
                                ELSE IF l \in DOMAIN capital THEN <<capital[l]>> ELSE <<l>>]]
MCCasing ==
  LET plain == Pairs @@ [i |-> "I"]
      turkic == Pairs @@ [i |-> "dotted", dotless |-> "I"]
  IN [default |-> Cased(plain, plain @@ [dotless |-> "I"]), turkic |-> Cased(turkic, turkic)]
(* A number of two digits is a character here.                             *)
MCDigitValue == [d \in {ToString(n) : n \in 0..97} |->
                   CHOOSE n \in 0..97 : ToString(n) = d]
MCTurkic == {Chars("tr")}
MCEncodingOf == (<<"U">> :> "utf-8") @@ (<<"L">> :> "latin")

Source(aff, dic) ==
  [aff |-> Lines(aff), dic |-> EntryLines(dic), configured |-> {},
   decodes |-> [aff |-> {"utf-8"}, dic |-> {"utf-8"}], tooBig |-> {}, strict |-> TRUE]

WordsOver(letters, n) == UNION {[1..k -> letters] : k \in 1..n}
Texts(texts) == {Chars(t) : t \in texts}
OneWord == Texts({"ab"})
Case(aff, dic, asked) == [source |-> Source(aff, dic), words |-> asked]

Short == WordsOver({"a", "b", "c"}, 4)
AB == WordsOver({"a", "b"}, 6)

----------------------------- (* affixes *) ---------------------------------

Twofold == << <<"FORBIDDENWORD", "!">>, <<"NEEDAFFIX", "n">>, <<"NOSUGGEST", "q">>,
  <<"SFX", "S", "Y", "2">>, <<"SFX", "S", "0", "b/T", "a">>,
  <<"SFX", "S", "a", "c", "[^b]a">>,
  <<"SFX", "T", "Y", "1">>, <<"SFX", "T", "0", "c", ".">>,
  <<"PFX", "P", "Y", "1">>, <<"PFX", "P", "0", "b", "a">> >>

AffixCases ==
  { Case(Twofold, << <<"4">>, <<"a/SP">>, <<"ca/S">>, <<"ac/P!">>, <<"aa/nS">>, <<"a/q">> >>,
         Short \cup Texts({"babc", "bacb", "aabc", "abcb"})),
    (* both halves of a circumfix or neither; no further than one prefix *)
    Case(<< <<"CIRCUMFIX", "x">>, <<"ONLYINCOMPOUND", "o">>,
            <<"SFX", "S", "Y", "1">>, <<"SFX", "S", "0", "c/x", ".">>,
            <<"SFX", "N", "N", "1">>, <<"SFX", "N", "0", "b", "(?<!b)a">>,
            <<"PFX", "P", "Y", "1">>, <<"PFX", "P", "0", "b/xP", ".">> >>,
         << <<"a/SP">>, <<"ca/NP">>, <<"ba/No">> >>, Short \cup Texts({"bcab", "cab"})),
    Case(<< <<"COMPLEXPREFIXES">>, <<"FULLSTRIP">>,
            <<"PFX", "P", "Y", "1">>, <<"PFX", "P", "0", "b/Q", ".">>,
            <<"PFX", "Q", "Y", "1">>, <<"PFX", "Q", "0", "c", ".">>,
            <<"SFX", "S", "Y", "1">>, <<"SFX", "S", "a", "c", "(^a)">>,
            <<"SFX", "N", "N", "1">>, <<"SFX", "N", "0", "0", "(^|[^c])a">> >>,
         << <<"a/PS">>, <<"ca/N">>, <<"bba/N">> >>, Short \cup Texts({"cba", "cbac"})),
    (* two suffixes behind two prefixes; more derivations than the budget *)
    Case(<< <<"COMPLEXPREFIXES">>,
            <<"SFX", "S", "Y", "2">>, <<"SFX", "S", "0", "b/T", ".">>, <<"SFX", "S", "0", "c", ".">>,
            <<"SFX", "T", "Y", "1">>, <<"SFX", "T", "0", "a/S", ".">>,
            <<"PFX", "P", "Y", "1">>, <<"PFX", "P", "0", "b/Q", ".">>,
            <<"PFX", "Q", "Y", "1">>, <<"PFX", "Q", "0", "a", ".">> >>,
         << <<"b/PS">> >>, Texts({"abbba", "bba", "bbac", "abbbac", "cba"})),
    Case(<< <<"COMPLEXPREFIXES">>,
            <<"SFX", "S", "Y", "2">>, <<"SFX", "S", "0", "b/T", ".">>, <<"SFX", "S", "0", "c", ".">>,
            <<"SFX", "T", "Y", "1">>, <<"SFX", "T", "0", "a", ".">>,
            <<"PFX", "P", "Y", "2">>, <<"PFX", "P", "0", "b/Q", ".">>, <<"PFX", "P", "0", "c", ".">>,
            <<"PFX", "Q", "Y", "1">>, <<"PFX", "Q", "0", "a", ".">> >>,
         << <<"b/PS">>, <<"ab/S">> >>, Texts({"bb", "bba", "abbba", "bbba", "cbc", "ab", "abbc"})),
    (* more entries than the budget of the way back *)
    Case(<< <<"SFX", "S", "Y", "1">>, <<"SFX", "S", "0", "b", ".">> >>,
         << <<"a/S">>, <<"a/P">>, <<"a/Q">>, <<"a/R">>, <<"a">>, <<"c/S">> >>,
         Texts({"ab", "cb", "b"})),
    Case(<< <<"FLAG", "num">>, <<"AF", "2">>, <<"AF", "1,2">>, <<"AF">>, <<"KEEPCASE", "2">>,
            <<"SFX", "1", "Y", "1">>, <<"SFX", "1", "0", "b/1", ".">> >>,
         << <<"a/1">>, <<"b/2">>, <<"c/2">> >>, Short) }

---------------------------- (* compounds *) --------------------------------

CompoundCases ==
  { Case(<< <<"COMPOUNDFLAG", "C">>, <<"COMPOUNDMIN", "1">>, <<"COMPOUNDWORDMAX", "3">>,
            <<"CHECKCOMPOUNDDUP">>, <<"COMPOUNDFORBIDFLAG", "f">>, <<"FORBIDDENWORD", "!">> >>,
         << <<"a/C">>, <<"ab/C">>, <<"bb/Cf">>, <<"b/C!">> >>, AB),
    Case(<< <<"COMPOUNDRULE", "2">>, <<"COMPOUNDRULE", "AB*">>, <<"COMPOUNDRULE", "BBA?">>,
            <<"COMPOUNDMIN", "1">>, <<"COMPOUNDWORDMAX", "2">> >>,
         << <<"a/A">>, <<"b/B">>, <<"ba/B">> >>, AB),
    Case(<< <<"COMPOUNDFLAG", "C">>, <<"COMPOUNDRULE", "1">>, <<"COMPOUNDRULE", "ABB">>,
            <<"COMPOUNDMIN", "1">>, <<"COMPOUNDWORDMAX", "3">>, <<"BREAK", "1">>, <<"BREAK", "b">> >>,
         << <<"a/A">>, <<"b/BC">>, <<"ab/C">> >>, AB),
    Case(<< <<"COMPOUNDBEGIN", "A">>, <<"COMPOUNDMIDDLE", "M">>, <<"COMPOUNDEND", "E">>,
            <<"COMPOUNDMIN", "1">>, <<"COMPOUNDWORDMAX", "2">>, <<"COMPOUNDSYLLABLE", "2", "a">>,
            <<"COMPOUNDPERMITFLAG", "p">>, <<"COMPOUNDFORBIDFLAG", "f">>,
            <<"SFX", "S", "Y", "1">>, <<"SFX", "S", "0", "b/p", "a">>,
            <<"PFX", "P", "Y", "1">>, <<"PFX", "P", "0", "b", "a">> >>,
         << <<"a/AS">>, <<"b/M">>, <<"aa/EP">>, <<"bb/MfE">> >>, AB),
    Case(<< <<"COMPOUNDFLAG", "C">>, <<"COMPOUNDMIN", "2">>, <<"CHECKCOMPOUNDTRIPLE">>,
            <<"SIMPLIFIEDTRIPLE">>, <<"CHECKCOMPOUNDREP">>, <<"REP", "1">>, <<"REP", "ab$", "a">> >>,
         << <<"aab/C">>, <<"bb/C">>, <<"ba/C">>, <<"bba">> >>,
         AB \cup Texts({"aabbb", "aabbbb", "bbbba"})),
    Case(<< <<"COMPOUNDFLAG", "C">>, <<"COMPOUNDMIN", "1">>, <<"CHECKCOMPOUNDPATTERN", "2">>,
            <<"CHECKCOMPOUNDPATTERN", "a", "b/B">>, <<"CHECKCOMPOUNDPATTERN", "b", "b", "a">> >>,
         << <<"a/C">>, <<"b/C">>, <<"bb/CB">>, <<"ab/C">> >>, AB),
    Case(<< <<"COMPOUNDFLAG", "C">>, <<"COMPOUNDMIN", "1">>, <<"CHECKCOMPOUNDCASE">>,
            <<"FORCEUCASE", "u">>, <<"KEEPCASE", "k">> >>,
         << <<"a/C">>, <<"b/Cu">>, <<"A/Ck">>, <<"Ba/C">> >>, WordsOver({"a", "b", "A", "B"}, 3)) }

------------------------ (* spellings and conversions *) --------------------

(* An entry with a sharp s, which keeps its case.                          *)
SharpCase ==
  LET stem == <<"a", "sharp">>
      sharpEntry == [args |-> << stem \o Chars("/k") >>, long |-> FALSE]
  IN [source |-> [Source(<< <<"KEEPCASE", "k">>, <<"CHECKSHARPS">> >>, <<>>)
                    EXCEPT !.dic = << sharpEntry >> \o EntryLines(<< <<"b">> >>)],
      words |-> {stem, <<"A", "sharp">>} \cup Texts({"ASS", "Ass", "ass", "b", "B"})]

SpellingCases ==
  { Case(<< <<"KEEPCASE", "k">>, <<"CHECKSHARPS">>, <<"FORBIDDENWORD", "!">>,
            <<"SFX", "S", "Y", "1">>, <<"SFX", "S", "0", "b", ".">> >>,
         << <<"a/kS">>, <<"ba">>, <<"Ab">>, <<"c!/!">>, <<"i/k">> >>,
         WordsOver({"a", "b", "A", "B"}, 3) \cup Texts({"I", "i"})),
    SharpCase,
    Case(<< <<"LANG", "tr">> >>, << <<"ia">>, <<"Ib">> >>,
         WordsOver({"i", "I", "a", "A"}, 2) \cup {<<"dotted", "a">>, <<"dotted", "A">>, <<"dotless", "b">>}),
    Case(<< <<"ICONV", "2">>, <<"ICONV", "_a", "b">>, <<"ICONV", "ab", "c">>, <<"IGNORE", "-">>,
            <<"OCONV", "1">>, <<"OCONV", "c_", "ab">>,
            <<"SFX", "S", "Y", "1">>, <<"SFX", "S", "0", "a-b", ".">> >>,
         << <<"b/S">>, <<"b-c">>, <<"c">>, <<"ab">> >>, WordsOver({"a", "b", "c", "-"}, 3)),
    Case(<< <<"BREAK", "3">>, <<"BREAK", "-">>, <<"BREAK", "^c">>, <<"BREAK", "bb$">>, <<"WORDCHARS", "-">>,
            <<"KEY", "ab">>, <<"MAP", "1">>, <<"MAP", "ab">> >>,
         << <<"a">>, <<"ab">>, <<"bb">> >>,
         WordsOver({"a", "b", "-"}, 3) \cup Texts({"cab", "abbb", "a-bb", "-ab-"})) }

-------------------------- (* caches and imports *) -------------------------

Breaks(n, from) == << <<"BREAK", ToString(n)>> >>
  \o [i \in 1..n |-> <<"BREAK", SubSeq("abcdefghijklmnop", from + i, from + i)>>]

(* An entry with so many numeric flags, and next to nothing behind it.     *)
NumberedEntry(n) ==
  LET numbers == [i \in 1..2 * n - 1 |-> IF i % 2 = 0 THEN "," ELSE ToString(9 + (i + 1) \div 2)]
  IN [Case(<< <<"FLAG", "num">>, <<"BREAK", "0">> >>, <<>>, OneWord)
        EXCEPT !.source.dic = << [args |-> << <<"a", "/">> \o numbers >>, long |-> FALSE] >>]

CacheCases ==
  { NumberedEntry(87), NumberedEntry(88),
    Case(Breaks(7, 0), << <<"a">> >>, OneWord), Case(Breaks(8, 0), << <<"a">> >>, OneWord),
    Case(Breaks(7, 0) \o Breaks(3, 7), << <<"a">> >>, OneWord),
    Case(<< <<"KEEPCASE", "k">>, <<"FLAG", "long">> >>, << <<"a/kk">> >>, OneWord),
    Case(<< <<"FLAG", "long">>, <<"COMPOUNDRULE", "1">>, <<"COMPOUNDRULE", "(aa)(bb)">> >>,
         << <<"a/aa">>, <<"b/bb">>, <<"c/aabb">> >>, OneWord) }

EncodingCases ==
  LET base == Source(<< <<"SET", "L">>, <<"KEEPCASE", "k">> >>, << <<"a/k">> >>)
      both(e) == {[aff |-> e, dic |-> e]}
  IN {[source |-> s, words |-> OneWord] : s \in
        { [base EXCEPT !.configured = c, !.decodes.aff = a, !.tooBig = t, !.strict = strict] :
            c \in {{}, both("utf-8"), both("latin")}, a \in {{"utf-8"}, {"latin"}},
            t \in {{}, {"dic"}}, strict \in BOOLEAN }}

(* Every pair of these lines, whatever it means.                           *)
Pool == { <<"SET", "X">>, <<"SET", "U">>, <<"COMPOUNDMIN", "x">>, <<"FLAG", "long">>, <<"FLAG", "UTF-8">>, <<"LANG", "tr">>,
  <<"KEEPCASE", "k">>, <<"KEEPCASE", "kk">>, <<"NEEDAFFIX">>, <<"COMPOUNDFLAG", "k">>,
  <<"FULLSTRIP">>, <<"CHECKCOMPOUNDDUP">>, <<"CHECKCOMPOUNDDUP", "k">>, <<"IGNORE", "ab">>,
  <<"KEY", "ab">>, <<"COMPOUNDMIN", "0">>, <<"COMPOUNDWORDMAX", "0">>, <<"COMPOUNDWORDMAX", "2">>,
  <<"COMPOUNDSYLLABLE", "1", "a">>, <<"AF", "1">>, <<"AF", "k">>, <<"AM", "1">>, <<"AM", "x", "y">>,
  <<"ICONV", "1">>, <<"ICONV", "a", "b">>, <<"OCONV", "1">>, <<"OCONV", "_", "b">>, <<"REP", "2">>,
  <<"REP", "a", "b">>, <<"MAP", "1">>, <<"MAP", "a">>, <<"MAP", "ab">>, <<"BREAK", "1">>, <<"BREAK", "^-$">>,
  <<"BREAK", "-">>, <<"CHECKCOMPOUNDPATTERN", "1">>, <<"CHECKCOMPOUNDPATTERN", "a", "b/k", "c">>,
  <<"COMPOUNDRULE", "1">>, <<"COMPOUNDRULE", "kl*">>, <<"COMPOUNDRULE", "(k)(l)">>,
  <<"PFX", "k", "Y", "1">>, <<"PFX", "k", "0", "b", "[^a">>, <<"SFX", "k", "N", "1">>,
  <<"SFX", "k", "a", "b/k", "(?<![ab])a">>, <<"SFX", "k", "0", "b">>, <<"SFX", "l", "0", "0">>,
  <<"TRY", "ab">>, <<"NOTHING">> }

Small == << <<"2">>, <<"#">>, <<"/note">>, <<"ab/k", "x">>, <<"b\\/c", "1">>, <<"c/">> >>

PairCases == {Case(<< p, q >>, << <<"ab/k">> >>, OneWord) : p \in Pool, q \in Pool}

LineCases ==
  LET long == [Line(<<"KEEPCASE", "k">>) EXCEPT !.long = TRUE]
      blank == [name |-> "", args |-> <<>>, long |-> FALSE]
      cut == [EntryLine(<<"a">>) EXCEPT !.long = TRUE]
  IN {[source |-> [Source(<<>>, <<>>) EXCEPT
                     !.aff = << blank, long >> \o Lines(tail), !.dic = dic, !.strict = FALSE],
       words |-> OneWord] :
        tail \in {<< >>, << <<"AM", "2">>, <<"AM", "x">> >>,
                  << <<"AF", "1">>, <<"AF", "kl">> >>,
                  << <<"FLAG", "long">>, <<"SFX", "ab", "Y", "1">>, <<"SFX", "ab", "0", "b/cde">> >>},
        dic \in {<< cut >> \o EntryLines(Small),
                 EntryLines([i \in 1..11 |-> <<"a">>]),
                 EntryLines(<< <<"1">>, <<"a/1", "1">>, <<"b/9", "9", "z", "y", "x">> >>) }}

MCCases == AffixCases \cup CompoundCases \cup SpellingCases \cup CacheCases
           \cup EncodingCases \cup PairCases \cup LineCases
=============================================================================
