----------------------------- MODULE MCAnalyzer -----------------------------
(* Instances of Analyzer: every text of up to four characters on a line of *)
(* its own, and documents of up to four lines with directives.             *)
EXTENDS Analyzer

CONSTANTS
  A, a,       \* letters
  han,        \* a letter without case
  acute, aacute,
  one,
  viii, VIII, \* Roman numerals are numeric and have case
  quote, dash

MCChar == {A, a, han, acute, aacute, one, viii, VIII, quote, dash}
MCAlphabetic == {A, a, han, aacute, viii, VIII}
MCNumeric == {one, viii, VIII}
MCUpper == {A, VIII}
MCLower == {a, aacute, viii}
MCMark == {acute}
MCApostrophe == {quote}
MCComposed == <<a, acute>> :> aacute

UpTo(S, n) == UNION {[1..k -> S] : k \in 0..n}

Code(tokens) == [name |-> None, arguments |-> {}, tokens |-> tokens]
Plain(text) == [text |-> text, shape |-> "plain"]
Hash(text) == [text |-> text, shape |-> "hash"]

AnyToken ==
  {[lines |-> <<Code(<<Plain(text)>>)>>, syntax |-> TRUE] :
     text \in UpTo(MCChar, 4) \ {<<>>}}

IgnoreLine ==
  [name |-> "ignore", arguments |-> {<<a, a>>}, tokens |-> <<Plain(<<a, a>>)>>]
Lines ==
  {Code(<<Plain(<<a, a>>), Plain(<<A, a, A, a>>)>>), IgnoreLine,
   Code(<<Hash(<<a, a, one>>), [text |-> <<a, a>>, shape |-> "machine"]>>)}
  \cup [name: {"disable", "enable", "ignore", "other"}, arguments: {{}},
        tokens: {<<Plain(<<a>>)>>}]
  \cup [name: {"disable"}, arguments: {{<<a>>}}, tokens: {<<Plain(<<a, a, a>>)>>}]

AnyLines ==
  {[lines |-> lines, syntax |-> syntax] : lines \in UpTo(Lines, 3), syntax \in BOOLEAN}

MCDocument == AnyToken \cup AnyLines

Default == [join |-> TRUE, classes |-> {"machine", "hash", "number"}, words |-> {},
            patterns |-> {}, minimum |-> 2]
MCPolicies ==
  {Default, [Default EXCEPT !.join = FALSE, !.minimum = 0, !.words = {<<A, a>>},
                            !.patterns = {<<a, a>>}]}

MCDictionary == {{<<aacute, a>>}, {<<a, a, one>>, <<A>>}}
=============================================================================
