-------------------------- MODULE LspServerProofs --------------------------
(***************************************************************************)
(* Theorems about LspServer for every workspace, every configuration and   *)
(* every number of messages, while both ends agree on where lines end.     *)
(*                                                                         *)
(* The messages in a channel are what the two ends disagree about: taking  *)
(* them in one after the other leads from what the reader has to what the  *)
(* writer had.  Path says so of a relation and a sequence of messages; the *)
(* invariants are a path of texts through toServer and a path of shown     *)
(* diagnostics through toClient.                                           *)
(***************************************************************************)
EXTENDS LspServer, FiniteSetTheorems, SequenceTheorems, TLAPS

(* Taking in the messages q leads from v to w, by steps <<before, message,  *)
(* after>> of relation, through elements of states.                        *)
Path(relation, states, v, q, w) ==
  \E p \in [0..Len(q) -> states] :
    /\ p[0] = v /\ p[Len(q)] = w
    /\ \A i \in 1..Len(q) : <<p[i - 1], q[i], p[i]>> \in relation

LEMMA PathNone ==
  ASSUME NEW relation, NEW states, NEW v \in states
  PROVE  Path(relation, states, v, <<>>, v)
<1> DEFINE p == [i \in 0..0 |-> v]
<1>1. /\ p \in [0..Len(<<>>) -> states]
      /\ p[0] = v /\ p[Len(<<>>)] = v
      /\ \A i \in 1..Len(<<>>) : <<p[i - 1], (<<>>)[i], p[i]>> \in relation
  OBVIOUS
<1> HIDE DEF p
<1> QED
  BY <1>1 DEF Path

LEMMA PathOne ==
  ASSUME NEW relation, NEW states, NEW v \in states, NEW w \in states, NEW msg,
         <<v, msg, w>> \in relation
  PROVE  Path(relation, states, v, <<msg>>, w)
<1> DEFINE p == [i \in 0..1 |-> IF i = 0 THEN v ELSE w]
<1>1. p \in [0..Len(<<msg>>) -> states] /\ p[0] = v /\ p[1] = w
  OBVIOUS
<1>2. \A i \in 1..Len(<<msg>>) : <<p[i - 1], <<msg>>[i], p[i]>> \in relation
  <2>1. \A i \in 1..Len(<<msg>>) : i = 1
    OBVIOUS
  <2> QED
    BY <1>1, <2>1
<1> QED
  BY <1>1, <1>2, Len(<<msg>>) = 1 DEF Path

LEMMA PathConcat ==
  ASSUME NEW relation, NEW states, NEW M, NEW a \in Seq(M), NEW b \in Seq(M),
         NEW v, NEW w, NEW x,
         Path(relation, states, v, a, w), Path(relation, states, w, b, x)
  PROVE  Path(relation, states, v, a \o b, x)
<1>1. PICK p \in [0..Len(a) -> states] :
        /\ p[0] = v /\ p[Len(a)] = w
        /\ \A i \in 1..Len(a) : <<p[i - 1], a[i], p[i]>> \in relation
  BY DEF Path
<1>2. PICK r \in [0..Len(b) -> states] :
        /\ r[0] = w /\ r[Len(b)] = x
        /\ \A i \in 1..Len(b) : <<r[i - 1], b[i], r[i]>> \in relation
  BY DEF Path
<1> DEFINE g == [i \in 0..(Len(a) + Len(b)) |->
                   IF i <= Len(a) THEN p[i] ELSE r[i - Len(a)]]
<1>3. Len(a \o b) = Len(a) + Len(b) /\ Len(a) \in Nat /\ Len(b) \in Nat
  OBVIOUS
<1>4. g \in [0..Len(a \o b) -> states]
  BY <1>3
<1>5. g[0] = v /\ g[Len(a \o b)] = x
  <2>1. g[0] = v
    BY <1>1, <1>3
  <2>2. CASE Len(b) = 0
    BY <1>1, <1>2, <1>3, <2>2
  <2>3. CASE Len(b) > 0
    <3>1. g[Len(a) + Len(b)] = r[(Len(a) + Len(b)) - Len(a)]
      BY <1>3, <2>3
    <3>2. (Len(a) + Len(b)) - Len(a) = Len(b)
      BY <1>3
    <3> HIDE DEF g
    <3> QED
      BY <2>1, <1>2, <1>3, <3>1, <3>2
  <2> HIDE DEF g
  <2> QED
    BY <1>3, <2>1, <2>2, <2>3
<1>6. ASSUME NEW i \in 1..Len(a \o b)
      PROVE  <<g[i - 1], (a \o b)[i], g[i]>> \in relation
  <2>1. CASE i <= Len(a)
    <3>1. (a \o b)[i] = a[i] /\ g[i - 1] = p[i - 1] /\ g[i] = p[i]
      BY <1>3, <2>1
    <3> QED
      BY <1>1, <1>3, <2>1, <3>1
  <2>2. CASE i > Len(a)
    <3>1. PICK j \in 1..Len(b) : i = Len(a) + j
      <4>1. i - Len(a) \in 1..Len(b) /\ i = Len(a) + (i - Len(a))
        BY <1>3, <2>2
      <4> QED
        BY <4>1
    <3>2. (a \o b)[i] = b[j]
      BY <1>3, <3>1
    <3>3. g[i] = r[j]
      BY <1>3, <3>1
    <3>4. g[i - 1] = r[j - 1]
      <4>1. CASE j = 1
        BY <1>1, <1>2, <1>3, <3>1, <4>1
      <4>2. CASE j > 1
        BY <1>3, <3>1, <4>2
      <4> QED
        BY <4>1, <4>2
    <3> QED
      BY <1>2, <3>2, <3>3, <3>4
  <2>3. i <= Len(a) \/ i > Len(a)
    BY <1>3
  <2> HIDE DEF g
  <2> QED
    BY <2>1, <2>2, <2>3
<1> HIDE DEF g
<1> QED
  BY <1>4, <1>5, <1>6 DEF Path

LEMMA PathTail ==
  ASSUME NEW relation, NEW states, NEW M, NEW q \in Seq(M), q # <<>>, NEW v, NEW w,
         Path(relation, states, v, q, w)
  PROVE  \E u \in states : /\ <<v, Head(q), u>> \in relation
                           /\ Path(relation, states, u, Tail(q), w)
<1>1. PICK p \in [0..Len(q) -> states] :
        /\ p[0] = v /\ p[Len(q)] = w
        /\ \A i \in 1..Len(q) : <<p[i - 1], q[i], p[i]>> \in relation
  BY DEF Path
<1>2. /\ Len(q) \in Nat /\ Len(q) >= 1 /\ Len(Tail(q)) = Len(q) - 1
      /\ Head(q) = q[1] /\ \A i \in 1..Len(Tail(q)) : Tail(q)[i] = q[i + 1]
  OBVIOUS
<1> DEFINE r == [i \in 0..Len(Tail(q)) |-> p[i + 1]]
<1>3. r \in [0..Len(Tail(q)) -> states] /\ r[0] = p[1] /\ r[Len(Tail(q))] = w
  BY <1>1, <1>2
<1>4. ASSUME NEW i \in 1..Len(Tail(q))
      PROVE  <<r[i - 1], Tail(q)[i], r[i]>> \in relation
  <2>1. r[i - 1] = p[i] /\ r[i] = p[i + 1] /\ i + 1 \in 1..Len(q)
    BY <1>2
  <2>2. <<p[(i + 1) - 1], q[i + 1], p[i + 1]>> \in relation
    BY <1>1, <2>1
  <2> QED
    BY <1>2, <2>1, <2>2
<1>5. p[1] \in states /\ <<v, Head(q), p[1]>> \in relation
  <2>1. <<p[1 - 1], q[1], p[1]>> \in relation
    BY <1>1, <1>2
  <2> QED
    BY <1>1, <1>2, <2>1
<1> HIDE DEF r
<1> QED
  BY <1>3, <1>4, <1>5 DEF Path

(* The steps of a path may be judged anew.                                 *)
LEMMA PathChange ==
  ASSUME NEW relation, NEW states, NEW newRelation, NEW newStates, NEW q, NEW v, NEW w,
         Path(relation, states, v, q, w), Len(q) \in Nat, states \subseteq newStates,
         \A i \in 1..Len(q) : \A x, y \in states :
           <<x, q[i], y>> \in relation => <<x, q[i], y>> \in newRelation
  PROVE  Path(newRelation, newStates, v, q, w)
<1>1. PICK p \in [0..Len(q) -> states] :
        /\ p[0] = v /\ p[Len(q)] = w
        /\ \A i \in 1..Len(q) : <<p[i - 1], q[i], p[i]>> \in relation
  BY DEF Path
<1>2. \A i \in 1..Len(q) : p[i - 1] \in states /\ p[i] \in states
  OBVIOUS
<1>3. p \in [0..Len(q) -> newStates]
  OBVIOUS
<1> QED
  BY <1>1, <1>2, <1>3 DEF Path

(* Messages that each set one key to what F has for it: what is reached is  *)
(* F for the keys they name, and what there was for the others.            *)
Mix(T, F, v) == [k \in DOMAIN v |-> IF k \in T THEN F[k] ELSE v[k]]

Reached(n, keys, F, v) == Mix({keys[i] : i \in 1..n}, F, v)

LEMMA PathEach ==
  ASSUME NEW relation, NEW states, NEW q, NEW F, NEW v, NEW keys,
         v = [k \in DOMAIN v |-> v[k]],
         Len(q) \in Nat, keys \in [1..Len(q) -> DOMAIN v],
         \A T \in SUBSET DOMAIN v : Mix(T, F, v) \in states,
         \A i \in 1..Len(q) : \A x \in states :
           <<x, q[i], [x EXCEPT ![keys[i]] = F[keys[i]]]>> \in relation
  PROVE  Path(relation, states, v, q, Reached(Len(q), keys, F, v))
<1> DEFINE Keys(n) == {keys[i] : i \in 1..n}
           p == [n \in 0..Len(q) |-> Reached(n, keys, F, v)]
<1>1. \A n \in 0..Len(q) : Keys(n) \in SUBSET DOMAIN v
  OBVIOUS
<1>2. p \in [0..Len(q) -> states]
  BY <1>1 DEF Reached
<1>3. p[0] = v /\ p[Len(q)] = Reached(Len(q), keys, F, v)
  <2>1. Keys(0) = {}
    OBVIOUS
  <2>2. 0 \in 0..Len(q) /\ Len(q) \in 0..Len(q)
    OBVIOUS
  <2>3. p[0] = Mix(Keys(0), F, v) /\ p[Len(q)] = Reached(Len(q), keys, F, v)
    BY <2>2, Zenon DEF Reached
  <2> HIDE DEF Keys, p
  <2>4. Mix({}, F, v) = v
    BY DEF Mix
  <2> QED
    BY <2>1, <2>3, <2>4
<1>4. ASSUME NEW i \in 1..Len(q)
      PROVE  p[i] = [p[i - 1] EXCEPT ![keys[i]] = F[keys[i]]]
  <2>1. Keys(i) = Keys(i - 1) \cup {keys[i]}
    <3>1. 1..i = 1..(i - 1) \cup {i}
      OBVIOUS
    <3> QED
      BY <3>1
  <2>2. p[i] = Mix(Keys(i), F, v) /\ p[i - 1] = Mix(Keys(i - 1), F, v)
    BY DEF Reached
  <2> HIDE DEF Keys, p
  <2> QED
    BY <2>1, <2>2 DEF Mix
<1>5. ASSUME NEW i \in 1..Len(q)
      PROVE  <<p[i - 1], q[i], p[i]>> \in relation
  <2>1. p[i - 1] \in states
    BY <1>2
  <2> HIDE DEF p
  <2> QED
    BY <1>4, <2>1
<1> HIDE DEF p
<1> QED
  BY <1>2, <1>3, <1>5 DEF Path

-----------------------------------------------------------------------------
(* Messages                                                                *)

Edit == [from: Nat, to: Nat, new: Seq(Word)]

(* What a user does to a text, in at most two steps here, ...              *)
Change == [whole: BOOLEAN, from: Nat, to: Nat, new: Seq(Word)]
ShortChanges ==
  {<<>>} \cup {<<c>> : c \in Change} \cup {<<b, c>> : b, c \in Change}

(* ... and what is sent of it.                                             *)
Position == [line: Nat, character: Nat]
SentChange == [whole: BOOLEAN, start: Position, end: Position, new: Seq(Word)]

OpenMessage == [m: {"didOpen"}, uri: Uri, version: Nat, text: Seq(Word)]
ChangeMessage == [m: {"didChange"}, uri: Uri, version: Nat,
                  changes: Seq(SentChange)]
CloseMessage == [m: {"didClose"}, uri: Uri]
ConfigureMessage == [m: {"configure"}, config: Config]
ClientMessage ==
  OpenMessage \cup ChangeMessage \cup CloseMessage \cup ConfigureMessage \cup Requests

Diagnostics == SUBSET (Nat \X Word)

PublishMessage == [m: {"publish"}, uri: Uri, diagnostics: Diagnostics]
AnswerMessage ==
  [m: {"answer"}, id: Nat, kind: {"actions", "error", "added"}, edits: SUBSET Edit]
ServerMessage == PublishMessage \cup AnswerMessage

LEMMA ClientMessageKinds ==
  ASSUME NEW msg \in ClientMessage
  PROVE  /\ msg.m = "didOpen" => msg \in OpenMessage
         /\ msg.m = "didChange" => msg \in ChangeMessage
         /\ msg.m = "didClose" => msg \in CloseMessage
         /\ msg.m = "configure" => msg \in ConfigureMessage
         /\ msg.m = "codeAction" => msg \in ActionRequest
         /\ msg.m = "add" => msg \in AddRequest
         /\ msg.m = "other" => msg \in OtherRequest
         /\ msg \in Requests <=> msg.m \in {"codeAction", "add", "other"}
  BY DEF ClientMessage, OpenMessage, ChangeMessage, CloseMessage, ConfigureMessage,
         ActionRequest, AddRequest, OtherRequest, Requests

LEMMA RequestKinds ==
  ASSUME NEW r \in Requests
  PROVE  /\ r.id \in Nat
         /\ r.m \in {"codeAction", "add", "other"}
         /\ r \in ClientMessage
         /\ r.m = "codeAction" <=> r \in ActionRequest
         /\ r.m = "add" <=> r \in AddRequest
  BY DEF ClientMessage, ActionRequest, AddRequest, OtherRequest, Requests

LEMMA ServerMessageKinds ==
  ASSUME NEW msg \in ServerMessage
  PROVE  /\ msg.m = "publish" <=> msg \in PublishMessage
         /\ msg.m = "answer" <=> msg \in AnswerMessage
         /\ msg.m \in {"publish", "answer"}
  BY DEF ServerMessage, PublishMessage, AnswerMessage

-----------------------------------------------------------------------------
(* Texts and changes                                                       *)

LEMMA JoinedTexts ==
  ASSUME NEW a \in Seq(Word), NEW b \in Seq(Word)
  PROVE  a \o b \in Seq(Word) /\ Len(a \o b) = Len(a) + Len(b)
  BY ConcatProperties

(* An edit whose place is in the text.                                     *)
Fits(text, c) == c.from <= c.to /\ c.to <= Len(text)

LEMMA EditedByType ==
  ASSUME NEW text \in Seq(Word), NEW c \in Change, c.whole \/ Fits(text, c)
  PROVE  EditedBy(text, c) \in Seq(Word)
<1>1. c.from \in Nat /\ c.to \in Nat /\ c.new \in Seq(Word) /\ c.whole \in BOOLEAN
  BY DEF Change
<1>2. CASE c.whole
  BY <1>1, <1>2 DEF EditedBy
<1>3. CASE ~c.whole
  <2>1. c.from <= Len(text) /\ c.to <= Len(text)
    BY <1>1, <1>3 DEF Fits
  <2>2. SubSeq(text, 1, c.from) \in Seq(Word)
    BY <1>1, <2>1
  <2>3. SubSeq(text, c.to + 1, Len(text)) \in Seq(Word)
    BY <1>1, <2>1
  <2> QED
    BY <1>1, <1>3, <2>2, <2>3 DEF EditedBy, Splice
<1> QED
  BY <1>1, <1>2, <1>3

(* What no, one or two edits make of a text, and what the server makes of  *)
(* no, one or two changes.                                                 *)
LEMMA EditedNone ==
  ASSUME NEW text
  PROVE  Edited(text, <<>>) = text
<1> DEFINE Is(f) == f = [n \in 0..Len(<<>>) |->
                           IF n = 0 THEN text ELSE EditedBy(f[n - 1], (<<>>)[n])]
           after == CHOOSE f : Is(f)
           given == [n \in 0..0 |-> text]
<1>1. Is(given)
  OBVIOUS
<1>2. Is(after)
  BY <1>1, Zenon
<1>3. after[0] = text
  BY <1>2
<1> QED
  BY <1>3 DEF Edited

LEMMA EditedOne ==
  ASSUME NEW text, NEW c
  PROVE  Edited(text, <<c>>) = EditedBy(text, c)
<1> DEFINE Is(f) == f = [n \in 0..Len(<<c>>) |->
                           IF n = 0 THEN text ELSE EditedBy(f[n - 1], <<c>>[n])]
           after == CHOOSE f : Is(f)
           given == [n \in 0..1 |-> IF n = 0 THEN text ELSE EditedBy(text, c)]
<1>1. Is(given)
  <2>1. given[0] = text /\ given[1] = EditedBy(text, c) /\ <<c>>[1] = c
    OBVIOUS
  <2>2. \A n \in 0..1 : n = 0 \/ (n = 1 /\ n - 1 = 0)
    OBVIOUS
  <2>3. \A n \in 0..1 :
          given[n] = IF n = 0 THEN text ELSE EditedBy(given[n - 1], <<c>>[n])
    BY <2>1, <2>2
  <2>4. 0..Len(<<c>>) = 0..1
    OBVIOUS
  <2> QED
    BY <2>3, <2>4
<1>2. Is(after)
  BY <1>1, Zenon
<1>3. Len(<<c>>) = 1 /\ <<c>>[1] = c /\ 1 - 1 = 0 /\ 0 \in 0..1 /\ 1 \in 0..1
  OBVIOUS
<1>4. after[0] = text /\ after[1] = EditedBy(after[0], c)
  <2> HIDE DEF after
  <2> QED
    BY <1>2, <1>3
<1> QED
  BY <1>3, <1>4 DEF Edited

LEMMA EditedTwo ==
  ASSUME NEW text, NEW b, NEW c
  PROVE  Edited(text, <<b, c>>) = EditedBy(EditedBy(text, b), c)
<1> DEFINE Is(f) == f = [n \in 0..Len(<<b, c>>) |->
                           IF n = 0 THEN text ELSE EditedBy(f[n - 1], <<b, c>>[n])]
           after == CHOOSE f : Is(f)
           first == EditedBy(text, b)
           given == [n \in 0..2 |-> IF n = 0 THEN text
                                    ELSE IF n = 1 THEN first ELSE EditedBy(first, c)]
<1>1. Is(given)
  <2>1. /\ given[0] = text /\ given[1] = first /\ given[2] = EditedBy(first, c)
        /\ <<b, c>>[1] = b /\ <<b, c>>[2] = c
    OBVIOUS
  <2>2. \A n \in 0..2 : n = 0 \/ (n = 1 /\ n - 1 = 0) \/ (n = 2 /\ n - 1 = 1)
    OBVIOUS
  <2>3. \A n \in 0..2 :
          given[n] = IF n = 0 THEN text ELSE EditedBy(given[n - 1], <<b, c>>[n])
    <3> HIDE DEF given
    <3> QED
      BY <2>1, <2>2
  <2>4. 0..Len(<<b, c>>) = 0..2
    OBVIOUS
  <2> QED
    BY <2>3, <2>4
<1>2. Is(after)
  BY <1>1, Zenon
<1>3. /\ Len(<<b, c>>) = 2 /\ <<b, c>>[1] = b /\ <<b, c>>[2] = c
      /\ 1 - 1 = 0 /\ 2 - 1 = 1 /\ {0, 1, 2} \subseteq 0..2
  OBVIOUS
<1>4. /\ after[0] = text /\ after[1] = EditedBy(after[0], b)
      /\ after[2] = EditedBy(after[1], c)
  <2> HIDE DEF after
  <2> QED
    BY <1>2, <1>3
<1> QED
  BY <1>3, <1>4 DEF Edited

LEMMA AppliedNone ==
  ASSUME NEW text
  PROVE  Applied(text, <<>>) = {text}
<1> DEFINE Is(f) == f = [n \in 0..Len(<<>>) |->
                           IF n = 0 THEN {text} ELSE AnyChangedBy(f[n - 1], (<<>>)[n])]
           after == CHOOSE f : Is(f)
           given == [n \in 0..0 |-> {text}]
<1>1. Is(given)
  OBVIOUS
<1>2. Is(after)
  BY <1>1, Zenon
<1>3. Len(<<>>) = 0 /\ 0 \in 0..0
  OBVIOUS
<1>4. after[0] = {text}
  <2> HIDE DEF after
  <2> QED
    BY <1>2, <1>3
<1> QED
  BY <1>3, <1>4 DEF Applied

LEMMA AppliedOne ==
  ASSUME NEW text, NEW c
  PROVE  Applied(text, <<c>>) = AnyChangedBy({text}, c)
<1> DEFINE Is(f) == f = [n \in 0..Len(<<c>>) |->
                           IF n = 0 THEN {text} ELSE AnyChangedBy(f[n - 1], <<c>>[n])]
           after == CHOOSE f : Is(f)
           given == [n \in 0..1 |-> IF n = 0 THEN {text} ELSE AnyChangedBy({text}, c)]
<1>1. Is(given)
  <2>1. given[0] = {text} /\ given[1] = AnyChangedBy({text}, c) /\ <<c>>[1] = c
    OBVIOUS
  <2>2. \A n \in 0..1 : n = 0 \/ (n = 1 /\ n - 1 = 0)
    OBVIOUS
  <2>3. \A n \in 0..1 :
          given[n] = IF n = 0 THEN {text} ELSE AnyChangedBy(given[n - 1], <<c>>[n])
    BY <2>1, <2>2
  <2>4. 0..Len(<<c>>) = 0..1
    OBVIOUS
  <2> QED
    BY <2>3, <2>4
<1>2. Is(after)
  BY <1>1, Zenon
<1>3. Len(<<c>>) = 1 /\ <<c>>[1] = c /\ 1 - 1 = 0 /\ 0 \in 0..1 /\ 1 \in 0..1
  OBVIOUS
<1>4. after[0] = {text} /\ after[1] = AnyChangedBy(after[0], c)
  <2> HIDE DEF after
  <2> QED
    BY <1>2, <1>3
<1> QED
  BY <1>3, <1>4 DEF Applied

LEMMA AppliedTwo ==
  ASSUME NEW text, NEW b, NEW c
  PROVE  Applied(text, <<b, c>>) = AnyChangedBy(AnyChangedBy({text}, b), c)
<1> DEFINE Is(f) == f = [n \in 0..Len(<<b, c>>) |->
                           IF n = 0 THEN {text} ELSE AnyChangedBy(f[n - 1], <<b, c>>[n])]
           after == CHOOSE f : Is(f)
           first == AnyChangedBy({text}, b)
           given == [n \in 0..2 |-> IF n = 0 THEN {text}
                                    ELSE IF n = 1 THEN first ELSE AnyChangedBy(first, c)]
<1>1. Is(given)
  <2>1. /\ given[0] = {text} /\ given[1] = first /\ given[2] = AnyChangedBy(first, c)
        /\ <<b, c>>[1] = b /\ <<b, c>>[2] = c
    OBVIOUS
  <2>2. \A n \in 0..2 : n = 0 \/ (n = 1 /\ n - 1 = 0) \/ (n = 2 /\ n - 1 = 1)
    OBVIOUS
  <2>3. \A n \in 0..2 :
          given[n] = IF n = 0 THEN {text} ELSE AnyChangedBy(given[n - 1], <<b, c>>[n])
    <3> HIDE DEF given
    <3> QED
      BY <2>1, <2>2
  <2>4. 0..Len(<<b, c>>) = 0..2
    OBVIOUS
  <2> QED
    BY <2>3, <2>4
<1>2. Is(after)
  BY <1>1, Zenon
<1>3. /\ Len(<<b, c>>) = 2 /\ <<b, c>>[1] = b /\ <<b, c>>[2] = c
      /\ 1 - 1 = 0 /\ 2 - 1 = 1 /\ {0, 1, 2} \subseteq 0..2
  OBVIOUS
<1>4. /\ after[0] = {text} /\ after[1] = AnyChangedBy(after[0], b)
      /\ after[2] = AnyChangedBy(after[1], c)
  <2> HIDE DEF after
  <2> QED
    BY <1>2, <1>3
<1> QED
  BY <1>3, <1>4 DEF Applied

LEMMA FirstOfTwo ==
  ASSUME NEW S, NEW b \in S, NEW c \in S
  PROVE  SubSeq(<<b, c>>, 1, 1) = <<b>>
<1>1. SubSeq(<<b, c>>, 1, 1) \in Seq(S) /\ Len(SubSeq(<<b, c>>, 1, 1)) = 1
  OBVIOUS
<1>2. SubSeq(<<b, c>>, 1, 1)[1] = b
  OBVIOUS
<1>3. <<b>> \in Seq(S) /\ Len(<<b>>) = 1 /\ <<b>>[1] = b
  OBVIOUS
<1> DEFINE first == SubSeq(<<b, c>>, 1, 1)
<1>4. \A i \in 1..Len(first) : first[i] = <<b>>[i]
  <2>1. \A i \in 1..Len(first) : i = 1
    BY <1>1
  <2> QED
    BY <1>2, <1>3, <2>1
<1> HIDE DEF first
<1> QED
  <2>1. first = <<b>>
    BY <1>1, <1>3, <1>4, SeqEqual DEF first
  <2> QED
    BY <2>1 DEF first

AllFit(text, edits) ==
  \A i \in DOMAIN edits :
    edits[i].whole \/ Fits(Edited(text, SubSeq(edits, 1, i - 1)), edits[i])

(* One edit that fits.                                                     *)
LEMMA OneFits ==
  ASSUME NEW text, NEW c \in Change, c.whole \/ Fits(text, c)
  PROVE  <<c>> \in ShortChanges /\ AllFit(text, <<c>>)
<1>1. <<c>> \in ShortChanges
  BY DEF ShortChanges
<1>2. ASSUME NEW i \in DOMAIN <<c>>
      PROVE  <<c>>[i].whole \/ Fits(Edited(text, SubSeq(<<c>>, 1, i - 1)), <<c>>[i])
  <2>1. i = 1 /\ <<c>>[i] = c /\ SubSeq(<<c>>, 1, i - 1) = <<>>
    OBVIOUS
  <2> QED
    BY <2>1, EditedNone
<1> QED
  BY <1>1, <1>2 DEF AllFit

(* What the user types fits: the second range in the text the first left.  *)
LEMMA TypedFits ==
  ASSUME NEW text \in Seq(Word), NEW changes \in Changes(text)
  PROVE  changes \in ShortChanges /\ AllFit(text, changes)
<1> USE LspAssumption
<1>1. CASE \E t \in Text : changes = <<Paste(t)>>
  <2>1. PICK t \in Text : changes = <<Paste(t)>>
    BY <1>1
  <2>2. Paste(t) \in Change /\ Paste(t).whole
    BY DEF Change, Paste
  <2> QED
    BY <2>1, <2>2, OneFits
<1>2. CASE \E i \in 0..Len(text), w \in Typed : changes = <<Type(i, w)>>
  <2>1. PICK i \in 0..Len(text), w \in Typed : changes = <<Type(i, w)>>
    BY <1>2
  <2>2. Type(i, w) \in Change /\ Fits(text, Type(i, w))
    BY DEF Change, Type, Fits
  <2> QED
    BY <2>1, <2>2, OneFits
<1>3. CASE \E i \in 1..Len(text) : changes = <<Delete(i)>>
  <2>1. PICK i \in 1..Len(text) : changes = <<Delete(i)>>
    BY <1>3
  <2>2. Delete(i) \in Change /\ Fits(text, Delete(i))
    BY DEF Change, Delete, Fits
  <2> QED
    BY <2>1, <2>2, OneFits
<1>4. CASE \E w \in Typed, i \in 1..Len(text) + 1 : changes = <<Type(0, w), Delete(i)>>
  <2>1. PICK w \in Typed, i \in 1..Len(text) + 1 : changes = <<Type(0, w), Delete(i)>>
    BY <1>4
  <2>2. Type(0, w) \in Change /\ Fits(text, Type(0, w)) /\ Delete(i) \in Change
    BY DEF Change, Type, Delete, Fits
  <2>3. EditedBy(text, Type(0, w)) \in Seq(Word)
        /\ Len(EditedBy(text, Type(0, w))) = Len(text) + 1
    <3>1. EditedBy(text, Type(0, w)) =
            SubSeq(text, 1, 0) \o <<w>> \o SubSeq(text, 0 + 1, Len(text))
      BY DEF EditedBy, Splice, Type
    <3>2. SubSeq(text, 1, 0) \in Seq(Word) /\ Len(SubSeq(text, 1, 0)) = 0
      OBVIOUS
    <3>3. /\ SubSeq(text, 0 + 1, Len(text)) \in Seq(Word)
          /\ Len(SubSeq(text, 0 + 1, Len(text))) = Len(text)
      OBVIOUS
    <3> DEFINE none == SubSeq(text, 1, 0)
               one == none \o <<w>>
               rest == SubSeq(text, 0 + 1, Len(text))
    <3>4. <<w>> \in Seq(Word) /\ Len(<<w>>) = 1
      OBVIOUS
    <3> HIDE DEF none, one, rest
    <3>5. one \in Seq(Word) /\ Len(one) = 1
      BY <3>2, <3>4, ConcatProperties DEF none, one
    <3>6. rest \in Seq(Word) /\ Len(rest) = Len(text) /\ Len(text) \in Nat
      BY <3>3 DEF rest
    <3>7. one \o rest \in Seq(Word) /\ Len(one \o rest) = 1 + Len(text)
      BY <3>5, <3>6, JoinedTexts
    <3> DEFINE all == one \o rest
    <3>8. EditedBy(text, Type(0, w)) = all
      BY <3>1 DEF none, one, rest
    <3> HIDE DEF all
    <3>9. all \in Seq(Word) /\ Len(all) = Len(text) + 1
      BY <3>6, <3>7 DEF all
    <3> QED
      BY <3>8, <3>9
  <2>4. Fits(EditedBy(text, Type(0, w)), Delete(i))
    BY <2>3 DEF Fits, Delete
  <2>5. ASSUME NEW k \in DOMAIN changes
        PROVE  changes[k].whole \/ Fits(Edited(text, SubSeq(changes, 1, k - 1)), changes[k])
    <3> DEFINE b == Type(0, w)
               c == Delete(i)
    <3> HIDE DEF b, c
    <3>1. changes = <<b, c>>
      BY <2>1 DEF b, c
    <3>2. CASE k = 1
      <4>1. changes[k] = b /\ SubSeq(changes, 1, k - 1) = <<>>
        BY <3>1, <3>2
      <4> QED
        BY <2>2, <4>1, EditedNone DEF b
    <3>3. CASE k = 2
      <4>1. changes[k] = c /\ SubSeq(changes, 1, k - 1) = <<b>>
        BY <2>2, <3>1, <3>3, FirstOfTwo, 2 - 1 = 1 DEF b, c
      <4>2. Edited(text, <<b>>) = EditedBy(text, b)
        BY EditedOne
      <4> QED
        BY <2>4, <4>1, <4>2 DEF b, c
    <3> QED
      BY <3>1, <3>2, <3>3
  <2> QED
    BY <2>1, <2>2, <2>5 DEF AllFit, ShortChanges
<1> QED
  BY <1>1, <1>2, <1>3, <1>4 DEF Changes

-----------------------------------------------------------------------------
(* Positions                                                               *)

LEMMA PlacesCounted ==
  ASSUME NEW text, NEW ends, NEW i \in Nat
  PROVE  /\ IsFiniteSet(OnLine(text, i, ends))
         /\ Cardinality(OnLine(text, i, ends)) \in 0..i
         /\ IsFiniteSet({j \in 1..i : text[j] \in ends})
         /\ LineOf(text, i, ends) \in Nat
         /\ Units(text, OnLine(text, i, ends)) \in Nat
         /\ PositionOf(text, i, ends) \in Position
<1> DEFINE on == OnLine(text, i, ends)
           wide == {j \in on : text[j] \in Wide}
           broken == {j \in 1..i : text[j] \in ends}
<1>1. IsFiniteSet(1..i) /\ Cardinality(1..i) = i
  BY FS_Interval
<1>2. on \subseteq 1..i /\ broken \subseteq 1..i
  BY DEF OnLine
<1>3. wide \subseteq on
  OBVIOUS
<1>4. Units(text, on) = Cardinality(on) + Cardinality(wide)
  BY DEF Units
<1>5. LineOf(text, i, ends) = Cardinality(broken)
  BY DEF LineOf
<1>6. PositionOf(text, i, ends) =
        [line |-> LineOf(text, i, ends), character |-> Units(text, on)]
  BY DEF PositionOf
<1> HIDE DEF on, wide, broken
<1>7. IsFiniteSet(on) /\ Cardinality(on) <= i /\ Cardinality(on) \in Nat
  BY <1>1, <1>2, FS_Subset, FS_CardinalityType
<1>8. IsFiniteSet(wide) /\ Cardinality(wide) \in Nat
  BY <1>3, <1>7, FS_Subset, FS_CardinalityType
<1>9. IsFiniteSet(broken) /\ Cardinality(broken) \in Nat
  BY <1>1, <1>2, FS_Subset, FS_CardinalityType
<1> QED
  BY <1>4, <1>5, <1>6, <1>7, <1>8, <1>9 DEF on, broken, Position

LEMMA LineStartType ==
  ASSUME NEW text, NEW ends, NEW i \in Nat
  PROVE  LineStart(text, i, ends) \in 0..i
<1> DEFINE n == Cardinality(OnLine(text, i, ends))
<1>1. n \in 0..i
  BY PlacesCounted
<1> HIDE DEF n
<1>2. i - n \in 0..i
  BY <1>1
<1> QED
  BY <1>2 DEF LineStart, n

(* Two places of one line are a different number of units from its start.  *)
LEMMA PositionsDiffer ==
  ASSUME NEW text, NEW ends, NEW i \in Nat, NEW j \in Nat, i < j
  PROVE  /\ LineOf(text, i, ends) <= LineOf(text, j, ends)
         /\ PositionOf(text, i, ends) # PositionOf(text, j, ends)
<1> DEFINE B(k) == {n \in 1..k : text[n] \in ends}
           on(k) == OnLine(text, k, ends)
           wide(k) == {n \in on(k) : text[n] \in Wide}
<1>1. B(i) \subseteq B(j)
  OBVIOUS
<1>2. IsFiniteSet(B(i)) /\ IsFiniteSet(B(j)) /\ IsFiniteSet(on(i)) /\ IsFiniteSet(on(j))
  BY PlacesCounted
<1>3. LineOf(text, i, ends) = Cardinality(B(i)) /\ LineOf(text, j, ends) = Cardinality(B(j))
  BY DEF LineOf
<1>4. Cardinality(B(i)) <= Cardinality(B(j))
      /\ (Cardinality(B(i)) = Cardinality(B(j)) => B(i) = B(j))
  <2> HIDE DEF B
  <2> QED
    BY <1>1, <1>2, FS_Subset
<1>5. ASSUME B(i) = B(j)
      PROVE  Units(text, on(i)) # Units(text, on(j))
  <2>1. \A n \in (i + 1)..j : text[n] \notin ends
    <3> SUFFICES ASSUME NEW n \in (i + 1)..j, text[n] \in ends
                 PROVE  FALSE
      OBVIOUS
    <3>1. n \in B(j) /\ n \notin B(i)
      OBVIOUS
    <3> QED
      BY <1>5, <3>1
  <2>2. on(i) \subseteq on(j)
    <3> SUFFICES ASSUME NEW n \in on(i)
                 PROVE  n \in on(j)
      OBVIOUS
    <3>1. n \in 1..i /\ \A k \in n..i : text[k] \notin ends
      BY DEF OnLine
    <3>2. \A k \in n..j : k \in n..i \/ k \in (i + 1)..j
      BY <3>1
    <3>3. n \in 1..j /\ \A k \in n..j : text[k] \notin ends
      BY <2>1, <3>1, <3>2
    <3> QED
      BY <3>3 DEF OnLine
  <2>3. j \in on(j) /\ j \notin on(i)
    <3>1. j \in 1..j /\ j \notin 1..i /\ \A k \in j..j : k = j
      OBVIOUS
    <3>2. text[j] \notin ends
      BY <2>1
    <3> QED
      BY <3>1, <3>2 DEF OnLine
  <2>4. wide(i) \subseteq wide(j) /\ wide(i) \subseteq on(i) /\ wide(j) \subseteq on(j)
    BY <2>2
  <2>5. /\ Units(text, on(i)) = Cardinality(on(i)) + Cardinality(wide(i))
        /\ Units(text, on(j)) = Cardinality(on(j)) + Cardinality(wide(j))
    BY DEF Units
  <2> HIDE DEF on, wide
  <2>6. /\ Cardinality(on(i)) \in Nat /\ Cardinality(on(j)) \in Nat
        /\ IsFiniteSet(wide(i)) /\ IsFiniteSet(wide(j))
        /\ Cardinality(wide(i)) \in Nat /\ Cardinality(wide(j)) \in Nat
    BY <1>2, <2>4, FS_Subset, FS_CardinalityType
  <2>7. Cardinality(on(i)) <= Cardinality(on(j)) /\ Cardinality(on(i)) # Cardinality(on(j))
    BY <1>2, <2>2, <2>3, FS_Subset
  <2>8. Cardinality(wide(i)) <= Cardinality(wide(j))
    BY <2>4, <2>6, FS_Subset
  <2> QED
    BY <2>5, <2>6, <2>7, <2>8
<1>6. /\ PositionOf(text, i, ends).line = LineOf(text, i, ends)
      /\ PositionOf(text, j, ends).line = LineOf(text, j, ends)
      /\ PositionOf(text, i, ends).character = Units(text, on(i))
      /\ PositionOf(text, j, ends).character = Units(text, on(j))
  BY DEF PositionOf
<1> HIDE DEF B, on
<1> QED
  BY <1>3, <1>4, <1>5, <1>6

(* The position of a place stands for that place only.                     *)
LEMMA PlaceFound ==
  ASSUME NEW text \in Seq(Word), NEW i \in 0..Len(text)
  PROVE  PositionToByte(text, PositionOf(text, i, ServerEnds)) = {i}
<1> DEFINE p == PositionOf(text, i, ServerEnds)
           last == Len(text)
<1>1. last \in Nat /\ i \in Nat
  OBVIOUS
<1>2. \A j \in 0..last : PositionOf(text, j, ServerEnds) = p => j = i
  <2> SUFFICES ASSUME NEW j \in 0..last, j # i
               PROVE  PositionOf(text, j, ServerEnds) # p
    OBVIOUS
  <2>1. j \in Nat /\ (j < i \/ i < j)
    BY <1>1
  <2> QED
    BY <1>1, <2>1, PositionsDiffer
<1>3. p.line = LineOf(text, i, ServerEnds) /\ LineOf(text, i, ServerEnds) \in Nat
      /\ LineOf(text, last, ServerEnds) \in Nat
  BY <1>1, PlacesCounted DEF PositionOf
<1>4. LineOf(text, i, ServerEnds) <= LineOf(text, last, ServerEnds)
  <2>1. i = last \/ i < last
    BY <1>1
  <2> QED
    BY <1>1, <1>3, <2>1, PositionsDiffer
<1>5. ~(p.line > LineOf(text, last, ServerEnds))
  BY <1>3, <1>4
<1>6. PositionToByte(text, p) =
        {j \in 0..last : PositionOf(text, j, ServerEnds) = p}
        \cup {j \in {last} : p.line > LineOf(text, j, ServerEnds) /\ p.character = 0}
  BY DEF PositionToByte, Places
<1> QED
  <2>1. PositionOf(text, i, ServerEnds) = p
    OBVIOUS
  <2> HIDE DEF p, last
  <2>2. i \in 0..last
    BY DEF last
  <2>3. PositionToByte(text, p) = {i}
    BY <1>2, <1>5, <1>6, <2>1, <2>2
  <2> QED
    BY <2>3 DEF p

(* There is no line end that client and server disagree about.             *)
OnlyFeeds == Returns = {}

(* What the client sends of an edit.                                       *)
OneSent(text, e) ==
  [whole |-> e.whole, start |-> PositionOf(text, e.from, ClientEnds),
   end |-> PositionOf(text, e.to, ClientEnds), new |-> e.new]

LEMMA OneDelivered ==
  ASSUME Returns = {}, NEW text \in Seq(Word), NEW e \in Change, e.whole \/ Fits(text, e)
  PROVE  /\ OneSent(text, e) \in SentChange
         /\ ChangedBy(text, OneSent(text, e)) = {EditedBy(text, e)}
<1> DEFINE c == OneSent(text, e)
<1>1. e.from \in Nat /\ e.to \in Nat /\ e.new \in Seq(Word) /\ e.whole \in BOOLEAN
  BY DEF Change
<1>2. /\ PositionOf(text, e.from, ClientEnds) \in Position
      /\ PositionOf(text, e.to, ClientEnds) \in Position
  BY <1>1, PlacesCounted
<1>3. c \in SentChange
  BY <1>1, <1>2 DEF OneSent, SentChange
<1>4. ClientEnds = ServerEnds
  BY DEF ClientEnds, ServerEnds
<1>5. /\ c.whole = e.whole /\ c.new = e.new
      /\ c.start = PositionOf(text, e.from, ServerEnds)
      /\ c.end = PositionOf(text, e.to, ServerEnds)
  BY <1>4 DEF OneSent
<1> HIDE DEF c
<1>6. ASSUME e.whole
      PROVE  ChangedBy(text, c) = {EditedBy(text, e)}
  BY <1>5, <1>6 DEF ChangedBy, EditedBy
<1>7. ASSUME ~e.whole
      PROVE  ChangedBy(text, c) = {EditedBy(text, e)}
  <2>1. e.from \in 0..Len(text) /\ e.to \in 0..Len(text) /\ e.from <= e.to
    BY <1>1, <1>7 DEF Fits
  <2>2. PositionToByte(text, c.start) = {e.from} /\ PositionToByte(text, c.end) = {e.to}
    BY <1>5, <2>1, PlaceFound
  <2>3. {r \in {e.from} \X {e.to} : r[1] <= r[2]} = {<<e.from, e.to>>}
    BY <2>1
  <2>4. ChangedBy(text, c) =
          {Splice(text, r[1], r[2], e.new) : r \in {<<e.from, e.to>>}}
    BY <1>5, <1>7, <2>2, <2>3, Zenon DEF ChangedBy
  <2>5. EditedBy(text, e) = Splice(text, e.from, e.to, e.new)
    BY <1>7 DEF EditedBy
  <2> QED
    BY <2>4, <2>5
<1> QED
  BY <1>1, <1>3, <1>6, <1>7 DEF c

LEMMA UnionOfOne ==
  ASSUME NEW text, NEW c, NEW S, ChangedBy(text, c) = S
  PROVE  AnyChangedBy({text}, c) = S
  BY DEF AnyChangedBy

(* Without a line end they disagree about, the server makes of a           *)
(* notification what the client did: each range is found in the text the   *)
(* ones before it left.                                                    *)
LEMMA Delivered ==
  ASSUME OnlyFeeds, NEW text \in Seq(Word), NEW edits \in ShortChanges, AllFit(text, edits)
  PROVE  /\ Positioned(text, edits) \in Seq(SentChange)
         /\ Edited(text, edits) \in Seq(Word)
         /\ Applied(text, Positioned(text, edits)) = {Edited(text, edits)}
<1>1. CASE edits = <<>>
  <2>1. Positioned(text, edits) = <<>>
    BY <1>1 DEF Positioned
  <2>2. <<>> \in Seq(SentChange)
    OBVIOUS
  <2> QED
    BY <1>1, <2>1, <2>2, EditedNone, AppliedNone
<1>2. ASSUME NEW e \in Change, edits = <<e>>
      PROVE  /\ Positioned(text, edits) \in Seq(SentChange)
             /\ Edited(text, edits) \in Seq(Word)
             /\ Applied(text, Positioned(text, edits)) = {Edited(text, edits)}
  <2>1. 1 \in DOMAIN edits /\ edits[1] = e /\ SubSeq(edits, 1, 1 - 1) = <<>>
        /\ DOMAIN edits = 1..1
    BY <1>2
  <2>2. e.whole \/ Fits(text, e)
    BY <2>1, EditedNone DEF AllFit
  <2> DEFINE c == OneSent(text, e)
  <2>3. c \in SentChange /\ ChangedBy(text, c) = {EditedBy(text, e)}
    BY <2>2, OneDelivered DEF OnlyFeeds
  <2>4. Positioned(text, edits) = [n \in 1..1 |-> c]
    <3>1. \A n \in 1..1 : n = 1
      OBVIOUS
    <3> QED
      BY <2>1, <3>1, EditedNone DEF Positioned, OneSent
  <2> HIDE DEF c
  <2>5. Positioned(text, edits) = <<c>>
    BY <2>4
  <2>6. Applied(text, <<c>>) = {EditedBy(text, e)}
    BY <2>3, AppliedOne, UnionOfOne
  <2>7. <<c>> \in Seq(SentChange)
    BY <2>3
  <2>8. Edited(text, edits) = EditedBy(text, e) /\ EditedBy(text, e) \in Seq(Word)
    BY <1>2, <2>2, EditedOne, EditedByType
  <2> QED
    BY <2>5, <2>6, <2>7, <2>8
<1>3. ASSUME NEW d \in Change, NEW e \in Change, edits = <<d, e>>
      PROVE  /\ Positioned(text, edits) \in Seq(SentChange)
             /\ Edited(text, edits) \in Seq(Word)
             /\ Applied(text, Positioned(text, edits)) = {Edited(text, edits)}
  <2>1. /\ 1 \in DOMAIN edits /\ edits[1] = d /\ SubSeq(edits, 1, 1 - 1) = <<>>
        /\ 2 \in DOMAIN edits /\ edits[2] = e /\ DOMAIN edits = 1..2
    BY <1>3
  <2>2. SubSeq(edits, 1, 2 - 1) = <<d>>
    BY <1>3, FirstOfTwo, 2 - 1 = 1
  <2> DEFINE next == EditedBy(text, d)
  <2>3. d.whole \/ Fits(text, d)
    BY <2>1, EditedNone DEF AllFit
  <2>4. next \in Seq(Word)
    BY <2>3, EditedByType
  <2>5. Edited(text, <<>>) = text /\ Edited(text, <<d>>) = next
        /\ Edited(text, <<d, e>>) = EditedBy(next, e)
    BY EditedNone, EditedOne, EditedTwo
  <2> HIDE DEF next
  <2>6. e.whole \/ Fits(next, e)
    BY <2>1, <2>2, <2>5 DEF AllFit
  <2> DEFINE b == OneSent(text, d)
             c == OneSent(next, e)
  <2>7. b \in SentChange /\ ChangedBy(text, b) = {next}
    BY <2>3, OneDelivered DEF OnlyFeeds, next
  <2>8. c \in SentChange /\ ChangedBy(next, c) = {EditedBy(next, e)}
    BY <2>4, <2>6, OneDelivered DEF OnlyFeeds
  <2>9. Positioned(text, edits) = [n \in 1..2 |-> IF n = 1 THEN b ELSE c]
    <3>1. \A n \in 1..2 : n = 1 \/ n = 2
      OBVIOUS
    <3>2. Positioned(text, edits) =
            [n \in 1..2 |-> OneSent(Edited(text, SubSeq(edits, 1, n - 1)), edits[n])]
      BY <2>1 DEF Positioned, OneSent
    <3>3. /\ OneSent(Edited(text, SubSeq(edits, 1, 1 - 1)), edits[1]) = b
          /\ OneSent(Edited(text, SubSeq(edits, 1, 2 - 1)), edits[2]) = c
      BY <2>1, <2>2, <2>5
    <3> HIDE DEF b, c
    <3> QED
      BY <3>1, <3>2, <3>3
  <2> HIDE DEF b, c
  <2>10. Positioned(text, edits) = <<b, c>>
    BY <2>9
  <2>11. Applied(text, <<b, c>>) = {EditedBy(next, e)}
    <3>1. AnyChangedBy({text}, b) = {next}
      BY <2>7, UnionOfOne
    <3>2. AnyChangedBy({next}, c) = {EditedBy(next, e)}
      BY <2>8, UnionOfOne
    <3>3. Applied(text, <<b, c>>) = AnyChangedBy(AnyChangedBy({text}, b), c)
      BY AppliedTwo
    <3> QED
      BY <3>1, <3>2, <3>3
  <2>12. EditedBy(next, e) \in Seq(Word)
    BY <2>4, <2>6, EditedByType
  <2>13. <<b, c>> \in Seq(SentChange)
    BY <2>7, <2>8
  <2> QED
    BY <1>3, <2>5, <2>10, <2>11, <2>12, <2>13
<1> QED
  BY <1>1, <1>2, <1>3 DEF ShortChanges

-----------------------------------------------------------------------------
(* Channels                                                                *)

LEMMA Popped ==
  ASSUME NEW M, NEW q \in Seq(M), q # <<>>
  PROVE  /\ Head(q) = q[1] /\ q[1] \in M /\ 1 \in DOMAIN q /\ Tail(q) \in Seq(M)
         /\ \A i \in DOMAIN Tail(q) : i + 1 \in DOMAIN q /\ Tail(q)[i] = q[i + 1]
         /\ \A i \in DOMAIN q : i # 1 => i - 1 \in DOMAIN Tail(q) /\ Tail(q)[i - 1] = q[i]
         /\ DOMAIN q \subseteq Int /\ DOMAIN Tail(q) \subseteq Int
  OBVIOUS

LEMMA Pushed ==
  ASSUME NEW M, NEW q \in Seq(M), NEW msg \in M
  PROVE  /\ Append(q, msg) \in Seq(M)
         /\ DOMAIN Append(q, msg) = DOMAIN q \cup {Len(q) + 1}
         /\ \A i \in DOMAIN q : Append(q, msg)[i] = q[i]
         /\ Append(q, msg)[Len(q) + 1] = msg /\ Len(q) + 1 \notin DOMAIN q
  OBVIOUS

LEMMA Joined ==
  ASSUME NEW M, NEW q \in Seq(M), NEW a \in Seq(M)
  PROVE  /\ q \o a \in Seq(M)
         /\ \A k \in DOMAIN q : k \in DOMAIN (q \o a) /\ (q \o a)[k] = q[k]
         /\ \A k \in DOMAIN (q \o a) : \/ k \in DOMAIN q /\ (q \o a)[k] = q[k]
                                       \/ \E l \in DOMAIN a : k = Len(q) + l /\ (q \o a)[k] = a[l]
<1> DEFINE r == q \o a
<1>1. /\ r \in Seq(M) /\ Len(r) = Len(q) + Len(a) /\ Len(q) \in Nat /\ Len(a) \in Nat
      /\ \A i \in 1..Len(q) + Len(a) : r[i] = IF i <= Len(q) THEN q[i] ELSE a[i - Len(q)]
  BY ConcatProperties
<1> HIDE DEF r
<1>2. DOMAIN r = 1..Len(q) + Len(a) /\ DOMAIN q = 1..Len(q) /\ DOMAIN a = 1..Len(a)
  BY <1>1
<1>3. \A k \in DOMAIN q : k \in DOMAIN r /\ r[k] = q[k]
  BY <1>1, <1>2
<1>4. ASSUME NEW k \in DOMAIN r, k \notin DOMAIN q
      PROVE  \E l \in DOMAIN a : k = Len(q) + l /\ r[k] = a[l]
  <2>1. k - Len(q) \in DOMAIN a /\ k = Len(q) + (k - Len(q)) /\ r[k] = a[k - Len(q)]
    BY <1>1, <1>2, <1>4
  <2> QED
    BY <2>1
<1> QED
  BY <1>1, <1>3, <1>4 DEF r

LEMMA Published ==
  ASSUME NEW messages \in Seq(PublishMessage)
  PROVE  /\ messages \in Seq(ServerMessage)
         /\ \A l \in DOMAIN messages : messages[l].m # "answer"
<1>1. \A l \in DOMAIN messages : messages[l] \in PublishMessage
  OBVIOUS
<1>2. \A msg \in PublishMessage : msg.m # "answer"
  BY DEF PublishMessage
<1>3. PublishMessage \subseteq ServerMessage
  BY DEF ServerMessage
<1> QED
  BY <1>1, <1>2, <1>3

-----------------------------------------------------------------------------
(* Requests and answers                                                    *)

Working == {"open", "write", "reply"}

(* Requests are told apart by their number, and the next one is new.       *)
Numbered ==
  \A r \in pending : r.id < sent /\ \A s \in pending : r.id = s.id => r = s

(* Whatever asks, is worked on or answers belongs to an open request ...   *)
Asked == \A i \in DOMAIN toServer : toServer[i] \in Requests => toServer[i] \in pending

Worked == phase \in Working => job \in pending

AnswersTo(answer, r) ==
  r.id = answer.id /\ (answer.kind = "actions" => r.m = "codeAction")

Told ==
  \A k \in DOMAIN toClient : toClient[k].m = "answer" =>
    \E r \in pending : AnswersTo(toClient[k], r)

(* ... to which nothing else does ...                                      *)
Once ==
  /\ \A i, j \in DOMAIN toServer :
       toServer[i] \in Requests /\ toServer[i] = toServer[j] => i = j
  /\ phase \in Working => \A i \in DOMAIN toServer : toServer[i] # job
  /\ \A k \in DOMAIN toClient : toClient[k].m = "answer" =>
       /\ \A i \in DOMAIN toServer :
            toServer[i] \in Requests => toServer[i].id # toClient[k].id
       /\ phase \in Working => job.id # toClient[k].id
       /\ \A l \in DOMAIN toClient :
            toClient[l].m = "answer" /\ toClient[l].id = toClient[k].id => l = k

(* ... and something does.                                                 *)
Somewhere ==
  phase # "down" => \A r \in pending :
    \/ \E i \in DOMAIN toServer : toServer[i] = r
    \/ phase \in Working /\ job = r
    \/ \E k \in DOMAIN toClient : toClient[k].m = "answer" /\ toClient[k].id = r.id

Talk == Numbered /\ Asked /\ Worked /\ Told /\ Once /\ Somewhere

(* The server works on, or stops.                                          *)
LEMMA TalkGoesOn ==
  ASSUME Talk, UNCHANGED <<pending, sent, toServer, toClient>>,
         \/ phase' = "down"
         \/ phase # "down" /\ job' = job /\ (phase \in Working <=> phase' \in Working)
  PROVE  Talk'
<1>1. phase' \in Working => phase \in Working /\ job' = job
  BY DEF Working
<1>2. phase' # "down" => phase # "down" /\ (phase' \in Working <=> phase \in Working) /\ job' = job
  OBVIOUS
<1>3. Numbered' /\ Asked' /\ Worked' /\ Told' /\ Once'
  BY <1>1 DEF Talk, Numbered, Asked, Worked, Told, AnswersTo, Once
<1>4. Somewhere'
  BY <1>2 DEF Talk, Somewhere
<1> QED
  BY <1>3, <1>4 DEF Talk

(* The client sends something that is no request.                          *)
LEMMA TalkNotify ==
  ASSUME Talk, toServer \in Seq(ClientMessage), sent \in Nat, pending \subseteq Requests,
         NEW msg \in ClientMessage \ Requests, toServer' = Append(toServer, msg),
         sent' = sent + 1, UNCHANGED <<pending, toClient, phase, job>>
  PROVE  Talk'
<1>1. /\ DOMAIN toServer' = DOMAIN toServer \cup {Len(toServer) + 1}
      /\ \A i \in DOMAIN toServer : toServer'[i] = toServer[i]
      /\ toServer'[Len(toServer) + 1] = msg /\ Len(toServer) + 1 \notin DOMAIN toServer
  BY Pushed
<1>2. Numbered'
  BY RequestKinds DEF Talk, Numbered
<1>3. Asked'
  BY <1>1 DEF Talk, Asked
<1>4. Worked' /\ Told'
  BY DEF Talk, Worked, Told, AnswersTo
<1>5. Once'
  <2>1. phase \in Working => msg # job
    BY DEF Talk, Worked
  <2> QED
    BY <1>1, <2>1 DEF Talk, Once
<1>6. Somewhere'
  BY <1>1 DEF Talk, Somewhere
<1> QED
  BY <1>2, <1>3, <1>4, <1>5, <1>6 DEF Talk

(* The client sends a request, with a new number.                          *)
LEMMA TalkRequest ==
  ASSUME Talk, toServer \in Seq(ClientMessage), sent \in Nat, pending \subseteq Requests,
         NEW msg \in Requests, msg.id = sent, toServer' = Append(toServer, msg),
         sent' = sent + 1, pending' = pending \cup {msg}, UNCHANGED <<toClient, phase, job>>
  PROVE  Talk'
<1>1. /\ DOMAIN toServer' = DOMAIN toServer \cup {Len(toServer) + 1}
      /\ \A i \in DOMAIN toServer : toServer'[i] = toServer[i]
      /\ toServer'[Len(toServer) + 1] = msg /\ Len(toServer) + 1 \notin DOMAIN toServer
  BY Pushed, RequestKinds
<1>2. \A r \in pending : r.id # sent /\ r.id < sent + 1 /\ r # msg
  BY RequestKinds DEF Talk, Numbered
<1>3. Numbered'
  <2>1. \A r \in pending' : r.id < sent'
    BY <1>2
  <2>2. \A r, s \in pending' : r.id = s.id => r = s
    BY <1>2 DEF Talk, Numbered
  <2> QED
    BY <2>1, <2>2 DEF Numbered
<1>4. Asked'
  BY <1>1 DEF Talk, Asked
<1>5. Worked'
  BY DEF Talk, Worked
<1>6. Told'
  BY DEF Talk, Told, AnswersTo
<1>7. \A k \in DOMAIN toClient : toClient[k].m = "answer" => toClient[k].id # sent
  BY <1>2 DEF Talk, Told, AnswersTo
<1>8. \A i \in DOMAIN toServer : toServer[i] # msg
  BY <1>2 DEF Talk, Asked
<1>9. phase \in Working => job # msg /\ job.id # sent
  BY <1>2 DEF Talk, Worked
<1>10. Once'
  <2>1. \A i, j \in DOMAIN toServer' :
          toServer'[i] \in Requests /\ toServer'[i] = toServer'[j] => i = j
    BY <1>1, <1>8 DEF Talk, Once
  <2>2. phase \in Working => \A i \in DOMAIN toServer' : toServer'[i] # job
    BY <1>1, <1>9 DEF Talk, Once
  <2>3. \A k \in DOMAIN toClient : toClient[k].m = "answer" =>
          \A i \in DOMAIN toServer' :
            toServer'[i] \in Requests => toServer'[i].id # toClient[k].id
    BY <1>1, <1>7 DEF Talk, Once
  <2> QED
    BY <2>1, <2>2, <2>3 DEF Talk, Once
<1>11. Somewhere'
  BY <1>1 DEF Talk, Somewhere
<1> QED
  BY <1>3, <1>4, <1>5, <1>6, <1>10, <1>11 DEF Talk

(* The server takes in a notification; it may publish, and may stop.       *)
LEMMA TalkNotified ==
  ASSUME Talk, toServer \in Seq(ClientMessage), toClient \in Seq(ServerMessage),
         pending \subseteq Requests, toServer # <<>>, Head(toServer) \notin Requests, toServer' = Tail(toServer),
         NEW messages \in Seq(PublishMessage), toClient' = toClient \o messages,
         phase = "idle", phase' \in {"idle", "down"}, UNCHANGED <<pending, sent>>
  PROVE  Talk'
<1>1. /\ toServer[1] \notin Requests /\ DOMAIN toServer \subseteq Int
      /\ \A i \in DOMAIN toServer' : i + 1 \in DOMAIN toServer /\ toServer'[i] = toServer[i + 1]
      /\ \A i \in DOMAIN toServer : i # 1 =>
           i - 1 \in DOMAIN toServer' /\ toServer'[i - 1] = toServer[i]
      /\ DOMAIN toServer' \subseteq Int
  BY Popped
<1>2. messages \in Seq(ServerMessage)
  BY Published
<1>3. /\ \A k \in DOMAIN toClient : k \in DOMAIN toClient' /\ toClient'[k] = toClient[k]
      /\ \A k \in DOMAIN toClient' : toClient'[k].m = "answer" =>
           k \in DOMAIN toClient /\ toClient'[k] = toClient[k]
  <2>1. \A l \in DOMAIN messages : messages[l].m # "answer"
    BY Published
  <2> QED
    BY <1>2, <2>1, Joined
<1>4. phase \notin Working /\ phase' \notin Working
  BY DEF Working
<1>5. Numbered' /\ Worked'
  BY <1>4 DEF Talk, Numbered, Worked
<1>6. Asked'
  BY <1>1 DEF Talk, Asked
<1>7. Told'
  <2> SUFFICES ASSUME NEW k \in DOMAIN toClient', toClient'[k].m = "answer"
               PROVE  \E s \in pending : AnswersTo(toClient'[k], s)
    BY DEF Told, AnswersTo
  <2> QED
    BY <1>3 DEF Talk, Told
<1>8. Once'
  <2>1. \A i, j \in DOMAIN toServer' :
          toServer'[i] \in Requests /\ toServer'[i] = toServer'[j] => i = j
    <3> SUFFICES ASSUME NEW i \in DOMAIN toServer', NEW j \in DOMAIN toServer',
                        toServer'[i] \in Requests, toServer'[i] = toServer'[j]
                 PROVE  i = j
      OBVIOUS
    <3>1. i + 1 = j + 1
      BY <1>1 DEF Talk, Once
    <3> QED
      BY <1>1, <3>1
  <2> QED
    BY <1>1, <1>3, <1>4, <2>1 DEF Talk, Once
<1>9. Somewhere'
  <2> SUFFICES ASSUME NEW s \in pending
               PROVE  \/ \E i \in DOMAIN toServer' : toServer'[i] = s
                      \/ \E k \in DOMAIN toClient' :
                           toClient'[k].m = "answer" /\ toClient'[k].id = s.id
    BY DEF Somewhere
  <2>1. CASE \E i \in DOMAIN toServer : toServer[i] = s
    <3>1. PICK i \in DOMAIN toServer : toServer[i] = s
      BY <2>1
    <3>2. i # 1
      BY <1>1, <3>1
    <3> QED
      BY <1>1, <3>1, <3>2
  <2>2. CASE \E k \in DOMAIN toClient : toClient[k].m = "answer" /\ toClient[k].id = s.id
    BY <1>3, <2>2
  <2> QED
    BY <1>4, <2>1, <2>2 DEF Talk, Somewhere
<1> QED
  BY <1>5, <1>6, <1>7, <1>8, <1>9 DEF Talk

(* The server takes in a request and answers it at once.                   *)
LEMMA TalkAnswered ==
  ASSUME Talk, toServer \in Seq(ClientMessage), toClient \in Seq(ServerMessage),
         pending \subseteq Requests,
         toServer # <<>>, Head(toServer) \in Requests, toServer' = Tail(toServer),
         NEW a \in AnswerMessage, AnswersTo(a, Head(toServer)),
         toClient' = toClient \o <<a>>,
         phase = "idle", UNCHANGED <<phase, pending, sent>>
  PROVE  Talk'
<1> DEFINE r == Head(toServer)
<1>1. /\ toServer[1] = r /\ 1 \in DOMAIN toServer /\ DOMAIN toServer \subseteq Int
      /\ \A i \in DOMAIN toServer' : i + 1 \in DOMAIN toServer /\ toServer'[i] = toServer[i + 1]
      /\ \A i \in DOMAIN toServer : i # 1 =>
           i - 1 \in DOMAIN toServer' /\ toServer'[i - 1] = toServer[i]
      /\ DOMAIN toServer' \subseteq Int
  BY Popped
<1> DEFINE last == Len(toClient) + 1
<1>2. /\ \A k \in DOMAIN toClient : k \in DOMAIN toClient' /\ toClient'[k] = toClient[k]
      /\ \A k \in DOMAIN toClient' : k = last \/ (k \in DOMAIN toClient /\ toClient'[k] = toClient[k])
      /\ last \in DOMAIN toClient' /\ toClient'[last] = a /\ last \notin DOMAIN toClient
  <2>1. toClient' = Append(toClient, a)
    BY AppendIsConcat DEF ServerMessage
  <2> QED
    BY <2>1, Pushed DEF ServerMessage
<1>3. a.m = "answer" /\ a.id = r.id
  BY DEF AnswerMessage, AnswersTo
<1>4. phase \notin Working
  BY DEF Working
<1>5. r \in pending
  BY <1>1 DEF Talk, Asked
<1> HIDE DEF r, last
<1>6. Numbered' /\ Worked'
  BY <1>4 DEF Talk, Numbered, Worked
<1>7. Asked'
  BY <1>1 DEF Talk, Asked
<1>8. Told'
  <2> SUFFICES ASSUME NEW k \in DOMAIN toClient', toClient'[k].m = "answer"
               PROVE  \E s \in pending : AnswersTo(toClient'[k], s)
    BY DEF Told, AnswersTo
  <2>1. CASE k = last
    <3>1. AnswersTo(toClient'[k], r)
      BY <1>2, <2>1 DEF r
    <3> QED
      BY <1>5, <3>1
  <2>2. CASE k \in DOMAIN toClient
    BY <1>2, <2>2 DEF Talk, Told
  <2> QED
    BY <1>2, <2>1, <2>2
<1>9. \A i \in DOMAIN toServer' : toServer'[i] \in Requests => toServer'[i].id # r.id
  <2> SUFFICES ASSUME NEW i \in DOMAIN toServer', toServer'[i] \in Requests
               PROVE  toServer'[i].id # r.id
    OBVIOUS
  <2>1. toServer[i + 1] \in pending /\ toServer[i + 1] \in Requests
    BY <1>1 DEF Talk, Asked
  <2>2. toServer[i + 1] # r
    <3>1. i + 1 # 1 \/ i = 0
      BY <1>1
    <3>2. i \in 1..Len(toServer') /\ toServer' \in Seq(ClientMessage)
      BY Popped
    <3> QED
      BY <1>1, <2>1, <3>2 DEF Talk, Once
  <2> QED
    BY <1>1, <1>5, <2>1, <2>2 DEF Talk, Numbered
<1>10. \A k \in DOMAIN toClient : toClient[k].m = "answer" => toClient[k].id # r.id
  BY <1>1, <1>5 DEF Talk, Once
<1>11. Once'
  <2>1. \A i, j \in DOMAIN toServer' :
          toServer'[i] \in Requests /\ toServer'[i] = toServer'[j] => i = j
    <3> SUFFICES ASSUME NEW i \in DOMAIN toServer', NEW j \in DOMAIN toServer',
                        toServer'[i] \in Requests, toServer'[i] = toServer'[j]
                 PROVE  i = j
      OBVIOUS
    <3>1. i + 1 = j + 1
      BY <1>1 DEF Talk, Once
    <3> QED
      BY <1>1, <3>1
  <2>2. \A k \in DOMAIN toClient' : toClient'[k].m = "answer" =>
          \A i \in DOMAIN toServer' :
            toServer'[i] \in Requests => toServer'[i].id # toClient'[k].id
    BY <1>1, <1>2, <1>3, <1>9 DEF Talk, Once
  <2>3. \A k, l \in DOMAIN toClient' :
          toClient'[k].m = "answer" /\ toClient'[l].m = "answer"
          /\ toClient'[l].id = toClient'[k].id => l = k
    BY <1>2, <1>3, <1>10 DEF Talk, Once
  <2> QED
    BY <1>4, <2>1, <2>2, <2>3 DEF Once
<1>12. Somewhere'
  <2> SUFFICES ASSUME NEW s \in pending
               PROVE  \/ \E i \in DOMAIN toServer' : toServer'[i] = s
                      \/ \E k \in DOMAIN toClient' :
                           toClient'[k].m = "answer" /\ toClient'[k].id = s.id
    BY DEF Somewhere
  <2>1. CASE s = r
    BY <1>2, <1>3, <2>1
  <2>2. CASE s # r /\ \E i \in DOMAIN toServer : toServer[i] = s
    <3>1. PICK i \in DOMAIN toServer : toServer[i] = s
      BY <2>2
    <3>2. i # 1
      BY <1>1, <2>2, <3>1
    <3> QED
      BY <1>1, <3>1, <3>2
  <2>3. CASE \E k \in DOMAIN toClient : toClient[k].m = "answer" /\ toClient[k].id = s.id
    BY <1>2, <2>3
  <2> QED
    BY <1>4, <2>1, <2>2, <2>3 DEF Talk, Somewhere
<1> QED
  BY <1>6, <1>7, <1>8, <1>11, <1>12 DEF Talk

(* The server takes in a request that takes it several steps.              *)
LEMMA TalkBegun ==
  ASSUME Talk, toServer \in Seq(ClientMessage), pending \subseteq Requests,
         toServer # <<>>, Head(toServer) \in Requests, toServer' = Tail(toServer),
         phase = "idle", phase' \in Working, job' = Head(toServer),
         UNCHANGED <<pending, sent, toClient>>
  PROVE  Talk'
<1> DEFINE r == Head(toServer)
<1>1. /\ toServer[1] = r /\ 1 \in DOMAIN toServer /\ DOMAIN toServer \subseteq Int
      /\ \A i \in DOMAIN toServer' : i + 1 \in DOMAIN toServer /\ toServer'[i] = toServer[i + 1]
      /\ \A i \in DOMAIN toServer : i # 1 =>
           i - 1 \in DOMAIN toServer' /\ toServer'[i - 1] = toServer[i]
      /\ DOMAIN toServer' \subseteq Nat \ {0}
  BY Popped
<1>2. job' = r /\ r \in Requests
  OBVIOUS
<1> HIDE DEF r
<1>3. phase \notin Working
  BY DEF Working
<1>4. Numbered' /\ Told'
  BY DEF Talk, Numbered, Told, AnswersTo
<1>5. Asked' /\ Worked'
  BY <1>1, <1>2 DEF Talk, Asked, Worked
<1>6. Once'
  <2>1. \A i, j \in DOMAIN toServer' :
          toServer'[i] \in Requests /\ toServer'[i] = toServer'[j] => i = j
    <3> SUFFICES ASSUME NEW i \in DOMAIN toServer', NEW j \in DOMAIN toServer',
                        toServer'[i] \in Requests, toServer'[i] = toServer'[j]
                 PROVE  i = j
      OBVIOUS
    <3>1. i + 1 = j + 1
      BY <1>1 DEF Talk, Once
    <3> QED
      BY <1>1, <3>1
  <2>2. \A i \in DOMAIN toServer' : toServer'[i] # r
    BY <1>1, <1>2 DEF Talk, Once
  <2>3. \A k \in DOMAIN toClient : toClient[k].m = "answer" => r.id # toClient[k].id
    BY <1>1, <1>2 DEF Talk, Once
  <2> QED
    BY <1>1, <1>2, <2>1, <2>2, <2>3 DEF Talk, Once
<1>7. Somewhere'
  <2> SUFFICES ASSUME NEW s \in pending
               PROVE  \/ \E i \in DOMAIN toServer' : toServer'[i] = s
                      \/ phase' \in Working /\ job' = s
                      \/ \E k \in DOMAIN toClient :
                           toClient[k].m = "answer" /\ toClient[k].id = s.id
    BY DEF Somewhere
  <2>1. CASE s = r
    BY <1>2, <2>1
  <2>2. CASE s # r /\ \E i \in DOMAIN toServer : toServer[i] = s
    <3>1. PICK i \in DOMAIN toServer : toServer[i] = s
      BY <2>2
    <3>2. i # 1
      BY <1>1, <2>2, <3>1
    <3> QED
      BY <1>1, <3>1, <3>2
  <2> QED
    BY <1>3, <2>1, <2>2 DEF Talk, Somewhere
<1> QED
  BY <1>4, <1>5, <1>6, <1>7 DEF Talk

(* The server publishes and answers the request it works on.               *)
LEMMA TalkFinished ==
  ASSUME Talk, toClient \in Seq(ServerMessage), pending \subseteq Requests,
         phase \in Working, phase' = "idle",
         NEW messages \in Seq(PublishMessage), NEW a \in AnswerMessage, AnswersTo(a, job),
         toClient' = toClient \o Append(messages, a),
         UNCHANGED <<toServer, pending, sent>>
  PROVE  Talk'
<1> DEFINE all == Append(messages, a)
           last == Len(toClient) + Len(all)
<1>1. /\ \A k \in DOMAIN toClient : k \in DOMAIN toClient' /\ toClient'[k] = toClient[k]
      /\ \A k \in DOMAIN toClient' : toClient'[k].m = "answer" =>
           k = last \/ (k \in DOMAIN toClient /\ toClient'[k] = toClient[k])
      /\ last \in DOMAIN toClient' /\ toClient'[last] = a /\ last \notin DOMAIN toClient
  <2>1. messages \in Seq(ServerMessage) /\ a \in ServerMessage
    BY Published DEF ServerMessage
  <2>2. /\ all \in Seq(ServerMessage) /\ Len(all) = Len(messages) + 1
        /\ all[Len(all)] = a /\ \A l \in DOMAIN all : l = Len(all) \/ all[l].m # "answer"
    <3>1. \A l \in DOMAIN messages : messages[l].m # "answer"
      BY Published
    <3> HIDE DEF all
    <3>2. /\ all \in Seq(ServerMessage) /\ DOMAIN all = DOMAIN messages \cup {Len(messages) + 1}
          /\ \A l \in DOMAIN messages : all[l] = messages[l]
          /\ all[Len(messages) + 1] = a
      BY <2>1, Pushed DEF all
    <3>3. Len(all) = Len(messages) + 1
      BY <2>1 DEF all
    <3> QED
      BY <3>1, <3>2, <3>3
  <2> HIDE DEF all
  <2>3. toClient' = toClient \o all
    BY DEF all
  <2>4. last \in DOMAIN toClient' /\ toClient'[last] = a /\ last \notin DOMAIN toClient
    BY <2>1, <2>2, <2>3, ConcatProperties
  <2>5. \A k \in DOMAIN toClient : k \in DOMAIN toClient' /\ toClient'[k] = toClient[k]
    BY <2>2, <2>3, Joined
  <2>6. ASSUME NEW k \in DOMAIN toClient', toClient'[k].m = "answer", k \notin DOMAIN toClient
        PROVE  k = last
    <3>1. PICK l \in DOMAIN all : k = Len(toClient) + l /\ toClient'[k] = all[l]
      BY <2>2, <2>3, <2>6, Joined
    <3> QED
      BY <2>2, <2>6, <3>1
  <2>7. \A k \in DOMAIN toClient' : k \in DOMAIN toClient => toClient'[k] = toClient[k]
    BY <2>5
  <2> HIDE DEF last
  <2> QED
    BY <2>4, <2>5, <2>6, <2>7
<1> HIDE DEF last
<1>2. a.m = "answer" /\ a.id = job.id /\ job \in pending /\ phase' \notin Working
  BY DEF AnswerMessage, AnswersTo, Talk, Worked, Working
<1>3. Numbered' /\ Asked' /\ Worked'
  BY <1>2 DEF Talk, Numbered, Asked, Worked
<1>4. Told'
  <2> SUFFICES ASSUME NEW k \in DOMAIN toClient', toClient'[k].m = "answer"
               PROVE  \E s \in pending : AnswersTo(toClient'[k], s)
    BY DEF Told, AnswersTo
  <2>1. CASE k = last
    BY <1>1, <1>2, <2>1
  <2>2. CASE k \in DOMAIN toClient
    BY <1>1, <2>2 DEF Talk, Told
  <2> QED
    BY <1>1, <2>1, <2>2
<1>5. Once'
  <2>1. \A i \in DOMAIN toServer : toServer[i] \in Requests => toServer[i].id # job.id
    BY <1>2 DEF Talk, Numbered, Asked, Once
  <2>2. \A k \in DOMAIN toClient' : toClient'[k].m = "answer" =>
          \A i \in DOMAIN toServer :
            toServer[i] \in Requests => toServer[i].id # toClient'[k].id
    BY <1>1, <1>2, <2>1 DEF Talk, Once
  <2>3. \A k \in DOMAIN toClient : toClient[k].m = "answer" => toClient[k].id # job.id
    BY DEF Talk, Once
  <2>4. \A k, l \in DOMAIN toClient' :
          toClient'[k].m = "answer" /\ toClient'[l].m = "answer"
          /\ toClient'[l].id = toClient'[k].id => l = k
    <3> SUFFICES ASSUME NEW k \in DOMAIN toClient', NEW l \in DOMAIN toClient',
                        toClient'[k].m = "answer", toClient'[l].m = "answer",
                        toClient'[l].id = toClient'[k].id
                 PROVE  l = k
      OBVIOUS
    <3>1. CASE k = last
      BY <1>1, <1>2, <2>3, <3>1
    <3>2. CASE l = last
      BY <1>1, <1>2, <2>3, <3>2
    <3>3. CASE k # last /\ l # last
      <4>1. /\ k \in DOMAIN toClient /\ toClient'[k] = toClient[k]
            /\ l \in DOMAIN toClient /\ toClient'[l] = toClient[l]
        BY <1>1, <3>3
      <4> QED
        BY <4>1 DEF Talk, Once
    <3> QED
      BY <3>1, <3>2, <3>3
  <2> QED
    BY <1>2, <2>2, <2>4 DEF Talk, Once
<1>6. Somewhere'
  <2>1. \A r \in pending : r = job =>
          \E k \in DOMAIN toClient' : toClient'[k].m = "answer" /\ toClient'[k].id = r.id
    BY <1>1, <1>2
  <2>2. phase # "down"
    BY DEF Working
  <2> SUFFICES ASSUME NEW s \in pending
               PROVE  \/ \E i \in DOMAIN toServer : toServer[i] = s
                      \/ \E k \in DOMAIN toClient' :
                           toClient'[k].m = "answer" /\ toClient'[k].id = s.id
    BY DEF Somewhere
  <2>3. CASE \E k \in DOMAIN toClient : toClient[k].m = "answer" /\ toClient[k].id = s.id
    BY <1>1, <2>3
  <2> QED
    BY <2>1, <2>2, <2>3 DEF Talk, Somewhere
<1> QED
  BY <1>3, <1>4, <1>5, <1>6 DEF Talk

(* The client takes in diagnostics.                                        *)
LEMMA TalkShown ==
  ASSUME Talk, toClient \in Seq(ServerMessage), toClient # <<>>,
         Head(toClient).m # "answer", toClient' = Tail(toClient),
         UNCHANGED <<toServer, pending, sent, phase, job>>
  PROVE  Talk'
<1>1. /\ toClient[1] = Head(toClient) /\ DOMAIN toClient \subseteq Int
      /\ \A k \in DOMAIN toClient' : k + 1 \in DOMAIN toClient /\ toClient'[k] = toClient[k + 1]
      /\ \A k \in DOMAIN toClient : k # 1 =>
           k - 1 \in DOMAIN toClient' /\ toClient'[k - 1] = toClient[k]
      /\ DOMAIN toClient' \subseteq Int
  BY Popped
<1>2. Numbered' /\ Asked' /\ Worked'
  BY DEF Talk, Numbered, Asked, Worked
<1>3. Told'
  BY <1>1 DEF Talk, Told, AnswersTo
<1>4. Once'
  <2>1. \A k, l \in DOMAIN toClient' :
          toClient'[k].m = "answer" /\ toClient'[l].m = "answer"
          /\ toClient'[l].id = toClient'[k].id => l = k
    <3> SUFFICES ASSUME NEW k \in DOMAIN toClient', NEW l \in DOMAIN toClient',
                        toClient'[k].m = "answer", toClient'[l].m = "answer",
                        toClient'[l].id = toClient'[k].id
                 PROVE  l = k
      OBVIOUS
    <3>1. l + 1 = k + 1
      BY <1>1 DEF Talk, Once
    <3> QED
      BY <1>1, <3>1
  <2> QED
    BY <1>1, <2>1 DEF Talk, Once
<1>5. Somewhere'
  <2> SUFFICES ASSUME NEW s \in pending,
                      NEW k \in DOMAIN toClient, toClient[k].m = "answer", toClient[k].id = s.id
               PROVE  \E l \in DOMAIN toClient' :
                        toClient'[l].m = "answer" /\ toClient'[l].id = s.id
    BY DEF Talk, Somewhere
  <2>1. k # 1
    BY <1>1
  <2> QED
    BY <1>1, <2>1
<1> QED
  BY <1>2, <1>3, <1>4, <1>5 DEF Talk

(* The client takes in an answer, and what it asked for is done.           *)
LEMMA TalkOver ==
  ASSUME Talk, toClient \in Seq(ServerMessage), toClient # <<>>, pending \subseteq Requests,
         Head(toClient).m = "answer", toClient' = Tail(toClient),
         NEW r \in pending, r.id = Head(toClient).id, pending' = pending \ {r},
         UNCHANGED <<toServer, sent, phase, job>>
  PROVE  Talk'
<1>1. /\ toClient[1] = Head(toClient) /\ 1 \in DOMAIN toClient /\ DOMAIN toClient \subseteq Int
      /\ \A k \in DOMAIN toClient' : k + 1 \in DOMAIN toClient /\ toClient'[k] = toClient[k + 1]
      /\ \A k \in DOMAIN toClient : k # 1 =>
           k - 1 \in DOMAIN toClient' /\ toClient'[k - 1] = toClient[k]
      /\ DOMAIN toClient' \subseteq Nat \ {0}
  BY Popped
<1>2. \A k \in DOMAIN toClient' : toClient'[k].m = "answer" => toClient'[k].id # r.id
  <2> SUFFICES ASSUME NEW k \in DOMAIN toClient', toClient'[k].m = "answer",
                      toClient'[k].id = r.id
               PROVE  FALSE
    OBVIOUS
  <2>1. k + 1 = 1
    BY <1>1 DEF Talk, Once
  <2> QED
    BY <1>1, <2>1
<1>3. Numbered'
  BY DEF Talk, Numbered
<1>4. Asked' /\ Worked'
  BY <1>1 DEF Talk, Asked, Worked, Once
<1>5. Told'
  BY <1>1, <1>2 DEF Talk, Told, AnswersTo
<1>6. Once'
  <2>1. \A k, l \in DOMAIN toClient' :
          toClient'[k].m = "answer" /\ toClient'[l].m = "answer"
          /\ toClient'[l].id = toClient'[k].id => l = k
    <3> SUFFICES ASSUME NEW k \in DOMAIN toClient', NEW l \in DOMAIN toClient',
                        toClient'[k].m = "answer", toClient'[l].m = "answer",
                        toClient'[l].id = toClient'[k].id
                 PROVE  l = k
      OBVIOUS
    <3>1. l + 1 = k + 1
      BY <1>1 DEF Talk, Once
    <3> QED
      BY <1>1, <3>1
  <2> QED
    BY <1>1, <2>1 DEF Talk, Once
<1>7. Somewhere'
  <2>1. \A s \in pending' : s \in pending /\ s.id # r.id
    BY DEF Talk, Numbered
  <2> SUFFICES ASSUME NEW s \in pending',
                      NEW k \in DOMAIN toClient, toClient[k].m = "answer", toClient[k].id = s.id
               PROVE  \E l \in DOMAIN toClient' :
                        toClient'[l].m = "answer" /\ toClient'[l].id = s.id
    BY <2>1 DEF Talk, Somewhere
  <2>2. k # 1
    BY <1>1, <2>1
  <2> QED
    BY <1>1, <2>2
<1> QED
  BY <1>3, <1>4, <1>5, <1>6, <1>7 DEF Talk

(* A client that launches a server has asked it for nothing yet.           *)
LEMMA TalkBegins ==
  ASSUME pending = {}, toClient = <<>>, phase = "idle",
         \A i \in DOMAIN toServer : toServer[i] \notin Requests
  PROVE  Talk
  BY DEF Talk, Numbered, Asked, Worked, Told, Once, Somewhere, Working

-----------------------------------------------------------------------------
(* What the server publishes and answers                                   *)

(* The documents of a list of SetToSeq: all of them, each once.            *)
LEMMA Listed ==
  ASSUME NEW S \in SUBSET Uri
  PROVE  /\ SetToSeq(S) \in Seq(Uri)
         /\ {SetToSeq(S)[i] : i \in DOMAIN SetToSeq(S)} = S
         /\ \A i, j \in DOMAIN SetToSeq(S) : SetToSeq(S)[i] = SetToSeq(S)[j] => i = j
<1>1. IsFiniteSet(S)
  BY FS_Subset, LspAssumption
<1>2. Cardinality(S) \in Nat /\ ExistsBijection(1..Cardinality(S), S)
  BY <1>1, FS_CardinalityType
<1>3. \E f \in [1..Cardinality(S) -> S] : IsInjective(f)
  BY <1>2 DEF ExistsBijection, Bijection, Injection
<1> DEFINE q == SetToSeq(S)
           n == Cardinality(S)
<1>4. q \in [1..n -> S] /\ IsInjective(q)
  BY <1>3 DEF SetToSeq
<1>5. \A s \in S : \E i \in 1..n : q[i] = s
  <2>1. q \in Injection(1..n, S)
    BY <1>4 DEF Injection
  <2>2. Cardinality(1..n) = n
    BY <1>2, FS_Interval
  <2> HIDE DEF q
  <2>3. q \in Surjection(1..n, S)
    BY <1>1, <2>1, <2>2, FS_Injection
  <2> QED
    BY <2>3 DEF Surjection
<1> HIDE DEF q, n
<1>6. q \in Seq(Uri) /\ DOMAIN q = 1..n
  <2>1. n \in Nat
    BY <1>2 DEF n
  <2>2. q \in [1..n -> Uri]
    BY <1>4
  <2> QED
    BY <2>1, <2>2
<1>7. {q[i] : i \in DOMAIN q} = S
  BY <1>4, <1>5, <1>6
<1>8. \A i, j \in DOMAIN q : q[i] = q[j] => i = j
  BY <1>4 DEF IsInjective
<1> QED
  BY <1>6, <1>7, <1>8 DEF q

LEMMA FindingsType ==
  ASSUME NEW text \in Seq(Word), NEW known
  PROVE  /\ FindingsIn(text, known) \in Diagnostics
         /\ \A f \in FindingsIn(text, known) : f[1] \in 1..Len(text) /\ f[2] \in Word
  BY DEF FindingsIn, Diagnostics

LEMMA PublishType ==
  ASSUME NEW u \in Uri, NEW text \in Seq(Word), NEW known
  PROVE  Publish(u, text, known) \in PublishMessage
  BY FindingsType DEF Publish, PublishMessage

Texts == [Uri -> Doc \cup {None}]

LEMMA PublishAllType ==
  ASSUME NEW texts \in Texts, NEW known
  PROVE  PublishAll(texts, known) \in Seq(PublishMessage)
<1> DEFINE S == {u \in Uri : texts[u] # None}
           open == SetToSeq(S)
<1>1. S \in SUBSET Uri
  OBVIOUS
<1>2. /\ open \in Seq(Uri) /\ \A i \in DOMAIN open : open[i] \in S
  BY <1>1, Listed
<1> HIDE DEF open
<1>3. \A i \in DOMAIN open : Publish(open[i], texts[open[i]].text, known) \in PublishMessage
  BY <1>2, PublishType DEF Texts, Doc
<1>4. PublishAll(texts, known) =
        [i \in DOMAIN open |-> Publish(open[i], texts[open[i]].text, known)]
  BY DEF PublishAll, open
<1>5. DOMAIN open = 1..Len(open) /\ Len(open) \in Nat
  BY <1>2
<1> QED
  BY <1>3, <1>4, <1>5

(* The edits of a quick fix lie in the text the finding is in.             *)
LEMMA EditsType ==
  ASSUME base \in SUBSET Word, NEW text \in Seq(Word), NEW known,
         NEW f \in FindingsIn(text, known)
  PROVE  \A e \in EditsFor(text, f) : e \in Edit /\ Fits(text, e)
<1>1. f[1] \in 1..Len(text) /\ f[2] \in Word /\ Len(text) \in Nat
  BY FindingsType
<1> SUFFICES ASSUME NEW e \in EditsFor(text, f)
             PROVE  e \in Edit /\ Fits(text, e)
  OBVIOUS
<1>2. CASE \E s \in Similar[f[2]] \cap base :
             e = [from |-> f[1] - 1, to |-> f[1], new |-> <<s>>]
  <2>1. PICK s \in Word : e = [from |-> f[1] - 1, to |-> f[1], new |-> <<s>>]
    BY <1>2
  <2> QED
    BY <1>1, <2>1 DEF Edit, Fits
<1> DEFINE start == LineStart(text, f[1] - 1, ServerEnds)
<1>3. CASE e = [from |-> start, to |-> start, new |-> <<Ferrolex, Ignore, f[2], Feed>>]
  <2>1. <<Ferrolex, Ignore, f[2], Feed>> \in Seq(Word)
    BY <1>1, LspAssumption
  <2>2. start \in 0..Len(text)
    BY <1>1, LineStartType
  <2> HIDE DEF start
  <2> QED
    BY <1>1, <1>3, <2>1, <2>2 DEF Edit, Fits
<1> QED
  BY <1>2, <1>3 DEF EditsFor

-----------------------------------------------------------------------------
(* Texts on their way                                                      *)

(* What a message makes of the server's texts, and the texts it is for: the *)
(* document it changes or asks about is open, and the ranges are in it.     *)
After(texts, msg) ==
  IF msg.m = "didOpen"
  THEN [texts EXCEPT ![msg.uri] = [version |-> msg.version, text |-> msg.text]]
  ELSE IF msg.m = "didChange"
  THEN [texts EXCEPT ![msg.uri] =
          [version |-> msg.version,
           text |-> CHOOSE t : t \in Applied(texts[msg.uri].text, msg.changes)]]
  ELSE IF msg.m = "didClose" THEN [texts EXCEPT ![msg.uri] = None]
  ELSE texts

Meant(texts, msg) ==
  /\ msg.m = "didChange" =>
       /\ texts[msg.uri] # None
       /\ \E t \in Seq(Word) : Applied(texts[msg.uri].text, msg.changes) = {t}
  /\ msg.m = "codeAction" =>
       texts[msg.uri] # None /\ texts[msg.uri].version = msg.version

Following ==
  {step \in Texts \X ClientMessage \X Texts :
     Meant(step[1], step[2]) /\ step[3] = After(step[1], step[2])}

(* Texts the client has had: one version is one text.                      *)
FreshTexts ==
  {texts \in Texts : \A u \in Uri : texts[u] # None =>
     /\ texts[u].version < sent
     /\ editor[u] # None /\ editor[u].version = texts[u].version => texts[u] = editor[u]}

Sync ==
  /\ \A u \in Uri : editor[u] # None => editor[u].version < sent
  /\ phase # "down" => Path(Following, FreshTexts, documents, toServer, editor)

LEMMA FollowingIs ==
  ASSUME NEW x \in Texts, NEW msg \in ClientMessage, NEW y \in Texts
  PROVE  <<x, msg, y>> \in Following <=> Meant(x, msg) /\ y = After(x, msg)
  BY DEF Following

(* A meant message leaves texts.                                           *)
LEMMA AfterType ==
  ASSUME NEW x \in Texts, NEW msg \in ClientMessage, Meant(x, msg)
  PROVE  After(x, msg) \in Texts
<1>1. CASE msg.m = "didOpen"
  BY <1>1, ClientMessageKinds DEF After, Texts, Doc, OpenMessage
<1>2. CASE msg.m = "didChange"
  <2>1. /\ msg.uri \in Uri /\ msg.version \in Nat
    BY <1>2, ClientMessageKinds DEF ChangeMessage
  <2>2. PICK t \in Seq(Word) : Applied(x[msg.uri].text, msg.changes) = {t}
    BY <1>2 DEF Meant
  <2>3. (CHOOSE u : u \in Applied(x[msg.uri].text, msg.changes)) = t
    BY <2>2
  <2> QED
    BY <1>2, <2>1, <2>3 DEF After, Texts, Doc
<1>3. CASE msg.m = "didClose"
  BY <1>3, ClientMessageKinds DEF After, Texts, CloseMessage
<1>4. CASE msg.m \notin {"didOpen", "didChange", "didClose"}
  BY <1>4 DEF After
<1> QED
  BY <1>1, <1>2, <1>3, <1>4

(* The next message is meant for the server's texts.                       *)
LEMMA SyncNext ==
  ASSUME Sync, phase # "down", toServer \in Seq(ClientMessage), toServer # <<>>,
         documents \in Texts
  PROVE  /\ Meant(documents, Head(toServer))
         /\ documents \in FreshTexts
         /\ Path(Following, FreshTexts, After(documents, Head(toServer)), Tail(toServer), editor)
<1>1. PICK u \in FreshTexts : /\ <<documents, Head(toServer), u>> \in Following
                              /\ Path(Following, FreshTexts, u, Tail(toServer), editor)
  BY PathTail DEF Sync
<1>2. u \in Texts /\ Head(toServer) \in ClientMessage
  BY Popped DEF FreshTexts
<1>3. Meant(documents, Head(toServer)) /\ u = After(documents, Head(toServer))
  BY <1>1, <1>2, FollowingIs
<1>4. documents \in FreshTexts
  BY DEF Sync, Path
<1> QED
  BY <1>1, <1>3, <1>4

(* The server takes the next message in.                                   *)
LEMMA SyncTaken ==
  ASSUME Sync, phase # "down", toServer \in Seq(ClientMessage), toServer # <<>>,
         documents \in Texts, toServer' = Tail(toServer),
         documents' = After(documents, Head(toServer)), UNCHANGED <<editor, sent>>
  PROVE  Sync'
<1>1. Path(Following, FreshTexts, documents', toServer', editor')
  BY SyncNext
<1>2. FreshTexts' = FreshTexts
  BY DEF FreshTexts
<1> QED
  BY <1>1, <1>2 DEF Sync

(* A step neither end notices.                                             *)
LEMMA SyncStays ==
  ASSUME Sync, UNCHANGED <<editor, sent, documents, toServer>>,
         phase' # "down" => phase # "down"
  PROVE  Sync'
<1>1. FreshTexts' = FreshTexts
  BY DEF FreshTexts
<1> QED
  BY <1>1 DEF Sync

(* The client sends what it means for its own texts.                       *)
LEMMA SyncSent ==
  ASSUME Sync, phase # "down", toServer \in Seq(ClientMessage), editor \in Texts, sent \in Nat,
         NEW msg \in ClientMessage, Meant(editor, msg), toServer' = Append(toServer, msg),
         editor' = After(editor, msg), sent' = sent + 1,
         \A u \in Uri : \/ editor'[u] = editor[u] \/ editor'[u] = None
                        \/ editor'[u].version = sent,
         UNCHANGED <<phase, documents>>
  PROVE  Sync'
<1>1. editor' \in Texts
  BY AfterType
<1>2. \A u \in Uri : editor'[u] # None => editor'[u].version < sent'
  BY DEF Sync, Texts, Doc
<1>3. FreshTexts \subseteq FreshTexts'
  <2> SUFFICES ASSUME NEW texts \in FreshTexts, NEW u \in Uri, texts[u] # None
               PROVE  /\ texts[u].version < sent'
                      /\ editor'[u] # None /\ editor'[u].version = texts[u].version
                           => texts[u] = editor'[u]
    BY DEF FreshTexts
  <2>1. texts[u] \in Doc /\ texts[u].version < sent
    BY DEF FreshTexts, Texts
  <2>2. texts[u].version \in Nat
    BY <2>1 DEF Doc
  <2> QED
    BY <2>1, <2>2 DEF FreshTexts
<1>4. editor \in FreshTexts' /\ editor' \in FreshTexts'
  <2>1. editor \in FreshTexts
    BY DEF FreshTexts, Sync
  <2> QED
    BY <1>1, <1>2, <1>3, <2>1 DEF FreshTexts
<1>5. Path(Following, FreshTexts', documents, toServer, editor)
  <2>1. Len(toServer) \in Nat
    OBVIOUS
  <2> QED
    BY <1>3, <2>1, PathChange DEF Sync
<1>6. Path(Following, FreshTexts', editor, <<msg>>, editor')
  BY <1>1, <1>4, PathOne, FollowingIs
<1>7. Path(Following, FreshTexts', documents, toServer \o <<msg>>, editor')
  <2>1. <<msg>> \in Seq(ClientMessage)
    OBVIOUS
  <2> HIDE DEF FreshTexts, Following, ClientMessage
  <2> QED
    BY <1>5, <1>6, <2>1, PathConcat
<1>8. toServer' = toServer \o <<msg>>
  BY AppendIsConcat
<1> QED
  BY <1>2, <1>7, <1>8 DEF Sync

(* A client that launches a server opens its documents there.              *)
Reopened ==
  LET open == SetToSeq({u \in Uri : editor[u] # None}) IN
  [i \in DOMAIN open |-> [m |-> "didOpen", uri |-> open[i],
                          version |-> editor[open[i]].version,
                          text |-> editor[open[i]].text]]

LEMMA SyncBegins ==
  ASSUME editor \in Texts, \A u \in Uri : editor[u] # None => editor[u].version < sent,
         documents' = [u \in Uri |-> None], toServer' = Reopened, UNCHANGED <<editor, sent>>
  PROVE  Sync' /\ Reopened \in Seq(OpenMessage)
<1> DEFINE S == {u \in Uri : editor[u] # None}
           open == SetToSeq(S)
           q == Reopened
           Opened(u) == [m |-> "didOpen", uri |-> u, version |-> editor[u].version,
                         text |-> editor[u].text]
           none == [u \in Uri |-> None]
<1>1. /\ open \in Seq(Uri) /\ {open[i] : i \in DOMAIN open} = S
  <2>1. S \in SUBSET Uri
    OBVIOUS
  <2> HIDE DEF S
  <2> QED
    BY <2>1, Listed
<1>2. q = [i \in DOMAIN open |-> Opened(open[i])]
  BY Zenon DEF Reopened
<1>3. \A u \in S : Opened(u) \in OpenMessage /\ editor[u] \in Doc
  BY DEF OpenMessage, Texts, Doc
<1> HIDE DEF open, q, Opened
<1>4. /\ DOMAIN open = 1..Len(open) /\ Len(open) \in Nat /\ open \in [1..Len(open) -> Uri]
      /\ \A i \in 1..Len(open) : open[i] \in S
  <2> HIDE DEF S
  <2>1. open \in Seq(Uri)
    BY <1>1
  <2> QED
    BY <1>1, <2>1, LenProperties
<1>5. /\ q \in Seq(OpenMessage) /\ Len(q) = Len(open)
      /\ \A i \in 1..Len(open) : q[i] = Opened(open[i])
  <2> HIDE DEF S
  <2>1. q = [i \in 1..Len(open) |-> Opened(open[i])]
    BY <1>2, <1>4
  <2> QED
    BY <1>3, <1>4, <2>1
<1>6. \A T \in SUBSET Uri : Mix(T, editor, none) \in FreshTexts
  <2> SUFFICES ASSUME NEW T \in SUBSET Uri
               PROVE  Mix(T, editor, none) \in FreshTexts
    OBVIOUS
  <2> DEFINE mix == Mix(T, editor, none)
  <2>1. mix = [u \in Uri |-> IF u \in T THEN editor[u] ELSE None]
    BY DEF Mix
  <2> HIDE DEF mix
  <2>2. mix \in Texts
    BY <2>1 DEF Texts
  <2> QED
    BY <2>1, <2>2 DEF FreshTexts, mix
<1>7. ASSUME NEW i \in 1..Len(q), NEW x \in FreshTexts
      PROVE  <<x, q[i], [x EXCEPT ![open[i]] = editor[open[i]]]>> \in Following
  <2> DEFINE u == open[i]
             msg == q[i]
  <2>1. u \in S /\ msg = Opened(u)
    BY <1>4, <1>5
  <2> HIDE DEF u, msg
  <2>2. msg \in ClientMessage /\ editor[u] \in Doc
    BY <1>3, <2>1 DEF ClientMessage
  <2>3. x \in Texts /\ editor[u] = [version |-> editor[u].version, text |-> editor[u].text]
    BY <2>2 DEF FreshTexts, Doc
  <2>4. After(x, msg) = [x EXCEPT ![u] = editor[u]] /\ Meant(x, msg)
    BY <2>1, <2>3 DEF After, Meant, Opened
  <2>5. After(x, msg) \in Texts
    BY <2>2, <2>3, <2>4, AfterType
  <2>6. <<x, msg, After(x, msg)>> \in Following
    BY <2>2, <2>3, <2>4, <2>5, FollowingIs
  <2> QED
    BY <2>4, <2>6 DEF u, msg
<1> HIDE DEF S
<1>8. Path(Following, FreshTexts, none, q, Reached(Len(q), open, editor, none))
  <2>1. open \in [1..Len(q) -> Uri] /\ Len(q) \in Nat
    BY <1>4, <1>5
  <2>2. DOMAIN none = Uri /\ none = [u \in DOMAIN none |-> none[u]]
    OBVIOUS
  <2> HIDE DEF none, Following, FreshTexts
  <2> QED
    BY <1>6, <1>7, <2>1, <2>2, PathEach
<1>9. Reached(Len(q), open, editor, none) = editor
  <2>1. {open[i] : i \in 1..Len(q)} = S
    BY <1>1, <1>4, <1>5
  <2> QED
    BY <2>1 DEF Mix, S, Texts, Reached
<1>10. FreshTexts' = FreshTexts
  BY DEF FreshTexts
<1> QED
  BY <1>5, <1>8, <1>9, <1>10 DEF Sync, q

-----------------------------------------------------------------------------
(* Code actions                                                            *)

(* If the client still has the version the edits were made for, they lie in *)
(* its text.                                                               *)
FitsIn(texts, next, u, version, edits) ==
  /\ version < next
  /\ texts[u] # None /\ texts[u].version = version =>
       \A e \in edits : Fits(texts[u].text, e)

Offers ==
  /\ offered.edits \subseteq Edit
  /\ offered.edits # {} =>
       /\ offered.uri \in Uri /\ offered.version \in Nat
       /\ FitsIn(editor, sent, offered.uri, offered.version, offered.edits)
  /\ \A r \in pending : r.m = "codeAction" => r.version < sent
  /\ \A k \in DOMAIN toClient : \A r \in pending :
       toClient[k].m = "answer" /\ toClient[k].kind = "actions"
       /\ r.id = toClient[k].id =>
         FitsIn(editor, sent, r.uri, r.version, toClient[k].edits)

LEMMA FitsKept ==
  ASSUME NEW u \in Uri, NEW version \in Nat, NEW edits, sent \in Nat,
         FitsIn(editor, sent, u, version, edits), sent' \in {sent, sent + 1},
         \A v \in Uri : \/ editor'[v] = editor[v] \/ editor'[v] = None
                        \/ editor'[v].version = sent
  PROVE  FitsIn(editor', sent', u, version, edits)
  BY DEF FitsIn

(* The request an answer with code actions is for.                         *)
LEMMA AnswerIsFor ==
  ASSUME Talk, toClient \in Seq(ServerMessage), pending \subseteq Requests,
         NEW k \in DOMAIN toClient, toClient[k].m = "answer",
         NEW r \in pending, r.id = toClient[k].id
  PROVE  /\ toClient[k] \in AnswerMessage
         /\ toClient[k].kind = "actions" => r \in ActionRequest
<1>1. toClient[k] \in ServerMessage
  OBVIOUS
<1>2. PICK s \in pending : AnswersTo(toClient[k], s)
  BY DEF Talk, Told
<1>3. s = r
  BY <1>2 DEF AnswersTo, Talk, Numbered
<1> QED
  BY <1>1, <1>2, <1>3, ServerMessageKinds, RequestKinds DEF AnswersTo

(* No new actions, and texts that changed have new versions.               *)
LEMMA OffersKept ==
  ASSUME Offers, Talk, toClient \in Seq(ServerMessage), pending \subseteq Requests,
         sent \in Nat, UNCHANGED offered, sent' \in {sent, sent + 1},
         \A v \in Uri : \/ editor'[v] = editor[v] \/ editor'[v] = None
                        \/ editor'[v].version = sent,
         \A k \in DOMAIN toClient' : toClient'[k].m = "answer" =>
           \/ toClient'[k].kind # "actions"
           \/ \E l \in DOMAIN toClient : toClient'[k] = toClient[l],
         \A r \in pending' : \/ r \in pending
                             \/ r.id = sent /\ (r.m = "codeAction" => r.version < sent')
  PROVE  Offers'
<1>1. offered.edits # {} =>
        FitsIn(editor', sent', offered.uri, offered.version, offered.edits)
  BY FitsKept DEF Offers
<1>2. \A r \in pending' : r.m = "codeAction" => r.version < sent'
  <2>1. \A r \in pending : r.m = "codeAction" => r.version \in Nat /\ r.version < sent
    BY RequestKinds DEF ActionRequest, Offers
  <2> QED
    BY <2>1
<1>3. ASSUME NEW k \in DOMAIN toClient', NEW r \in pending', toClient'[k].m = "answer",
             toClient'[k].kind = "actions", r.id = toClient'[k].id
      PROVE  FitsIn(editor', sent', r.uri, r.version, toClient'[k].edits)
  <2>1. PICK l \in DOMAIN toClient : toClient'[k] = toClient[l]
    BY <1>3
  <2>2. PICK s \in pending : s.id = toClient[l].id
    BY <1>3, <2>1 DEF Talk, Told, AnswersTo
  <2>3. s.id < sent /\ s.id \in Nat
    BY RequestKinds DEF Talk, Numbered
  <2>4. r \in pending
    BY <1>3, <2>1, <2>2, <2>3
  <2>5. r \in ActionRequest
    BY <1>3, <2>1, <2>4, AnswerIsFor
  <2>6. FitsIn(editor, sent, r.uri, r.version, toClient[l].edits)
    BY <1>3, <2>1, <2>4 DEF Offers
  <2>7. r.uri \in Uri /\ r.version \in Nat
    BY <2>5 DEF ActionRequest
  <2> QED
    BY <2>1, <2>6, <2>7, FitsKept
<1> QED
  BY <1>1, <1>2, <1>3 DEF Offers

(* The server publishes, or answers with an error or a word added.         *)
LEMMA OffersPublish ==
  ASSUME Offers, Talk, toClient \in Seq(ServerMessage), pending \subseteq Requests,
         sent \in Nat, UNCHANGED <<offered, sent, editor, pending>>,
         NEW messages \in Seq(ServerMessage), toClient' = toClient \o messages,
         \A l \in DOMAIN messages :
           messages[l].m = "answer" => messages[l].kind # "actions"
  PROVE  Offers'
<1>1. \A k \in DOMAIN toClient' : toClient'[k].m = "answer" =>
        \/ toClient'[k].kind # "actions"
        \/ \E l \in DOMAIN toClient : toClient'[k] = toClient[l]
  BY Joined
<1> QED
  BY <1>1, OffersKept

(* The server answers with the actions for its own text.                   *)
LEMMA OffersAnswered ==
  ASSUME Offers, Talk, toClient \in Seq(ServerMessage), pending \subseteq Requests,
         sent \in Nat, UNCHANGED <<offered, sent, editor, pending>>,
         NEW q \in ActionRequest, q \in pending, NEW edits \in SUBSET Edit,
         toClient' = Append(toClient, Answer(q, "actions", edits)),
         FitsIn(editor, sent, q.uri, q.version, edits)
  PROVE  Offers'
<1> DEFINE a == Answer(q, "actions", edits)
           last == Len(toClient) + 1
<1>1. a \in ServerMessage /\ a.id = q.id /\ a.edits = edits
  BY DEF Answer, AnswerMessage, ServerMessage, ActionRequest
<1> HIDE DEF a
<1>2. \A k \in DOMAIN toClient' :
        \/ k = last /\ toClient'[k] = a
        \/ k \in DOMAIN toClient /\ toClient'[k] = toClient[k]
  BY <1>1, Pushed DEF a
<1>3. ASSUME NEW k \in DOMAIN toClient', NEW r \in pending, toClient'[k].m = "answer",
             toClient'[k].kind = "actions", r.id = toClient'[k].id
      PROVE  FitsIn(editor, sent, r.uri, r.version, toClient'[k].edits)
  <2>1. CASE k = last /\ toClient'[k] = a
    <3>1. r = q
      BY <1>1, <1>3, <2>1 DEF Talk, Numbered
    <3> QED
      BY <1>1, <2>1, <3>1
  <2>2. CASE k \in DOMAIN toClient /\ toClient'[k] = toClient[k]
    BY <1>3, <2>2 DEF Offers
  <2> QED
    BY <1>2, <2>1, <2>2
<1> QED
  BY <1>3 DEF Offers

(* The client takes in an answer.                                          *)
LEMMA OffersReceived ==
  ASSUME Offers, Talk, toClient \in Seq(ServerMessage), toClient # <<>>,
         pending \subseteq Requests, UNCHANGED <<sent, editor>>,
         Head(toClient).m = "answer", toClient' = Tail(toClient),
         NEW r \in pending, r.id = Head(toClient).id, pending' = pending \ {r},
         offered' = IF Head(toClient).kind = "actions"
                    THEN [uri |-> r.uri, version |-> r.version,
                          edits |-> Head(toClient).edits]
                    ELSE offered
  PROVE  Offers'
<1>1. /\ toClient[1] = Head(toClient) /\ 1 \in DOMAIN toClient
      /\ \A k \in DOMAIN toClient' : k + 1 \in DOMAIN toClient /\ toClient'[k] = toClient[k + 1]
  BY Popped
<1>2. CASE Head(toClient).kind = "actions"
  <2>1. Head(toClient) \in AnswerMessage /\ r \in ActionRequest
    BY <1>1, <1>2, AnswerIsFor
  <2>2. FitsIn(editor, sent, r.uri, r.version, Head(toClient).edits)
    BY <1>1, <1>2 DEF Offers
  <2>3. r.uri \in Uri /\ r.version \in Nat /\ Head(toClient).edits \subseteq Edit
    BY <2>1 DEF ActionRequest, AnswerMessage
  <2> QED
    BY <1>1, <1>2, <2>2, <2>3 DEF Offers
<1>3. CASE Head(toClient).kind # "actions"
  BY <1>1, <1>3 DEF Offers
<1> QED
  BY <1>2, <1>3

-----------------------------------------------------------------------------
(* The invariant                                                           *)

Channels ==
  /\ file \in [words: SUBSET Word, held: BOOLEAN]
  /\ toServer \in Seq(ClientMessage)
  /\ toClient \in Seq(ServerMessage)
  /\ pending \subseteq Requests
  /\ phase \in Working => job \in AddRequest
  /\ phase = "idle" => job = None

Inv == OnlyFeeds /\ TypeOK /\ Channels /\ Talk /\ Sync /\ Offers

(* What the lemmas above ask for.                                          *)
LEMMA InvGives ==
  ASSUME Inv
  PROVE  /\ OnlyFeeds /\ TypeOK /\ Channels /\ Talk /\ Sync /\ Offers
         /\ toServer \in Seq(ClientMessage) /\ toClient \in Seq(ServerMessage)
         /\ pending \subseteq Requests /\ sent \in Nat
         /\ editor \in Texts /\ documents \in Texts
  BY LspAssumption DEF Inv, TypeOK, Channels, Texts

(* What the server has when it takes a message in.                         *)
LEMMA TakenIn ==
  ASSUME Inv, NEW m, Idle(m)
  PROVE  /\ phase = "idle" /\ phase # "down" /\ toServer # <<>>
         /\ toServer' = Tail(toServer) /\ toServer' \in Seq(ClientMessage)
         /\ Head(toServer) \in ClientMessage /\ Head(toServer).m = m
         /\ Meant(documents, Head(toServer)) /\ documents \in FreshTexts
  BY InvGives, Popped, SyncNext DEF Idle

LEMMA OnePublished ==
  ASSUME NEW msg \in PublishMessage
  PROVE  <<msg>> \in Seq(PublishMessage)
  OBVIOUS

(* Every handler of a notification: what it takes in, and what it          *)
(* publishes.                                                              *)
LEMMA Notified ==
  ASSUME Inv, NEW m \in {"didOpen", "didChange", "didClose", "configure"}, Idle(m),
         NEW messages \in Seq(PublishMessage), Send(messages), phase' \in {"idle", "down"},
         UNCHANGED <<job, file, client>>,
         documents' = After(documents, Head(toServer)), TypeOK'
  PROVE  Inv'
<1>1. /\ messages \in Seq(ServerMessage) /\ \A l \in DOMAIN messages : messages[l].m # "answer"
  BY Published
<1>2. toClient' = toClient \o messages /\ toClient' \in Seq(ServerMessage)
  BY <1>1, InvGives, Joined DEF Send
<1>3. UNCHANGED <<editor, pending, offered, sent>>
  BY DEF client
<1>4. Channels'
  BY <1>2, <1>3, TakenIn, InvGives DEF Channels, Working
<1>5. Head(toServer) \notin Requests
  BY TakenIn, ClientMessageKinds
<1>6. Talk'
  BY <1>2, <1>3, <1>5, TakenIn, InvGives, TalkNotified
<1>7. Sync'
  BY <1>3, TakenIn, InvGives, SyncTaken
<1>8. Offers'
  BY <1>1, <1>2, <1>3, InvGives, OffersPublish
<1> QED
  BY <1>4, <1>6, <1>7, <1>8 DEF Inv

LEMMA StepDidOpen ==
  ASSUME Inv, DidOpen
  PROVE  Inv'
<1> DEFINE msg == Head(toServer)
           messages == <<Publish(msg.uri, msg.text, Known)>>
<1>1. Idle("didOpen") /\ msg \in OpenMessage
  BY TakenIn, ClientMessageKinds DEF DidOpen
<1>2. msg.uri \in Uri /\ msg.version \in Nat /\ msg.text \in Seq(Word)
  BY <1>1 DEF OpenMessage
<1>3. messages \in Seq(PublishMessage)
  BY <1>2, PublishType, OnePublished
<1>4. documents' = After(documents, msg)
  BY <1>1, TakenIn DEF DidOpen, After
<1>5. documents' \in Texts
  BY <1>1, <1>4, TakenIn, InvGives, AfterType
<1>6. TypeOK'
  BY <1>5, InvGives DEF DidOpen, TypeOK, client, disk, Texts
<1>7. Send(messages) /\ phase' \in {"idle", "down"} /\ UNCHANGED <<job, file, client>>
  BY <1>1, TakenIn DEF DidOpen, disk
<1> QED
  BY <1>1, <1>3, <1>4, <1>6, <1>7, Notified

LEMMA StepDidChange ==
  ASSUME Inv, DidChange
  PROVE  Inv' /\ phase' # "down"
<1> DEFINE msg == Head(toServer)
           doc == documents[msg.uri]
<1>1. Idle("didChange") /\ msg \in ChangeMessage
  BY TakenIn, ClientMessageKinds DEF DidChange
<1>2. msg.uri \in Uri /\ msg.version \in Nat
  BY <1>1 DEF ChangeMessage
<1>3. doc # None /\ \E t \in Seq(Word) : Applied(doc.text, msg.changes) = {t}
  BY <1>1, TakenIn DEF Meant
<1>4. PICK text \in Seq(Word) : Applied(doc.text, msg.changes) = {text}
  BY <1>3
<1> DEFINE messages == <<Publish(msg.uri, text, Known)>>
<1>5. messages \in Seq(PublishMessage)
  BY <1>2, <1>4, PublishType, OnePublished
<1>6. /\ documents' = [documents EXCEPT ![msg.uri] = [version |-> msg.version, text |-> text]]
      /\ Send(messages) /\ UNCHANGED phase
  BY <1>3, <1>4 DEF DidChange
<1>7. documents' = After(documents, msg)
  <2>1. (CHOOSE t : t \in Applied(doc.text, msg.changes)) = text
    BY <1>4
  <2>2. msg.m = "didChange"
    BY <1>1, TakenIn
  <2>3. After(documents, msg) =
          [documents EXCEPT ![msg.uri] =
             [version |-> msg.version,
              text |-> CHOOSE t : t \in Applied(documents[msg.uri].text, msg.changes)]]
    BY <2>2 DEF After
  <2> QED
    BY <1>6, <2>1, <2>3
<1>8. documents' \in Texts
  BY <1>1, <1>7, TakenIn, InvGives, AfterType
<1>9. TypeOK'
  BY <1>6, <1>8, InvGives DEF DidChange, TypeOK, client, disk, Texts
<1>10. phase' = "idle" /\ UNCHANGED <<job, file, client>>
  BY <1>1, <1>6, TakenIn DEF DidChange, disk
<1> HIDE DEF messages
<1> QED
  BY <1>1, <1>5, <1>6, <1>7, <1>9, <1>10, Notified

LEMMA StepDidClose ==
  ASSUME Inv, DidClose
  PROVE  Inv'
<1> DEFINE msg == Head(toServer)
           messages == <<[m |-> "publish", uri |-> msg.uri, diagnostics |-> {}]>>
<1>1. Idle("didClose") /\ msg.uri \in Uri
  BY TakenIn, ClientMessageKinds DEF DidClose, CloseMessage
<1>2. messages \in Seq(PublishMessage)
  BY <1>1, OnePublished DEF PublishMessage, Diagnostics
<1>3. documents' = After(documents, msg)
  BY <1>1, TakenIn DEF DidClose, After
<1>4. documents' \in Texts
  BY <1>1, <1>3, TakenIn, InvGives, AfterType
<1>5. TypeOK'
  BY <1>4, InvGives DEF DidClose, TypeOK, client, disk, Texts
<1>6. Send(messages) /\ phase' \in {"idle", "down"} /\ UNCHANGED <<job, file, client>>
  BY <1>1, TakenIn DEF DidClose, disk
<1> QED
  BY <1>1, <1>2, <1>3, <1>5, <1>6, Notified

LEMMA StepConfigure ==
  ASSUME Inv, DidChangeConfiguration
  PROVE  Inv'
<1> DEFINE msg == Head(toServer)
           config == msg.config
           messages == PublishAll(documents, base' \cup user' \cup ignored')
<1>1. Idle("configure") /\ config \in Config
  BY TakenIn, ClientMessageKinds DEF DidChangeConfiguration, ConfigureMessage
<1>2. config.words \subseteq Word /\ config.ignored \subseteq Word /\ config.path \in BOOLEAN
  BY <1>1, LspAssumption
<1>3. messages \in Seq(PublishMessage)
  BY InvGives, PublishAllType
<1>4. documents' = After(documents, msg)
  BY <1>1, TakenIn DEF DidChangeConfiguration, After
<1>5. file.words \subseteq Word /\ file.held \in BOOLEAN
  BY InvGives DEF TypeOK
<1>6. \A words \in Reloaded : words \subseteq Word
  BY <1>5 DEF Reloaded
<1>7. user' \subseteq Word /\ base' \in (SUBSET Word) \ {{}} /\ ignored' \subseteq Word
      /\ path' \in BOOLEAN
  <2>1. /\ base' = IF config.words = {} THEN base ELSE config.words
        /\ ignored' = config.ignored /\ path' = (path \/ config.path)
        /\ user' \in IF config.path THEN Reloaded ELSE {user}
    BY DEF DidChangeConfiguration
  <2>2. base \in (SUBSET Word) \ {{}} /\ user \subseteq Word /\ path \in BOOLEAN
    BY InvGives DEF TypeOK
  <2>3. path' \in BOOLEAN
    BY <2>1
  <2> HIDE DEF config
  <2>4. base' \in (SUBSET Word) \ {{}}
    <3>1. CASE config.words = {}
      BY <2>1, <2>2, <3>1
    <3>2. CASE config.words # {}
      <4>1. base' = config.words
        BY <2>1, <3>2
      <4> QED
        BY <1>2, <3>2, <4>1
    <3> QED
      BY <3>1, <3>2
  <2>5. user' \subseteq Word
    BY <1>6, <2>1, <2>2
  <2> QED
    BY <1>2, <2>1, <2>3, <2>4, <2>5
<1>8. torn' \in {"no", "torn", "lost"}
  BY InvGives DEF DidChangeConfiguration, GivenUp, TypeOK
<1>9. TypeOK'
  BY <1>7, <1>8, InvGives DEF DidChangeConfiguration, TypeOK, client
<1>10. Send(messages) /\ phase' \in {"idle", "down"} /\ UNCHANGED <<job, file, client>>
  BY <1>1, TakenIn DEF DidChangeConfiguration, ConfigurePublishes
<1> HIDE DEF messages
<1> QED
  BY <1>1, <1>3, <1>4, <1>9, <1>10, Notified

(* A request the server answers at once, but for code actions with an error. *)
LEMMA AnsweredAtOnce ==
  ASSUME Inv, NEW m \in {"codeAction", "add", "other"}, Idle(m),
         NEW kind \in {"actions", "error"}, NEW edits \in SUBSET Edit,
         Send(<<Answer(Head(toServer), kind, edits)>>),
         kind = "actions" => /\ m = "codeAction"
                             /\ FitsIn(editor, sent, Head(toServer).uri,
                                       Head(toServer).version, edits),
         UNCHANGED <<phase, job, base, user, ignored, path, documents, disk, client>>
  PROVE  Inv'
<1> DEFINE msg == Head(toServer)
           a == Answer(msg, kind, edits)
<1>1. msg \in Requests /\ msg.id \in Nat
  BY TakenIn, ClientMessageKinds, RequestKinds
<1>2. a \in AnswerMessage /\ a \in ServerMessage /\ a.kind = kind /\ a.id = msg.id
  BY <1>1 DEF Answer, AnswerMessage, ServerMessage
<1>3. toClient' = toClient \o <<a>> /\ toClient' = Append(toClient, a)
      /\ toClient' \in Seq(ServerMessage)
  <2> HIDE DEF a
  <2>1. toClient' = toClient \o <<a>>
    BY DEF Send, a
  <2> QED
    BY <1>2, <2>1, InvGives, AppendIsConcat, Pushed
<1>4. UNCHANGED <<editor, pending, offered, sent, documents, phase, job>>
  BY DEF client
<1>5. TypeOK'
  BY InvGives DEF TypeOK, client, disk
<1>6. Channels'
  BY <1>3, <1>4, TakenIn, InvGives DEF Channels, disk, Working
<1>7. Talk'
  <2>1. AnswersTo(a, msg)
    BY <1>1, <1>2, TakenIn DEF AnswersTo
  <2> HIDE DEF a
  <2> QED
    BY <1>1, <1>2, <1>3, <1>4, <2>1, TakenIn, InvGives, TalkAnswered
<1>8. Sync'
  <2>1. documents' = After(documents, msg)
    BY <1>4, TakenIn DEF After
  <2> QED
    BY <1>4, <2>1, TakenIn, InvGives, SyncTaken
<1>9. Offers'
  <2>1. CASE kind = "actions"
    <3>1. msg \in ActionRequest /\ msg \in pending
      <4>1. 1 \in DOMAIN toServer /\ toServer[1] = msg
        BY TakenIn, InvGives, Popped
      <4> QED
        BY <1>1, <2>1, <4>1, TakenIn, InvGives, ClientMessageKinds DEF Talk, Asked
    <3>2. toClient' = Append(toClient, Answer(msg, "actions", edits))
      BY <1>3, <2>1
    <3> QED
      BY <1>4, <2>1, <3>1, <3>2, InvGives, OffersAnswered
  <2>2. CASE kind # "actions"
    <3> DEFINE messages == <<a>>
    <3>1. messages \in Seq(ServerMessage) /\ toClient' = toClient \o messages
      BY <1>2, <1>3
    <3>2. \A l \in DOMAIN messages : messages[l].m = "answer" => messages[l].kind # "actions"
      BY <1>2, <2>2
    <3> HIDE DEF messages
    <3> QED
      BY <1>4, <3>1, <3>2, InvGives, OffersPublish
  <2> QED
    BY <2>1, <2>2
<1> QED
  BY <1>5, <1>6, <1>7, <1>8, <1>9 DEF Inv

(* The server answers with edits that fit the version asked about.         *)
LEMMA ActionsFit ==
  ASSUME Inv, CodeAction
  PROVE  \E edits \in SUBSET Edit :
           /\ Send(<<Answer(Head(toServer), "actions", edits)>>)
           /\ FitsIn(editor, sent, Head(toServer).uri, Head(toServer).version, edits)
<1> DEFINE msg == Head(toServer)
           doc == documents[msg.uri]
           hits == IF doc = None THEN {}
                   ELSE {f \in FindingsIn(doc.text, Known) : f[1] = msg.at}
           edits == UNION {EditsFor(doc.text, f) : f \in hits}
<1>1. Idle("codeAction") /\ msg \in ActionRequest
  BY TakenIn, ClientMessageKinds DEF CodeAction
<1>2. msg.uri \in Uri /\ msg.version \in Nat
  BY <1>1 DEF ActionRequest
<1>3. doc # None /\ doc.version = msg.version
  BY <1>1, TakenIn DEF Meant
<1>4. doc.text \in Seq(Word)
  BY <1>2, <1>3, InvGives DEF Texts, Doc
<1>5. base \in SUBSET Word
  BY InvGives DEF TypeOK
<1>6. \A e \in edits : e \in Edit /\ Fits(doc.text, e)
  <2> SUFFICES ASSUME NEW f \in hits, NEW e \in EditsFor(doc.text, f)
               PROVE  e \in Edit /\ Fits(doc.text, e)
    OBVIOUS
  <2>1. f \in FindingsIn(doc.text, Known)
    BY <1>3
  <2> HIDE DEF doc, hits
  <2> QED
    BY <1>4, <1>5, <2>1, EditsType
<1>7. FitsIn(editor, sent, msg.uri, msg.version, edits)
  <2>1. /\ doc.version < sent
        /\ editor[msg.uri] # None /\ editor[msg.uri].version = doc.version => editor[msg.uri] = doc
    BY <1>1, <1>2, <1>3, TakenIn DEF FreshTexts
  <2> HIDE DEF edits, doc
  <2> QED
    BY <1>3, <1>6, <2>1 DEF FitsIn
<1>8. Send(<<Answer(msg, "actions", edits)>>)
  BY Zenon DEF CodeAction
<1>9. edits \in SUBSET Edit
  BY <1>6
<1> HIDE DEF edits
<1> QED
  BY <1>7, <1>8, <1>9

LEMMA StepCodeAction ==
  ASSUME Inv, CodeAction
  PROVE  Inv'
<1>1. PICK edits \in SUBSET Edit :
        /\ Send(<<Answer(Head(toServer), "actions", edits)>>)
        /\ FitsIn(editor, sent, Head(toServer).uri, Head(toServer).version, edits)
  BY ActionsFit
<1>2. Idle("codeAction")
      /\ UNCHANGED <<phase, job, base, user, ignored, path, documents, disk, client>>
  BY Zenon DEF CodeAction
<1> QED
  BY <1>1, <1>2, AnsweredAtOnce

LEMMA StepUnsupported ==
  ASSUME Inv, Unsupported
  PROVE  Inv'
<1>1. Idle("other") /\ Send(<<Answer(Head(toServer), "error", {})>>)
      /\ UNCHANGED <<phase, job, base, user, ignored, path, documents, disk, client>>
  BY Zenon DEF Unsupported
<1> QED
  BY <1>1, AnsweredAtOnce

LEMMA StepAddToDictionary ==
  ASSUME Inv, AddToDictionary
  PROVE  Inv' /\ phase' # "down"
<1> DEFINE msg == Head(toServer)
<1>1. Idle("add") /\ msg \in AddRequest
  BY TakenIn, ClientMessageKinds DEF AddToDictionary
<1>2. CASE msg.word \in Invalid
  <2>1. Send(<<Answer(msg, "error", {})>>)
        /\ UNCHANGED <<phase, job, base, user, ignored, path, documents, disk, client>>
    BY <1>2 DEF AddToDictionary
  <2> QED
    BY <1>1, <2>1, TakenIn, AnsweredAtOnce
<1>3. CASE msg.word \notin Invalid
  <2>1. /\ user' = user \cup {msg.word} /\ job' = msg
        /\ phase' = IF path THEN "open" ELSE "reply"
        /\ UNCHANGED <<toClient, base, ignored, path, documents, disk, client>>
    BY <1>3 DEF AddToDictionary
  <2>2. UNCHANGED <<editor, shown, pending, offered, sent, acked, silenced, file, torn>>
    BY <2>1 DEF client, disk
  <2>3. phase' \in Working /\ msg.word \in Word
    BY <1>1, <2>1 DEF Working, AddRequest
  <2>4. TypeOK'
    BY <2>1, <2>2, <2>3, InvGives DEF TypeOK
  <2>5. Channels'
    BY <1>1, <2>1, <2>2, <2>3, TakenIn, InvGives DEF Channels
  <2>6. Talk'
    BY <1>1, <2>1, <2>2, <2>3, TakenIn, InvGives, TalkBegun, ClientMessageKinds
  <2>7. Sync'
    <3>1. documents' = After(documents, msg)
      BY <1>1, <2>1, TakenIn DEF After
    <3> QED
      BY <1>1, <2>2, <3>1, TakenIn, InvGives, SyncTaken
  <2>8. Offers'
    BY <2>1, <2>2, InvGives, OffersKept
  <2> QED
    BY <2>1, <2>4, <2>5, <2>6, <2>7, <2>8 DEF Inv
<1> QED
  BY <1>2, <1>3

(* The file is opened or written, or the server ends.                      *)
LEMMA WorksOn ==
  ASSUME Inv, UNCHANGED <<job, base, user, ignored, path, documents, toServer, toClient, client>>,
         TypeOK', file' \in [words: SUBSET Word, held: BOOLEAN],
         \/ phase' = "down"
         \/ phase # "down" /\ (phase \in Working <=> phase' \in Working) /\ phase' # "idle"
  PROVE  Inv'
<1>1. UNCHANGED <<editor, pending, offered, sent>>
  BY DEF client
<1>2. Channels'
  BY <1>1, InvGives DEF Channels, Working
<1>3. Talk'
  BY <1>1, InvGives, TalkGoesOn
<1>4. Sync'
  BY <1>1, InvGives, SyncStays
<1>5. Offers'
  BY <1>1, InvGives, OffersKept
<1> QED
  BY <1>2, <1>3, <1>4, <1>5 DEF Inv

LEMMA StepOpenFile ==
  ASSUME Inv, OpenFile
  PROVE  Inv'
<1>1. file' \in [words: SUBSET Word, held: BOOLEAN]
  BY DEF OpenFile
<1>2. TypeOK'
  BY <1>1, InvGives DEF OpenFile, TypeOK, client
<1> QED
  BY <1>1, <1>2, WorksOn DEF OpenFile, Working

LEMMA StepWriteFile ==
  ASSUME Inv, WriteFile
  PROVE  Inv'
<1>1. file' \in [words: SUBSET Word, held: BOOLEAN]
  BY InvGives DEF WriteFile, Persisted, TypeOK, Channels
<1>2. TypeOK'
  BY <1>1, InvGives DEF WriteFile, TypeOK, client
<1> QED
  BY <1>1, <1>2, WorksOn DEF WriteFile, Working

LEMMA StepCrash ==
  ASSUME Inv, Crash
  PROVE  Inv'
<1>1. file' \in [words: SUBSET Word, held: BOOLEAN]
  BY InvGives DEF Crash, Channels
<1>2. TypeOK'
  BY <1>1, InvGives DEF Crash, GivenUp, TypeOK, client
<1> QED
  BY <1>1, <1>2, WorksOn DEF Crash

(* The server is done with a word, with what it publishes and an answer.   *)
LEMMA WorkEnds ==
  ASSUME Inv, phase \in Working, phase' = "idle", job' = None,
         file' \in [words: SUBSET Word, held: BOOLEAN],
         NEW messages \in Seq(PublishMessage), NEW kind \in {"error", "added"},
         Send(Append(messages, Answer(job, kind, {}))), acked' \subseteq Word,
         UNCHANGED <<base, user, ignored, path, documents, torn, toServer>>,
         UNCHANGED <<editor, shown, pending, offered, sent, silenced>>
  PROVE  Inv'
<1> DEFINE a == Answer(job, kind, {})
           all == Append(messages, a)
<1>1. job \in AddRequest /\ job.id \in Nat
  BY InvGives DEF Channels, AddRequest
<1>2. a \in AnswerMessage /\ a.kind = kind /\ a.id = job.id /\ a \in ServerMessage
  BY <1>1 DEF Answer, AnswerMessage, ServerMessage
<1> HIDE DEF a
<1>3. all \in Seq(ServerMessage)
      /\ \A l \in DOMAIN all : all[l].m = "answer" => all[l].kind # "actions"
  <2>1. /\ messages \in Seq(ServerMessage)
        /\ \A l \in DOMAIN messages : messages[l].m # "answer"
    BY Published
  <2>2. /\ all \in Seq(ServerMessage)
        /\ DOMAIN all = DOMAIN messages \cup {Len(messages) + 1}
        /\ \A l \in DOMAIN messages : all[l] = messages[l]
        /\ all[Len(messages) + 1] = a
    BY <1>2, <2>1, Pushed
  <2> HIDE DEF all
  <2> QED
    BY <1>2, <2>1, <2>2
<1>4. toClient' = toClient \o all
  BY DEF Send, a
<1>5. TypeOK'
  BY InvGives DEF TypeOK
<1>6. Channels'
  <2>1. toClient' \in Seq(ServerMessage)
    BY <1>3, <1>4, InvGives, Joined
  <2> QED
    BY <2>1, InvGives DEF Channels, Working
<1>7. Talk'
  <2>1. AnswersTo(a, job)
    BY <1>2 DEF AnswersTo
  <2> QED
    BY <1>2, <1>4, <2>1, InvGives, TalkFinished
<1>8. Sync'
  BY InvGives, SyncStays DEF Working
<1>9. Offers'
  <2> HIDE DEF all
  <2> QED
    BY <1>3, <1>4, InvGives, OffersPublish
<1> QED
  BY <1>5, <1>6, <1>7, <1>8, <1>9 DEF Inv

LEMMA StepPersistFails ==
  ASSUME Inv, PersistFails
  PROVE  Inv'
<1> DEFINE a == Answer(job, "error", {})
           messages == <<>>
<1>1. phase \in Working /\ job \in AddRequest
  BY InvGives DEF PersistFails, Working, Channels
<1>2. file' \in [words: SUBSET Word, held: BOOLEAN]
  BY InvGives DEF PersistFails, Channels
<1>3. messages \in Seq(PublishMessage) /\ <<a>> = Append(messages, a)
  OBVIOUS
<1>4. Send(Append(messages, a)) /\ acked' \subseteq Word
  BY <1>3, InvGives DEF PersistFails, client, TypeOK
<1> HIDE DEF messages
<1> QED
  BY <1>1, <1>2, <1>3, <1>4, WorkEnds DEF PersistFails, client

LEMMA StepReply ==
  ASSUME Inv, Reply
  PROVE  Inv'
<1> DEFINE messages == PublishAll(documents, Known)
<1>1. phase \in Working /\ job \in AddRequest
  BY InvGives DEF Reply, Working, Channels
<1>2. messages \in Seq(PublishMessage)
  BY InvGives, PublishAllType
<1>3. Send(Append(messages, Answer(job, "added", {})))
  BY DEF Reply, Replies
<1>4. acked' \subseteq Word
  BY <1>1, InvGives DEF Reply, TypeOK, AddRequest
<1>5. file' \in [words: SUBSET Word, held: BOOLEAN]
  BY InvGives DEF Reply, disk, Channels
<1> HIDE DEF messages
<1> QED
  BY <1>1, <1>2, <1>3, <1>4, <1>5, WorkEnds DEF Reply, disk

(* The client sends a message that is no request, and edits accordingly.    *)
LEMMA ClientNotifies ==
  ASSUME Inv, NEW msg \in ClientMessage \ Requests, Ask(msg), Meant(editor, msg),
         editor' = After(editor, msg),
         \A v \in Uri : \/ editor'[v] = editor[v] \/ editor'[v] = None
                        \/ editor'[v].version = sent,
         UNCHANGED <<shown, pending, offered, acked>>, silenced' \in [Uri -> SUBSET Word]
  PROVE  Inv'
<1>1. /\ phase # "down" /\ sent < MaxSent /\ sent' = sent + 1
      /\ toServer' = Append(toServer, msg) /\ toServer' \in Seq(ClientMessage)
      /\ UNCHANGED <<phase, job, base, user, ignored, path, documents, file, torn, toClient>>
  BY InvGives, Pushed DEF Ask, server, disk
<1>2. editor' \in Texts
  BY InvGives, AfterType
<1>3. sent' \in 0..MaxSent
  BY <1>1, InvGives, LspAssumption
<1>4. TypeOK'
  BY <1>1, <1>2, <1>3, InvGives DEF TypeOK, Texts
<1>5. Channels'
  BY <1>1, InvGives DEF Channels
<1>6. Talk'
  BY <1>1, InvGives, TalkNotify
<1>7. Sync'
  BY <1>1, InvGives, SyncSent
<1>8. Offers'
  BY <1>1, InvGives, OffersKept
<1> QED
  BY <1>4, <1>5, <1>6, <1>7, <1>8 DEF Inv

LEMMA StepOpenDocument ==
  ASSUME Inv, NEW u \in Uri, NEW text \in Text, OpenDocument(u, text)
  PROVE  Inv'
<1> DEFINE msg == [m |-> "didOpen", uri |-> u, version |-> sent, text |-> text]
<1>1. msg \in OpenMessage
  BY InvGives, LspAssumption DEF OpenMessage
<1>2. msg \in ClientMessage \ Requests /\ msg.m = "didOpen"
  BY <1>1, ClientMessageKinds DEF ClientMessage
<1>3. Meant(editor, msg) /\ editor' = After(editor, msg) /\ Ask(msg)
  BY DEF OpenDocument, Meant, After
<1>4. \A v \in Uri : editor'[v] = editor[v] \/ editor'[v].version = sent
  BY InvGives DEF OpenDocument, Texts
<1>5. silenced' \in [Uri -> SUBSET Word]
  BY InvGives DEF OpenDocument, TypeOK
<1> HIDE DEF msg
<1> QED
  BY <1>2, <1>3, <1>4, <1>5, ClientNotifies DEF OpenDocument

LEMMA ChangesDocument ==
  ASSUME Inv, NEW u \in Uri, editor[u] # None, NEW edits \in ShortChanges,
         AllFit(editor[u].text, edits), ChangeDocument(u, edits),
         silenced' \in [Uri -> SUBSET Word]
  PROVE  Inv'
<1> DEFINE changes == Positioned(editor[u].text, edits)
           msg == [m |-> "didChange", uri |-> u, version |-> sent, changes |-> changes]
<1>1. editor[u].text \in Seq(Word)
  BY InvGives DEF Texts, Doc
<1>2. /\ changes \in Seq(SentChange)
      /\ Edited(editor[u].text, edits) \in Seq(Word)
      /\ Applied(editor[u].text, changes) = {Edited(editor[u].text, edits)}
  BY <1>1, Delivered, InvGives
<1>3. editor' = [editor EXCEPT
                   ![u] = [version |-> sent, text |-> Edited(editor[u].text, edits)]]
      /\ Ask(msg) /\ UNCHANGED <<shown, pending, offered, acked>>
  BY DEF ChangeDocument
<1> HIDE DEF changes
<1>4. msg \in ChangeMessage
  BY <1>2, InvGives DEF ChangeMessage
<1>5. msg \in ClientMessage \ Requests /\ msg.m = "didChange"
  BY <1>4, ClientMessageKinds DEF ClientMessage
<1>6. Meant(editor, msg)
  BY <1>2 DEF Meant
<1>7. editor' = After(editor, msg)
  <2>1. (CHOOSE t : t \in Applied(editor[u].text, changes)) = Edited(editor[u].text, edits)
    BY <1>2
  <2> QED
    BY <1>3, <2>1 DEF After
<1>8. \A v \in Uri : editor'[v] = editor[v] \/ editor'[v].version = sent
  BY <1>3, InvGives DEF Texts
<1> HIDE DEF msg
<1> QED
  BY <1>3, <1>5, <1>6, <1>7, <1>8, ClientNotifies

LEMMA StepEditDocument ==
  ASSUME Inv, NEW u \in Uri, EditDocument(u)
  PROVE  Inv'
<1>1. PICK changes \in Changes(editor[u].text) : ChangeDocument(u, changes)
  BY DEF EditDocument
<1>2. editor[u].text \in Seq(Word) /\ editor[u] # None
  BY InvGives DEF EditDocument, Texts, Doc
<1>3. changes \in ShortChanges /\ AllFit(editor[u].text, changes)
  BY <1>2, TypedFits
<1>4. silenced' \in [Uri -> SUBSET Word]
  BY InvGives DEF EditDocument, TypeOK
<1> QED
  BY <1>1, <1>2, <1>3, <1>4, ChangesDocument

LEMMA StepApplyAction ==
  ASSUME Inv, NEW edit \in offered.edits, ApplyAction(edit)
  PROVE  Inv'
<1> DEFINE u == offered.uri
           c == [whole |-> FALSE, from |-> edit.from, to |-> edit.to, new |-> edit.new]
<1>1. /\ editor[u] # None /\ editor[u].version = offered.version
      /\ ChangeDocument(u, <<c>>)
      /\ silenced' = [silenced EXCEPT
                        ![u] = IF Len(edit.new) = 4 THEN {edit.new[3]} ELSE {}]
  BY DEF ApplyAction
<1>2. u \in Uri /\ edit \in Edit /\ Fits(editor[u].text, edit)
  BY <1>1, InvGives DEF Offers, FitsIn
<1>3. c \in Change /\ Fits(editor[u].text, c)
  BY <1>2 DEF Edit, Change, Fits
<1>4. <<c>> \in ShortChanges /\ AllFit(editor[u].text, <<c>>)
  BY <1>3, OneFits
<1>5. silenced' \in [Uri -> SUBSET Word]
  <2>1. Len(edit.new) = 4 => edit.new[3] \in Word
    BY <1>2 DEF Edit
  <2>2. silenced \in [Uri -> SUBSET Word]
    BY InvGives DEF TypeOK
  <2> QED
    BY <1>1, <2>1, <2>2
<1> HIDE DEF u, c
<1> QED
  BY <1>1, <1>2, <1>4, <1>5, ChangesDocument

LEMMA StepCloseDocument ==
  ASSUME Inv, NEW u \in Uri, CloseDocument(u)
  PROVE  Inv'
<1> DEFINE msg == [m |-> "didClose", uri |-> u]
<1>1. msg \in CloseMessage
  BY DEF CloseMessage
<1>2. msg \in ClientMessage \ Requests /\ msg.m = "didClose"
  BY <1>1, ClientMessageKinds DEF ClientMessage
<1>3. Meant(editor, msg) /\ editor' = After(editor, msg) /\ Ask(msg)
  BY DEF CloseDocument, Meant, After
<1>4. \A v \in Uri : editor'[v] = editor[v] \/ editor'[v] = None
  BY InvGives DEF CloseDocument, Texts
<1>5. silenced' \in [Uri -> SUBSET Word]
  BY InvGives DEF CloseDocument, TypeOK
<1> HIDE DEF msg
<1> QED
  BY <1>2, <1>3, <1>4, <1>5, ClientNotifies DEF CloseDocument

LEMMA StepClientConfigures ==
  ASSUME Inv, NEW config \in Config, Configure(config)
  PROVE  Inv'
<1> DEFINE msg == [m |-> "configure", config |-> config]
<1>1. msg \in ConfigureMessage
  BY DEF ConfigureMessage
<1>2. msg \in ClientMessage \ Requests /\ msg.m = "configure"
  BY <1>1, ClientMessageKinds DEF ClientMessage
<1>3. Meant(editor, msg) /\ editor' = After(editor, msg) /\ Ask(msg)
  BY DEF Configure, Meant, After
<1>4. silenced' \in [Uri -> SUBSET Word]
  BY InvGives DEF Configure, TypeOK
<1> HIDE DEF msg
<1> QED
  BY <1>2, <1>3, <1>4, ClientNotifies DEF Configure

(* The client sends a request.                                             *)
LEMMA ClientRequests ==
  ASSUME Inv, NEW msg \in Requests, msg.id = sent, Request(msg), Meant(editor, msg),
         msg.m = "codeAction" => msg.version < sent
  PROVE  Inv'
<1>1. /\ phase # "down" /\ sent < MaxSent /\ sent' = sent + 1 /\ msg \in ClientMessage
      /\ toServer' = Append(toServer, msg) /\ toServer' \in Seq(ClientMessage)
      /\ UNCHANGED <<phase, job, base, user, ignored, path, documents, file, torn, toClient>>
      /\ pending' = pending \cup {msg}
      /\ UNCHANGED <<editor, shown, offered, acked, silenced>>
  BY InvGives, RequestKinds, Pushed DEF Request, Ask, server, disk
<1>2. sent' \in 0..MaxSent
  BY <1>1, InvGives, LspAssumption
<1>3. TypeOK'
  BY <1>1, <1>2, InvGives DEF TypeOK
<1>4. Channels'
  BY <1>1, InvGives DEF Channels
<1>5. Talk'
  BY <1>1, InvGives, TalkRequest
<1>6. Sync'
  <2>1. msg.m \in {"codeAction", "add", "other"}
    BY RequestKinds
  <2>2. editor' = After(editor, msg)
    BY <1>1, <2>1 DEF After
  <2> QED
    BY <1>1, <2>2, InvGives, SyncSent
<1>7. Offers'
  <2>1. \A r \in pending' : \/ r \in pending
                            \/ r.id = sent /\ (r.m = "codeAction" => r.version < sent')
    <3>1. msg.m = "codeAction" => msg.version < sent + 1
      BY RequestKinds, InvGives DEF ActionRequest
    <3> QED
      BY <1>1, <3>1
  <2> QED
    BY <1>1, <2>1, InvGives, OffersKept
<1> QED
  BY <1>3, <1>4, <1>5, <1>6, <1>7 DEF Inv

LEMMA StepRequestActions ==
  ASSUME Inv, NEW u \in Uri, NEW i \in 1..MaxText, RequestActions(u, i)
  PROVE  Inv'
<1> DEFINE msg == [m |-> "codeAction", id |-> sent, uri |-> u, at |-> i,
                   version |-> editor[u].version]
<1>1. editor[u] \in Doc /\ editor[u].version < sent
  BY InvGives DEF RequestActions, Texts, Sync
<1>2. msg \in ActionRequest
  <2>1. i \in Nat
    BY LspAssumption
  <2> QED
    BY <1>1, <2>1, InvGives DEF ActionRequest, Doc
<1>3. msg \in Requests
  BY <1>2 DEF Requests
<1>4. Meant(editor, msg) /\ msg.version < sent /\ msg.id = sent /\ Request(msg)
  BY <1>1 DEF RequestActions, Meant
<1> HIDE DEF msg
<1> QED
  BY <1>3, <1>4, ClientRequests

LEMMA StepRequestAdd ==
  ASSUME Inv, NEW w \in Word, RequestAdd(w)
  PROVE  Inv'
<1> DEFINE msg == [m |-> "add", id |-> sent, word |-> w]
<1>1. msg \in Requests
  BY InvGives DEF AddRequest, Requests
<1>2. Meant(editor, msg) /\ msg.m = "add" /\ msg.id = sent /\ Request(msg)
  BY DEF RequestAdd, Meant
<1> HIDE DEF msg
<1> QED
  BY <1>1, <1>2, ClientRequests

LEMMA StepRequestOther ==
  ASSUME Inv, RequestOther
  PROVE  Inv'
<1> DEFINE msg == [m |-> "other", id |-> sent]
<1>1. msg \in Requests
  BY InvGives DEF OtherRequest, Requests
<1>2. Meant(editor, msg) /\ msg.m = "other" /\ msg.id = sent /\ Request(msg)
  BY DEF RequestOther, Meant
<1> HIDE DEF msg
<1> QED
  BY <1>1, <1>2, ClientRequests

LEMMA StepShowDiagnostics ==
  ASSUME Inv, ShowDiagnostics
  PROVE  Inv'
<1>1. /\ toClient # <<>> /\ Head(toClient).m = "publish" /\ toClient' = Tail(toClient)
      /\ UNCHANGED <<phase, job, base, user, ignored, path, documents, file, torn, toServer>>
      /\ UNCHANGED <<editor, pending, offered, sent, acked, silenced>>
  BY DEF ShowDiagnostics, Received, server, disk
<1>2. /\ Head(toClient) \in PublishMessage /\ toClient' \in Seq(ServerMessage)
      /\ \A k \in DOMAIN toClient' : k + 1 \in DOMAIN toClient /\ toClient'[k] = toClient[k + 1]
  BY <1>1, InvGives, Popped, ServerMessageKinds
<1>3. shown' \in [Uri -> SUBSET (Nat \X Word)]
  BY <1>2, InvGives DEF ShowDiagnostics, PublishMessage, Diagnostics, TypeOK
<1>4. TypeOK'
  BY <1>1, <1>3, InvGives DEF TypeOK
<1>5. Channels'
  BY <1>1, <1>2, InvGives DEF Channels
<1>6. Talk'
  BY <1>1, InvGives, TalkShown
<1>7. Sync'
  BY <1>1, InvGives, SyncStays
<1>8. Offers'
  BY <1>1, <1>2, InvGives, OffersKept
<1> QED
  BY <1>4, <1>5, <1>6, <1>7, <1>8 DEF Inv

LEMMA StepReceiveAnswer ==
  ASSUME Inv, ReceiveAnswer
  PROVE  Inv'
<1>1. /\ toClient # <<>> /\ Head(toClient).m = "answer" /\ toClient' = Tail(toClient)
      /\ UNCHANGED <<phase, job, base, user, ignored, path, documents, file, torn, toServer>>
      /\ UNCHANGED <<editor, shown, sent, acked, silenced>>
  BY DEF ReceiveAnswer, Received, server, disk
<1>2. PICK r \in pending :
        /\ r.id = Head(toClient).id /\ pending' = pending \ {r}
        /\ offered' = IF Head(toClient).kind = "actions"
                      THEN [uri |-> r.uri, version |-> r.version,
                            edits |-> Head(toClient).edits]
                      ELSE offered
  BY DEF ReceiveAnswer
<1>3. toClient' \in Seq(ServerMessage)
  BY <1>1, InvGives, Popped
<1>4. TypeOK'
  BY <1>1, InvGives DEF TypeOK
<1>5. Channels'
  BY <1>1, <1>2, <1>3, InvGives DEF Channels
<1>6. Talk'
  BY <1>1, <1>2, InvGives, TalkOver
<1>7. Sync'
  BY <1>1, InvGives, SyncStays
<1>8. Offers'
  BY <1>1, <1>2, InvGives, OffersReceived
<1> QED
  BY <1>4, <1>5, <1>6, <1>7, <1>8 DEF Inv

LEMMA StepRestart ==
  ASSUME Inv, Restart
  PROVE  Inv'
<1>1. PICK config \in Config : Launch(config)
  BY DEF Restart
<1>2. config.words \subseteq Word /\ config.ignored \subseteq Word /\ config.path \in BOOLEAN
  BY LspAssumption
<1>3. /\ phase' = "idle" /\ job' = None
      /\ base' = WordList(config.words) /\ ignored' = config.ignored /\ path' = config.path
      /\ user' \in IF config.path THEN Reloaded ELSE {{}}
      /\ documents' = [u \in Uri |-> None]
  BY <1>1 DEF Launch
<1>4. /\ toServer' = Reopened /\ toClient' = <<>> /\ shown' = [u \in Uri |-> {}]
      /\ pending' = {} /\ offered' = NoOffer
      /\ UNCHANGED <<file, torn, editor, sent, acked, silenced>>
  BY DEF Restart, Reopened, disk
<1>5. base' \in (SUBSET Word) \ {{}}
  BY <1>2, <1>3, LspAssumption DEF WordList
<1>6. user' \subseteq Word
  <2>1. \A words \in Reloaded : words \subseteq Word
    BY InvGives DEF Reloaded, TypeOK
  <2> QED
    BY <1>3, <2>1
<1>7. documents' \in Texts /\ shown' \in [Uri -> SUBSET (Nat \X Word)]
  BY <1>3, <1>4 DEF Texts
<1>8. TypeOK'
  BY <1>2, <1>3, <1>4, <1>5, <1>6, <1>7, InvGives DEF TypeOK, Texts
<1>9. Sync' /\ Reopened \in Seq(OpenMessage)
  BY <1>3, <1>4, InvGives, SyncBegins DEF Sync
<1>10. toServer' \in Seq(OpenMessage) /\ toServer' \in Seq(ClientMessage)
  <2>1. OpenMessage \subseteq ClientMessage
    BY DEF ClientMessage
  <2> QED
    BY <1>4, <1>9, <2>1, SeqMonotonic
<1>11. Channels'
  BY <1>3, <1>4, <1>10, InvGives DEF Channels, Working
<1>12. Talk'
  <2>1. \A msg \in OpenMessage : msg \notin Requests
    BY DEF OpenMessage, Requests, ActionRequest, AddRequest, OtherRequest
  <2>2. \A i \in DOMAIN toServer' : toServer'[i] \notin Requests
    BY <1>10, <2>1
  <2> QED
    BY <1>3, <1>4, <2>2 DEF Talk, Numbered, Asked, Worked, Told, Once, Somewhere, Working
<1>13. Offers'
  BY <1>4 DEF Offers, NoOffer
<1> QED
  BY <1>8, <1>9, <1>11, <1>12, <1>13 DEF Inv

LEMMA Begins ==
  ASSUME OnlyFeeds, Init
  PROVE  Inv
<1>1. PICK config \in Config :
        /\ base = WordList(config.words) /\ ignored = config.ignored /\ path = config.path
  BY DEF Init
<1>2. config.words \subseteq Word /\ config.ignored \subseteq Word /\ config.path \in BOOLEAN
  BY LspAssumption
<1>3. base \in (SUBSET Word) \ {{}}
  BY <1>1, <1>2, LspAssumption DEF WordList
<1>4. TypeOK
  BY <1>1, <1>2, <1>3, LspAssumption DEF Init, TypeOK
<1>5. Channels
  BY DEF Init, Channels, Working
<1>6. Talk
  BY DEF Init, Talk, Numbered, Asked, Worked, Told, Once, Somewhere, Working
<1>7. Sync
  <2>1. documents \in FreshTexts /\ documents = editor /\ toServer = <<>>
    BY DEF Init, FreshTexts, Texts
  <2>2. Path(Following, FreshTexts, documents, <<>>, documents)
    BY <2>1, PathNone
  <2> QED
    BY <2>1, <2>2 DEF Init, Sync
<1>8. Offers
  BY DEF Init, Offers, NoOffer
<1> QED
  BY <1>4, <1>5, <1>6, <1>7, <1>8 DEF Inv

LEMMA Stutters ==
  ASSUME Inv, UNCHANGED vars
  PROVE  Inv'
<1>1. /\ UNCHANGED <<phase, job, base, user, ignored, path, documents, file, torn, toServer>>
      /\ UNCHANGED <<toClient, editor, shown, pending, offered, sent, acked, silenced>>
  BY DEF vars
<1>2. TypeOK' /\ Channels'
  BY <1>1, InvGives DEF TypeOK, Channels
<1>3. Talk'
  BY <1>1, InvGives DEF Talk, Numbered, Asked, Worked, Told, AnswersTo, Once, Somewhere
<1>4. Sync'
  BY <1>1, InvGives, SyncStays
<1>5. Offers'
  BY <1>1, InvGives DEF Offers
<1> QED
  BY <1>2, <1>3, <1>4, <1>5 DEF Inv

LEMMA Steps ==
  ASSUME Inv, Next
  PROVE  Inv'
<1>1. CASE Serve
  BY <1>1, StepDidOpen, StepDidChange, StepDidClose, StepConfigure, StepCodeAction,
     StepAddToDictionary, StepUnsupported, StepOpenFile, StepWriteFile, StepPersistFails,
     StepReply DEF Serve
<1>2. CASE Receive
  BY <1>2, StepShowDiagnostics, StepReceiveAnswer DEF Receive
<1>3. CASE Use
  <2>1. CASE \E u \in Uri, text \in Text : OpenDocument(u, text)
    BY <2>1, StepOpenDocument
  <2>2. CASE \E u \in Uri : EditDocument(u) \/ CloseDocument(u)
    BY <2>2, StepEditDocument, StepCloseDocument
  <2>3. CASE \E u \in Uri, i \in 1..MaxText : RequestActions(u, i)
    BY <2>3, StepRequestActions
  <2>4. CASE \E edit \in offered.edits : ApplyAction(edit)
    BY <2>4, StepApplyAction
  <2>5. CASE \E config \in Config : Configure(config)
    BY <2>5, StepClientConfigures
  <2>6. CASE \E w \in Word : RequestAdd(w)
    BY <2>6, StepRequestAdd
  <2>7. CASE RequestOther
    BY <2>7, StepRequestOther
  <2> QED
    BY <1>3, <2>1, <2>2, <2>3, <2>4, <2>5, <2>6, <2>7, Zenon DEF Use
<1>4. CASE Crash
  BY <1>4, StepCrash
<1>5. CASE Restart
  BY <1>5, StepRestart
<1> QED
  BY <1>1, <1>2, <1>3, <1>4, <1>5 DEF Next

(* The invariant the theorems below rest on: the types, one holder of each  *)
(* request, a path of texts through toServer, code actions that fit.  All  *)
(* of it rests on OnlyFeeds, with which positions mean the same to both.   *)
THEOREM Invariant ==
  ASSUME OnlyFeeds
  PROVE  Spec => []Inv
<1>1. Inv /\ [Next]_vars => Inv'
  BY Steps, Stutters
<1> QED
  BY Begins, <1>1, PTL DEF Spec

-----------------------------------------------------------------------------
(* The properties                                                          *)

(* The server's data keep their shape, and the diagnostics the client shows *)
(* are positions and words.                                                *)
THEOREM TypeCorrect ==
  ASSUME OnlyFeeds
  PROVE  Spec => []TypeOK
<1>1. Inv => TypeOK
  BY DEF Inv
<1> QED
  BY Invariant, <1>1, PTL

(* While no text has a lone \r, the server that has read everything has the *)
(* client's texts, whatever the client typed meanwhile.  (State::change,   *)
(* position_to_byte)                                                       *)
THEOREM InSyncCorrect ==
  ASSUME OnlyFeeds
  PROVE  Spec => []InSync
<1>1. ASSUME Inv
      PROVE  InSync
  <2> SUFFICES ASSUME phase # "down", toServer = <<>>
               PROVE  documents = editor
    BY DEF InSync
  <2>1. Path(Following, FreshTexts, documents, <<>>, editor)
    BY <1>1, InvGives DEF Sync
  <2> QED
    BY <2>1 DEF Path
<1> QED
  BY Invariant, <1>1, PTL

(* A request is held by exactly one of the channel to the server, the       *)
(* server and the channel back.                                            *)
THEOREM OneAnswerCorrect ==
  ASSUME OnlyFeeds
  PROVE  Spec => []OneAnswer
<1>1. ASSUME Inv
      PROVE  OneAnswer
  <2> DEFINE waiting(r) == {i \in DOMAIN toServer : toServer[i] = r}
             answers(r) == {i \in DOMAIN toClient :
                              toClient[i].m = "answer" /\ toClient[i].id = r.id}
  <2> SUFFICES ASSUME phase # "down", NEW r \in pending
               PROVE  Cardinality(waiting(r)) + (IF job = r THEN 1 ELSE 0)
                      + Cardinality(answers(r)) = 1
    BY DEF OneAnswer
  <2>1. r \in Requests
    BY <1>1, InvGives
  <2>2. phase \in Working \/ job = None
    BY <1>1, InvGives DEF Channels, TypeOK, Working
  <2>3. job = r => phase \in Working
    BY <2>1, <2>2, LspAssumption
  <2>4. CASE \E i \in DOMAIN toServer : toServer[i] = r
    <3>1. PICK i \in DOMAIN toServer : toServer[i] = r
      BY <2>4
    <3>2. waiting(r) = {i} /\ job # r /\ answers(r) = {}
      BY <2>1, <2>3, <3>1, <1>1, InvGives DEF Talk, Once
    <3> HIDE DEF waiting, answers
    <3>3. Cardinality(waiting(r)) = 1
      BY <3>2, FS_Singleton
    <3>4. Cardinality(answers(r)) = 0
      BY <3>2, FS_EmptySet
    <3>5. (IF job = r THEN 1 ELSE 0) = 0
      BY <3>2
    <3> QED
      BY <3>3, <3>4, <3>5
  <2>5. CASE phase \in Working /\ job = r
    <3>1. waiting(r) = {} /\ answers(r) = {}
      BY <2>5, <1>1, InvGives DEF Talk, Once
    <3> HIDE DEF waiting, answers
    <3>2. Cardinality(waiting(r)) = 0 /\ Cardinality(answers(r)) = 0
      BY <3>1, FS_EmptySet
    <3>3. (IF job = r THEN 1 ELSE 0) = 1
      BY <2>5
    <3> QED
      BY <3>2, <3>3
  <2>6. CASE \E k \in DOMAIN toClient : toClient[k].m = "answer" /\ toClient[k].id = r.id
    <3>1. PICK k \in DOMAIN toClient : toClient[k].m = "answer" /\ toClient[k].id = r.id
      BY <2>6
    <3>2. answers(r) = {k} /\ job # r /\ waiting(r) = {}
      BY <2>1, <2>3, <3>1, <1>1, InvGives DEF Talk, Once
    <3> HIDE DEF waiting, answers
    <3>3. Cardinality(answers(r)) = 1
      BY <3>2, FS_Singleton
    <3>4. Cardinality(waiting(r)) = 0
      BY <3>2, FS_EmptySet
    <3>5. (IF job = r THEN 1 ELSE 0) = 0
      BY <3>2
    <3> QED
      BY <3>3, <3>4, <3>5
  <2> HIDE DEF waiting, answers
  <2> QED
    BY <2>4, <2>5, <2>6, <1>1, InvGives DEF Talk, Somewhere
<1> QED
  BY Invariant, <1>1, PTL

(* While no text has a lone \r, no change of a client that sends the exact  *)
(* positions of its edits makes the server exit: it finds each range in the *)
(* text it has by then, across lines and words of two units.               *)
(* (State::change, position_to_byte)                                       *)
THEOREM StaysUpCorrect ==
  ASSUME OnlyFeeds
  PROVE  Spec => StaysUp
<1>1. ASSUME Inv, Next, phase # "down", phase' = "down"
      PROVE  Crash
  <2>1. ~DidChange /\ ~AddToDictionary
    BY <1>1, StepDidChange, StepAddToDictionary
  <2>2. ~(DidOpen \/ DidClose \/ DidChangeConfiguration \/ CodeAction \/ Unsupported)
    BY <1>1 DEF DidOpen, DidClose, DidChangeConfiguration, CodeAction, Unsupported
  <2>3. ~(OpenFile \/ WriteFile \/ PersistFails \/ Reply)
    BY <1>1 DEF OpenFile, WriteFile, PersistFails, Reply
  <2>4. ~Receive
    BY <1>1 DEF Receive, ShowDiagnostics, ReceiveAnswer, Received, server
  <2>5. ~Use
    BY <1>1 DEF Use, OpenDocument, EditDocument, ApplyAction, ChangeDocument, CloseDocument,
                RequestActions, Configure, RequestAdd, RequestOther, Request, Ask, server
  <2>6. ~Restart
    BY <1>1 DEF Restart
  <2> QED
    BY <1>1, <2>1, <2>2, <2>3, <2>4, <2>5, <2>6 DEF Next, Serve
<1>2. Inv /\ [Next]_vars => [phase # "down" /\ phase' = "down" => Crash]_vars
  BY <1>1
<1> QED
  BY Invariant, <1>2, PTL DEF Spec, StaysUp

-----------------------------------------------------------------------------
(* Words in memory and in the file                                         *)

(* A word is inserted before it is written.  Unless the file was once       *)
(* unreadable, memory has what the file has, and what was reported as       *)
(* added is in memory until the file is lost and in the file whenever no    *)
(* rewriting is under way.                                                 *)
Readable == "unreadable" \notin Faults

Saved ==
  /\ phase \in Working => job.word \in user
  /\ phase \in {"open", "write"} => path
  /\ Readable =>
       /\ path /\ phase # "down" => file.words \subseteq user
       /\ path /\ phase # "down" /\ torn # "lost" => acked \subseteq user
       /\ torn = "no" => acked \subseteq file.words
       /\ phase = "write" => file.held /\ torn # "no"
       /\ phase = "reply" /\ path => file.words = user
       /\ phase = "down" => torn # "torn"

LEMMA SavedStays ==
  ASSUME Saved, UNCHANGED <<phase, job, user, path, file, torn, acked>>
  PROVE  Saved'
  BY DEF Saved

LEMMA SavedConfigure ==
  ASSUME Inv, Saved, DidChangeConfiguration
  PROVE  Saved'
<1> DEFINE config == Head(toServer).config
<1>1. phase = "idle" /\ config.path \in BOOLEAN
  BY TakenIn, ClientMessageKinds, LspAssumption DEF DidChangeConfiguration, ConfigureMessage
<1>2. /\ path' = (path \/ config.path)
      /\ user' \in IF config.path THEN Reloaded ELSE {user}
      /\ torn' = IF config.path THEN GivenUp ELSE torn
      /\ UNCHANGED <<phase, job, file, acked>>
  BY DEF DidChangeConfiguration, client
<1>3. torn \in {"no", "torn", "lost"}
  BY InvGives DEF TypeOK
<1> HIDE DEF config
<1>4. CASE config.path
  <2>1. Readable => user' = file.words
    BY <1>2, <1>4 DEF Reloaded, Readable
  <2>2. torn' = GivenUp
    BY <1>2, <1>4
  <2> QED
    BY <1>1, <1>2, <1>3, <2>1, <2>2 DEF Saved, GivenUp, Working
<1>5. CASE ~config.path
  BY <1>1, <1>2, <1>5 DEF Saved
<1> QED
  BY <1>1, <1>4, <1>5

LEMMA SavedAdd ==
  ASSUME Inv, Saved, AddToDictionary
  PROVE  Saved'
<1> DEFINE msg == Head(toServer)
<1>1. phase = "idle"
  BY TakenIn DEF AddToDictionary
<1>2. CASE msg.word \in Invalid
  <2>1. UNCHANGED <<phase, job, user, path, file, torn, acked>>
    BY <1>2 DEF AddToDictionary, disk, client
  <2> QED
    BY <2>1, SavedStays
<1>3. CASE msg.word \notin Invalid
  <2>1. /\ user' = user \cup {msg.word} /\ job' = msg
        /\ phase' = IF path THEN "open" ELSE "reply"
        /\ UNCHANGED <<path, file, torn, acked>>
    BY <1>3 DEF AddToDictionary, disk, client
  <2> QED
    BY <1>1, <2>1 DEF Saved
<1> QED
  BY <1>2, <1>3

LEMMA SavedRestart ==
  ASSUME Inv, Saved, Restart
  PROVE  Saved'
<1>1. PICK config \in Config : Launch(config)
  BY DEF Restart
<1>2. /\ phase' = "idle" /\ path' = config.path
      /\ user' \in IF config.path THEN Reloaded ELSE {{}}
      /\ phase = "down" /\ UNCHANGED <<file, torn, acked>>
  BY <1>1 DEF Launch, Restart, disk
<1>3. Readable /\ config.path => user' = file.words
  BY <1>2 DEF Reloaded, Readable
<1>4. torn \in {"no", "torn", "lost"} /\ config.path \in BOOLEAN
  BY InvGives, LspAssumption DEF TypeOK
<1> QED
  BY <1>2, <1>3, <1>4 DEF Saved, Working

LEMMA SavedSteps ==
  ASSUME Inv, Saved, [Next]_vars
  PROVE  Saved'
<1>1. CASE DidOpen \/ DidClose \/ CodeAction \/ Unsupported
  BY <1>1, SavedStays DEF DidOpen, DidClose, CodeAction, Unsupported, disk, client
<1>2. CASE DidChange
  <2>1. phase = "idle" /\ phase' \in {"idle", "down"} /\ phase' # "down"
    BY <1>2, TakenIn, StepDidChange DEF DidChange
  <2>2. UNCHANGED <<phase, job, user, path, file, torn, acked>>
    BY <1>2, <2>1 DEF DidChange, disk, client
  <2> QED
    BY <2>2, SavedStays
<1>3. CASE DidChangeConfiguration
  BY <1>3, SavedConfigure
<1>4. CASE AddToDictionary
  BY <1>4, SavedAdd
<1>5. CASE OpenFile
  BY <1>5, InvGives DEF OpenFile, Saved, Working, client, TypeOK
<1>6. CASE WriteFile
  <2>1. torn \in {"no", "torn", "lost"} /\ phase = "write" /\ phase' = "reply"
        /\ UNCHANGED <<job, user, path, acked>>
    BY <1>6, InvGives DEF WriteFile, TypeOK, client
  <2>2. Readable => file' = [words |-> user, held |-> FALSE]
    BY <1>6, <2>1 DEF WriteFile, Persisted, Saved
  <2>3. torn' = IF torn = "torn" THEN "no" ELSE torn
    BY <1>6 DEF WriteFile
  <2> QED
    BY <2>1, <2>2, <2>3 DEF Saved, Working
<1>7. CASE PersistFails
  <2>1. phase \in {"open", "write"} /\ phase' = "idle" /\ UNCHANGED <<user, path, torn, acked>>
        /\ file'.words = file.words
    BY <1>7, InvGives DEF PersistFails, client, Channels
  <2> QED
    BY <2>1 DEF Saved, Working
<1>8. CASE Reply
  <2>1. phase = "reply" /\ phase' = "idle" /\ UNCHANGED <<user, path, torn, file>>
        /\ acked' = IF path THEN acked \cup {job.word} ELSE acked
    BY <1>8 DEF Reply, disk
  <2> QED
    BY <2>1 DEF Saved, Working
<1>9. CASE Receive
  BY <1>9, SavedStays DEF Receive, ShowDiagnostics, ReceiveAnswer, Received, server, disk
<1>10. CASE Use
  BY <1>10, SavedStays DEF Use, OpenDocument, EditDocument, ApplyAction, ChangeDocument,
     CloseDocument, RequestActions, Configure, RequestAdd, RequestOther, Request, Ask,
     server, disk
<1>11. CASE Crash
  <2>1. torn' # "torn" /\ (torn' = "no" => torn = "no") /\ phase' = "down"
        /\ file'.words = file.words /\ UNCHANGED <<acked, job, user, path>>
    BY <1>11, InvGives DEF Crash, GivenUp, client, Channels
  <2> QED
    BY <2>1 DEF Saved, Working
<1>12. CASE Restart
  BY <1>12, SavedRestart
<1>13. CASE UNCHANGED vars
  BY <1>13, SavedStays DEF vars
<1> QED
  BY <1>1, <1>2, <1>3, <1>4, <1>5, <1>6, <1>7, <1>8, <1>9, <1>10, <1>11, <1>12, <1>13
     DEF Next, Serve

(* Memory, file and reported words keep these relations.                   *)
THEOREM SavedInvariant ==
  ASSUME OnlyFeeds
  PROVE  Spec => []Saved
<1>1. Init => Saved
  BY DEF Init, Saved, Working
<1>2. Inv /\ Saved /\ [Next]_vars => Saved'
  BY SavedSteps
<1> QED
  BY Invariant, <1>1, <1>2, PTL DEF Spec

(* A word whose addition was reported is in the file whenever the server    *)
(* is not between the truncation and the end of a rewriting, and none was   *)
(* cut short for good - provided the file could always be read.            *)
(* (persist_user_dictionary)                                               *)
THEOREM AckedSavedCorrect ==
  ASSUME OnlyFeeds, Readable
  PROVE  Spec => []AckedSaved
<1>1. Saved => AckedSaved
  BY DEF Saved, AckedSaved
<1> QED
  BY SavedInvariant, <1>1, PTL

-----------------------------------------------------------------------------
(* Diagnostics on their way                                                *)

Views == [Uri -> Diagnostics]

(* What a message makes of what the client shows, and when an addition may  *)
(* be reported: when the client does not show the word.                    *)
View(x, msg) ==
  IF msg.m = "publish" THEN [x EXCEPT ![msg.uri] = msg.diagnostics] ELSE x

Clean(x, word) == \A u \in Uri : \A f \in x[u] : f[2] # word

Due(requests, x, msg) ==
  msg.m = "answer" /\ msg.kind = "added" =>
    \A r \in requests : r.m = "add" /\ r.id = msg.id => Clean(x, r.word)

Showing(requests) ==
  {step \in Views \X ServerMessage \X Views :
     step[3] = View(step[1], step[2]) /\ Due(requests, step[1], step[2])}

(* What the client will show of a text when it has read everything.        *)
Settled(x) ==
  \A u \in Uri :
    /\ documents[u] = None => x[u] = {}
    /\ Readable /\ phase \in {"idle", "open", "write"} /\ documents[u] # None =>
         /\ FindingsIn(documents[u].text, Known) \subseteq x[u]
         /\ \A f \in x[u] \ FindingsIn(documents[u].text, Known) :
              f[2] \in user \ file.words

Shows ==
  phase # "down" =>
    \E x \in Views : Path(Showing(pending), Views, shown, toClient, x) /\ Settled(x)

LEMMA ShowingIs ==
  ASSUME NEW requests, NEW x \in Views, NEW msg \in ServerMessage, NEW y \in Views
  PROVE  <<x, msg, y>> \in Showing(requests) <=> y = View(x, msg) /\ Due(requests, x, msg)
  BY DEF Showing

(* Messages are added to what the client has not read.                     *)
LEMMA ShowsMore ==
  ASSUME Inv, Shows, phase # "down",
         NEW messages \in Seq(ServerMessage), toClient' = toClient \o messages,
         UNCHANGED shown, \A r \in pending' : r \in pending \/ r.id = sent,
         \A x \in Views : Settled(x) =>
           \E y \in Views : Path(Showing(pending'), Views, x, messages, y) /\ Settled(y)'
  PROVE  Shows'
<1>1. PICK x \in Views : Path(Showing(pending), Views, shown, toClient, x) /\ Settled(x)
  BY DEF Shows
<1>2. PICK y \in Views : Path(Showing(pending'), Views, x, messages, y) /\ Settled(y)'
  BY <1>1
<1>3. Path(Showing(pending'), Views, shown, toClient, x)
  <2>1. ASSUME NEW i \in 1..Len(toClient), NEW v \in Views, NEW w \in Views,
               <<v, toClient[i], w>> \in Showing(pending)
        PROVE  <<v, toClient[i], w>> \in Showing(pending')
    <3>1. toClient[i] \in ServerMessage /\ i \in DOMAIN toClient
      BY InvGives
    <3>2. w = View(v, toClient[i]) /\ Due(pending, v, toClient[i])
      BY <2>1, <3>1, ShowingIs
    <3>3. toClient[i].m = "answer" => toClient[i].id # sent
      <4>1. \A r \in pending : r.id \in Nat /\ r.id < sent
        BY InvGives, RequestKinds DEF Talk, Numbered
      <4>2. toClient[i].m = "answer" => \E r \in pending : r.id = toClient[i].id
        BY <3>1, InvGives DEF Talk, Told, AnswersTo
      <4> QED
        BY <4>1, <4>2, InvGives
    <3>4. Due(pending', v, toClient[i])
      BY <3>2, <3>3 DEF Due
    <3> QED
      BY <3>1, <3>2, <3>4, ShowingIs
  <2>2. Len(toClient) \in Nat
    BY InvGives
  <2> HIDE DEF Views, Showing
  <2> QED
    BY <1>1, <2>1, <2>2, PathChange
<1>4. Path(Showing(pending'), Views, shown, toClient \o messages, y)
  BY <1>2, <1>3, InvGives, PathConcat
<1> QED
  BY <1>2, <1>4 DEF Shows

(* Nothing is published, and what is settled stays so.                     *)
LEMMA ShowsStays ==
  ASSUME Inv, Shows, phase # "down", UNCHANGED <<toClient, shown>>,
         \A r \in pending' : r \in pending \/ r.id = sent,
         \A x \in Views : Settled(x) => Settled(x)'
  PROVE  Shows'
<1>1. <<>> \in Seq(ServerMessage) /\ toClient' = toClient \o <<>>
  BY InvGives
<1>2. \A x \in Views : Path(Showing(pending'), Views, x, <<>>, x)
  BY PathNone
<1>3. \A x \in Views : Settled(x) =>
        \E y \in Views : Path(Showing(pending'), Views, x, <<>>, y) /\ Settled(y)'
  BY <1>2
<1> QED
  BY <1>1, <1>3, ShowsMore

(* Diagnostics for one document.                                           *)
LEMMA ShowsPublished ==
  ASSUME NEW requests, NEW x \in Views, NEW msg \in PublishMessage
  PROVE  /\ [x EXCEPT ![msg.uri] = msg.diagnostics] \in Views
         /\ Path(Showing(requests), Views, x, <<msg>>, [x EXCEPT ![msg.uri] = msg.diagnostics])
<1> DEFINE y == [x EXCEPT ![msg.uri] = msg.diagnostics]
<1>1. msg \in ServerMessage /\ msg.m = "publish" /\ msg.uri \in Uri /\ msg.diagnostics \in Diagnostics
  BY DEF ServerMessage, PublishMessage
<1>2. y \in Views
  BY <1>1 DEF Views
<1>3. y = View(x, msg) /\ Due(requests, x, msg)
  BY <1>1 DEF View, Due
<1> HIDE DEF y
<1>4. <<x, msg, y>> \in Showing(requests)
  BY <1>1, <1>2, <1>3, ShowingIs
<1>5. Path(Showing(requests), Views, x, <<msg>>, y)
  BY <1>2, <1>4, PathOne
<1> QED
  BY <1>2, <1>5 DEF y

(* Diagnostics for all of them.                                            *)
Republished(texts, known, x) ==
  [u \in Uri |-> IF texts[u] = None THEN x[u] ELSE FindingsIn(texts[u].text, known)]

LEMMA ShowsPublishedAll ==
  ASSUME NEW requests, NEW texts \in Texts, NEW known, NEW x \in Views
  PROVE  /\ Republished(texts, known, x) \in Views
         /\ Path(Showing(requests), Views, x, PublishAll(texts, known),
                 Republished(texts, known, x))
<1> DEFINE S == {u \in Uri : texts[u] # None}
           open == SetToSeq(S)
           q == PublishAll(texts, known)
           F == Republished(texts, known, x)
<1>1. /\ open \in Seq(Uri) /\ {open[i] : i \in DOMAIN open} = S
  <2>1. S \in SUBSET Uri
    OBVIOUS
  <2> HIDE DEF S
  <2> QED
    BY <2>1, Listed
<1>2. q = [i \in DOMAIN open |-> Publish(open[i], texts[open[i]].text, known)]
  BY Zenon DEF PublishAll
<1>3. F \in Views /\ \A u \in S : F[u] = FindingsIn(texts[u].text, known)
  <2>1. \A u \in Uri : texts[u] # None => FindingsIn(texts[u].text, known) \in Diagnostics
    BY FindingsType DEF Texts, Doc
  <2> QED
    BY <2>1 DEF Views, Republished
<1> HIDE DEF open, q
<1>4. /\ DOMAIN open = 1..Len(open) /\ Len(open) \in Nat /\ open \in [1..Len(open) -> Uri]
      /\ \A i \in 1..Len(open) : open[i] \in S
  <2> HIDE DEF S
  <2>1. open \in Seq(Uri)
    BY <1>1
  <2> QED
    BY <1>1, <2>1, LenProperties
<1>5. q \in Seq(PublishMessage)
  BY PublishAllType DEF q
<1>6. /\ Len(q) = Len(open)
      /\ \A i \in 1..Len(open) : q[i] = Publish(open[i], texts[open[i]].text, known)
  <2>1. DOMAIN q = 1..Len(open) /\ DOMAIN q = 1..Len(q) /\ Len(q) \in Nat
    BY <1>2, <1>4, <1>5
  <2> QED
    BY <1>2, <1>4, <2>1
<1>7. \A T \in SUBSET DOMAIN x : Mix(T, F, x) \in Views
  BY <1>3 DEF Mix, Views
<1>8. ASSUME NEW i \in 1..Len(q), NEW v \in Views
      PROVE  <<v, q[i], [v EXCEPT ![open[i]] = F[open[i]]]>> \in Showing(requests)
  <2> DEFINE u == open[i]
             msg == q[i]
             w == [v EXCEPT ![u] = F[u]]
  <2>1. u \in S /\ msg = Publish(u, texts[u].text, known)
    BY <1>4, <1>6
  <2>2. msg \in ServerMessage
    BY <1>5, Published
  <2> HIDE DEF u, msg
  <2>3. msg.m = "publish" /\ msg.uri = u /\ msg.diagnostics = F[u]
    BY <1>3, <2>1 DEF Publish
  <2>4. w \in Views
    BY <1>3 DEF Views
  <2>5. w = View(v, msg) /\ Due(requests, v, msg)
    BY <2>3 DEF View, Due
  <2> HIDE DEF w
  <2>6. <<v, msg, w>> \in Showing(requests)
    BY <2>2, <2>4, <2>5, ShowingIs
  <2> QED
    BY <2>6 DEF u, msg, w
<1>9. Reached(Len(q), open, F, x) = F
  <2>1. {open[i] : i \in 1..Len(q)} = S
    BY <1>1, <1>4, <1>6
  <2> QED
    BY <2>1 DEF Reached, Mix, Views, Republished
<1>10. Path(Showing(requests), Views, x, q, Reached(Len(q), open, F, x))
  <2>1. /\ x = [u \in DOMAIN x |-> x[u]] /\ Len(q) \in Nat
        /\ open \in [1..Len(q) -> DOMAIN x]
    BY <1>4, <1>6 DEF Views
  <2> HIDE DEF F, Views, Showing
  <2> QED
    BY <1>7, <1>8, <2>1, PathEach
<1> QED
  BY <1>3, <1>9, <1>10 DEF q

LEMMA ShowsAnswer ==
  ASSUME NEW requests, NEW x \in Views, NEW a \in AnswerMessage, Due(requests, x, a)
  PROVE  Path(Showing(requests), Views, x, <<a>>, x)
<1>1. a \in ServerMessage /\ a.m # "publish"
  BY DEF ServerMessage, AnswerMessage
<1>2. <<x, a, x>> \in Showing(requests)
  BY <1>1, ShowingIs DEF View
<1> QED
  BY <1>2, PathOne

(* Knowing one more word takes away its findings.                          *)
LEMMA FindingsWith ==
  ASSUME NEW text \in Seq(Word), NEW known, NEW w
  PROVE  \A f : f \in FindingsIn(text, known \cup {w})
               <=> f \in FindingsIn(text, known) /\ f[2] # w
  BY DEF FindingsIn, Directives

LEMMA SettledSame ==
  ASSUME NEW x, Settled(x), UNCHANGED <<phase, documents, base, user, ignored, file>>
  PROVE  Settled(x)'
  BY DEF Settled, Known

(* One document's text and diagnostics change together.                    *)
LEMMA SettledOne ==
  ASSUME Inv, NEW x \in Views, Settled(x), phase = "idle", phase' = "idle",
         UNCHANGED <<base, user, ignored, file>>,
         NEW u \in Uri, NEW doc, documents' = [documents EXCEPT ![u] = doc],
         NEW D, \/ doc = None /\ D = {}
                \/ doc # None /\ D = FindingsIn(doc.text, Known)
  PROVE  Settled([x EXCEPT ![u] = D])'
<1> DEFINE y == [x EXCEPT ![u] = D]
<1>1. Known' = Known
  BY DEF Known
<1>2. \A v \in Uri : /\ v = u => documents'[v] = doc /\ y[v] = D
                     /\ v # u => documents'[v] = documents[v] /\ y[v] = x[v]
  BY InvGives DEF Views, Texts
<1> HIDE DEF y
<1>3. ASSUME NEW v \in Uri
      PROVE  /\ documents'[v] = None => y[v] = {}
             /\ Readable /\ documents'[v] # None =>
                  /\ FindingsIn(documents'[v].text, Known) \subseteq y[v]
                  /\ \A f \in y[v] \ FindingsIn(documents'[v].text, Known) :
                       f[2] \in user \ file.words
  <2>1. CASE v = u
    BY <1>2, <2>1
  <2>2. CASE v # u
    BY <1>2, <2>2 DEF Settled
  <2> QED
    BY <2>1, <2>2
<1>4. Settled(y)'
  BY <1>1, <1>3 DEF Settled
<1> QED
  BY <1>4 DEF y

LEMMA ShowsOne ==
  ASSUME Inv, Shows, phase = "idle", phase' = "idle",
         UNCHANGED <<base, user, ignored, file, shown, pending>>,
         NEW msg \in PublishMessage, Send(<<msg>>),
         NEW doc, documents' = [documents EXCEPT ![msg.uri] = doc],
         \/ doc = None /\ msg.diagnostics = {}
         \/ doc # None /\ msg.diagnostics = FindingsIn(doc.text, Known)
  PROVE  Shows'
<1> DEFINE messages == <<msg>>
<1>1. messages \in Seq(ServerMessage) /\ toClient' = toClient \o messages
  BY Published, OnePublished DEF Send
<1>2. ASSUME NEW x \in Views, Settled(x)
      PROVE  \E y \in Views : Path(Showing(pending'), Views, x, messages, y) /\ Settled(y)'
  <2> DEFINE y == [x EXCEPT ![msg.uri] = msg.diagnostics]
  <2>1. y \in Views /\ Path(Showing(pending'), Views, x, messages, y)
    BY ShowsPublished
  <2>2. msg.uri \in Uri
    BY DEF PublishMessage
  <2>3. Settled(y)'
    BY <1>2, <2>2, SettledOne
  <2> HIDE DEF y, messages
  <2> QED
    BY <2>1, <2>3
<1> HIDE DEF messages
<1> QED
  BY <1>1, <1>2, ShowsMore

LEMMA ShowsDidOpen ==
  ASSUME Inv, Shows, DidOpen
  PROVE  Shows'
<1> DEFINE q == Head(toServer)
           msg == Publish(q.uri, q.text, Known)
           doc == [version |-> q.version, text |-> q.text]
<1>1. phase = "idle" /\ q \in OpenMessage
  BY TakenIn, ClientMessageKinds DEF DidOpen
<1>2. q.uri \in Uri /\ q.version \in Nat /\ q.text \in Seq(Word)
  BY <1>1 DEF OpenMessage
<1>3. msg \in PublishMessage /\ doc \in Doc
  BY <1>2, PublishType DEF Doc
<1>4. doc # None
  BY <1>3, LspAssumption
<1>5. msg.uri = q.uri /\ msg.diagnostics = FindingsIn(doc.text, Known)
  BY DEF Publish
<1>6. documents' = [documents EXCEPT ![msg.uri] = doc] /\ Send(<<msg>>)
      /\ UNCHANGED <<phase, base, user, ignored, file, shown, pending>>
  BY <1>5 DEF DidOpen, disk, client
<1> HIDE DEF msg, doc
<1> QED
  BY <1>1, <1>3, <1>4, <1>5, <1>6, ShowsOne

LEMMA ShowsDidChange ==
  ASSUME Inv, Shows, DidChange
  PROVE  Shows'
<1> DEFINE q == Head(toServer)
<1>1. phase = "idle" /\ q \in ChangeMessage
  BY TakenIn, ClientMessageKinds DEF DidChange
<1>2. /\ q.uri \in Uri /\ q.version \in Nat /\ documents[q.uri] # None
      /\ \E t \in Seq(Word) : Applied(documents[q.uri].text, q.changes) = {t}
  BY <1>1, TakenIn DEF ChangeMessage, Meant, DidChange
<1>3. PICK text \in Seq(Word) : Applied(documents[q.uri].text, q.changes) = {text}
  BY <1>2
<1> DEFINE msg == Publish(q.uri, text, Known)
           doc == [version |-> q.version, text |-> text]
<1>4. msg \in PublishMessage /\ doc \in Doc
  BY <1>2, <1>3, PublishType DEF Doc
<1>5. doc # None
  BY <1>4, LspAssumption
<1>6. msg.uri = q.uri /\ msg.diagnostics = FindingsIn(doc.text, Known)
  BY DEF Publish
<1>7. documents' = [documents EXCEPT ![msg.uri] = doc] /\ Send(<<msg>>)
      /\ UNCHANGED <<phase, base, user, ignored, file, shown, pending>>
  BY <1>2, <1>3, <1>6 DEF DidChange, disk, client
<1> HIDE DEF msg, doc
<1> QED
  BY <1>1, <1>4, <1>5, <1>6, <1>7, ShowsOne

LEMMA ShowsDidClose ==
  ASSUME Inv, Shows, DidClose
  PROVE  Shows'
<1> DEFINE u == Head(toServer).uri
           msg == [m |-> "publish", uri |-> u, diagnostics |-> {}]
<1>1. phase = "idle" /\ u \in Uri
  BY TakenIn, ClientMessageKinds DEF DidClose, CloseMessage
<1>2. msg \in PublishMessage /\ msg.uri = u /\ msg.diagnostics = {}
  BY <1>1 DEF PublishMessage, Diagnostics
<1>3. documents' = [documents EXCEPT ![msg.uri] = None] /\ Send(<<msg>>)
      /\ UNCHANGED <<phase, base, user, ignored, file, shown, pending>>
  BY <1>2 DEF DidClose, disk, client
<1> HIDE DEF msg
<1> QED
  BY <1>1, <1>2, <1>3, ShowsOne

(* All documents are published under what the server knows then.           *)
LEMMA SettledAll ==
  ASSUME Inv, NEW x \in Views, Settled(x), UNCHANGED documents,
         NEW y, y = Republished(documents, Known', x)
  PROVE  Settled(y)'
<1>1. \A u \in Uri : documents[u] = None => x[u] = {}
  BY DEF Settled
<1>2. ASSUME NEW u \in Uri
      PROVE  /\ documents'[u] = None => y[u] = {}
             /\ documents'[u] # None => y[u] = FindingsIn(documents'[u].text, Known')
  BY <1>1 DEF Republished
<1> QED
  BY <1>2 DEF Settled

LEMMA ShowsConfigure ==
  ASSUME Inv, Shows, DidChangeConfiguration
  PROVE  Shows'
<1> DEFINE messages == PublishAll(documents, Known')
<1>1. phase = "idle" /\ UNCHANGED <<phase, documents, shown, pending>>
  BY TakenIn DEF DidChangeConfiguration, client
<1>2. messages \in Seq(PublishMessage) /\ messages \in Seq(ServerMessage)
  BY InvGives, PublishAllType, Published
<1>3. toClient' = toClient \o messages
  BY DEF DidChangeConfiguration, ConfigurePublishes, Send, Known
<1>4. ASSUME NEW x \in Views, Settled(x)
      PROVE  \E y \in Views : Path(Showing(pending'), Views, x, messages, y) /\ Settled(y)'
  <2>1. /\ Republished(documents, Known', x) \in Views
        /\ Path(Showing(pending'), Views, x, messages, Republished(documents, Known', x))
    BY InvGives, ShowsPublishedAll
  <2> HIDE DEF messages
  <2>2. PICK y \in Views : /\ y = Republished(documents, Known', x)
                          /\ Path(Showing(pending'), Views, x, messages, y)
    BY <2>1
  <2>3. Settled(y)'
    BY <1>1, <1>4, <2>2, SettledAll
  <2> QED
    BY <2>2, <2>3
<1> HIDE DEF messages
<1> QED
  BY <1>1, <1>2, <1>3, <1>4, ShowsMore

(* An answer that is not to an addition.                                   *)
LEMMA ShowsOther ==
  ASSUME Inv, Shows, phase # "down", NEW a \in AnswerMessage, a.kind # "added",
         Send(<<a>>), UNCHANGED <<shown, pending>>,
         \A x \in Views : Settled(x) => Settled(x)'
  PROVE  Shows'
<1> DEFINE messages == <<a>>
<1>1. messages \in Seq(ServerMessage) /\ toClient' = toClient \o messages
  BY DEF Send, ServerMessage
<1>2. \A x \in Views : Path(Showing(pending'), Views, x, messages, x)
  BY ShowsAnswer DEF Due
<1> HIDE DEF messages
<1>3. \A x \in Views : Settled(x) =>
        \E y \in Views : Path(Showing(pending'), Views, x, messages, y) /\ Settled(y)'
  BY <1>2
<1> QED
  BY <1>1, <1>3, ShowsMore

LEMMA ShowsAnswered ==
  ASSUME Inv, Shows, NEW m \in {"codeAction", "add", "other"}, Idle(m),
         NEW kind \in {"actions", "error"}, NEW edits \in SUBSET Edit,
         Send(<<Answer(Head(toServer), kind, edits)>>),
         UNCHANGED <<phase, base, user, ignored, documents, file, shown, pending>>
  PROVE  Shows'
<1> DEFINE a == Answer(Head(toServer), kind, edits)
<1>1. Head(toServer).id \in Nat /\ phase # "down"
  BY TakenIn, ClientMessageKinds, RequestKinds
<1>2. a \in AnswerMessage /\ a.kind # "added"
  BY <1>1 DEF Answer, AnswerMessage
<1>3. \A x \in Views : Settled(x) => Settled(x)'
  BY SettledSame
<1> HIDE DEF a
<1>4. Send(<<a>>)
  BY DEF a
<1> QED
  BY <1>1, <1>2, <1>3, <1>4, ShowsOther

LEMMA ShowsAdd ==
  ASSUME Inv, Saved, Shows, AddToDictionary
  PROVE  Shows'
<1> DEFINE msg == Head(toServer)
<1>1. Idle("add") /\ phase = "idle" /\ msg \in AddRequest
  BY TakenIn, ClientMessageKinds DEF AddToDictionary
<1>2. CASE msg.word \in Invalid
  <2>1. Send(<<Answer(msg, "error", {})>>)
        /\ UNCHANGED <<phase, base, user, ignored, documents, file, shown, pending>>
    BY <1>2 DEF AddToDictionary, disk, client
  <2> QED
    BY <1>1, <2>1, ShowsAnswered
<1>3. CASE msg.word \notin Invalid
  <2>1. /\ user' = user \cup {msg.word}
        /\ phase' = IF path THEN "open" ELSE "reply"
        /\ UNCHANGED <<toClient, base, ignored, path, documents, file, shown, pending>>
    BY <1>3 DEF AddToDictionary, disk, client
  <2> DEFINE w == msg.word
  <2>2. Known' = Known \cup {w}
    BY <2>1 DEF Known
  <2> HIDE DEF w
  <2>3. \A x \in Views : Settled(x) => Settled(x)'
    <3> SUFFICES ASSUME NEW x \in Views, Settled(x), NEW u \in Uri
                 PROVE  /\ documents[u] = None => x[u] = {}
                        /\ Readable /\ phase' \in {"idle", "open", "write"} /\ documents[u] # None =>
                             /\ FindingsIn(documents[u].text, Known') \subseteq x[u]
                             /\ \A f \in x[u] \ FindingsIn(documents[u].text, Known') :
                                  f[2] \in user' \ file.words
      BY <2>1 DEF Settled
    <3>1. documents[u] = None => x[u] = {}
      BY DEF Settled
    <3> SUFFICES ASSUME Readable, phase' \in {"idle", "open", "write"}, documents[u] # None
                 PROVE  /\ FindingsIn(documents[u].text, Known') \subseteq x[u]
                        /\ \A f \in x[u] \ FindingsIn(documents[u].text, Known') :
                             f[2] \in user' \ file.words
      BY <3>1
    <3>2. documents[u].text \in Seq(Word)
      BY InvGives DEF Texts, Doc
    <3>3. \A f : f \in FindingsIn(documents[u].text, Known')
                <=> f \in FindingsIn(documents[u].text, Known) /\ f[2] # w
      <4>1. \A f : f \in FindingsIn(documents[u].text, Known \cup {w})
                  <=> f \in FindingsIn(documents[u].text, Known) /\ f[2] # w
        BY <3>2, FindingsWith
      <4> QED
        BY <2>2, <4>1, Zenon
    <3>4. /\ FindingsIn(documents[u].text, Known) \subseteq x[u]
          /\ \A f \in x[u] \ FindingsIn(documents[u].text, Known) : f[2] \in user \ file.words
      BY <1>1 DEF Settled
    <3>5. file.words \subseteq user
      BY <1>1, <2>1, InvGives DEF Saved, TypeOK
    <3>6. \A f \in FindingsIn(documents[u].text, Known) : f[2] \notin user
      BY <3>2 DEF FindingsIn, Known
    <3>7. \A f \in FindingsIn(documents[u].text, Known) : f[2] = w => f[2] \in user' \ file.words
      BY <2>1, <3>5, <3>6 DEF w
    <3> QED
      BY <2>1, <3>3, <3>4, <3>7
  <2> QED
    BY <1>1, <2>1, <2>3, ShowsStays
<1> QED
  BY <1>2, <1>3

LEMMA ShowsWrites ==
  ASSUME Inv, Saved, Shows, OpenFile \/ WriteFile
  PROVE  Shows'
<1>1. UNCHANGED <<documents, base, user, ignored, toClient, shown, pending>> /\ phase # "down"
  BY DEF OpenFile, WriteFile, client
<1>2. \/ phase = "open" /\ phase' = "write" /\ file'.words = {}
      \/ phase' = "reply"
  BY DEF OpenFile, WriteFile
<1>3. \A x \in Views : Settled(x) => Settled(x)'
  BY <1>1, <1>2 DEF Settled, Known
<1> QED
  BY <1>1, <1>3, ShowsStays

LEMMA ShowsPersistFails ==
  ASSUME Inv, Shows, PersistFails
  PROVE  Shows'
<1> DEFINE a == Answer(job, "error", {})
<1>1. phase \in {"open", "write"} /\ phase' = "idle" /\ job \in AddRequest
  BY InvGives DEF PersistFails, Working, Channels
<1>2. a \in AnswerMessage /\ a.kind # "added"
  BY <1>1 DEF Answer, AnswerMessage, AddRequest
<1>3. Send(<<a>>) /\ UNCHANGED <<base, user, ignored, documents, shown, pending>>
      /\ file'.words = file.words
  BY InvGives DEF PersistFails, client, Channels
<1>4. \A x \in Views : Settled(x) => Settled(x)'
  BY <1>1, <1>3 DEF Settled, Known
<1> HIDE DEF a
<1> QED
  BY <1>1, <1>2, <1>3, <1>4, ShowsOther

LEMMA ShowsReply ==
  ASSUME Inv, Saved, Shows, Reply
  PROVE  Shows'
<1> DEFINE all == PublishAll(documents, Known)
           a == Answer(job, "added", {})
           messages == Append(all, a)
<1>1. /\ phase = "reply" /\ phase' = "idle" /\ job \in AddRequest /\ job \in pending
      /\ UNCHANGED <<base, user, ignored, documents, shown, pending>>
  BY InvGives DEF Reply, Working, Channels, Talk, Worked
<1>2. job.word \in Known
  BY <1>1 DEF Saved, Working, Known
<1>3. all \in Seq(PublishMessage) /\ all \in Seq(ServerMessage)
  BY InvGives, PublishAllType, Published
<1>4. a \in AnswerMessage /\ a.id = job.id /\ a \in ServerMessage
  BY <1>1 DEF Answer, AnswerMessage, AddRequest, ServerMessage
<1>5. messages \in Seq(ServerMessage) /\ messages = all \o <<a>> /\ <<a>> \in Seq(ServerMessage)
  <2> HIDE DEF all, a
  <2> QED
    BY <1>3, <1>4, AppendIsConcat, Pushed
<1>6. toClient' = toClient \o messages
  BY DEF Reply, Replies, Send
<1>7. ASSUME NEW x \in Views, Settled(x)
      PROVE  \E y \in Views : Path(Showing(pending'), Views, x, messages, y) /\ Settled(y)'
  <2>1. PICK y \in Views : y = Republished(documents, Known, x)
                           /\ Path(Showing(pending'), Views, x, all, y)
    BY InvGives, ShowsPublishedAll
  <2>2. Known' = Known
    BY <1>1 DEF Known
  <2>3. Settled(y)'
    BY <1>1, <1>7, <2>1, <2>2, SettledAll
  <2>4. Clean(y, job.word)
    <3> SUFFICES ASSUME NEW u \in Uri, NEW f \in y[u]
                 PROVE  f[2] # job.word
      BY DEF Clean
    <3>1. documents[u] # None /\ f \in FindingsIn(documents[u].text, Known)
      BY <1>7, <2>1 DEF Republished, Settled
    <3> QED
      BY <1>2, <3>1 DEF FindingsIn
  <2>5. Due(pending', y, a)
    <3>1. \A r \in pending' : r.id = a.id => r = job
      BY <1>1, <1>4, InvGives DEF Talk, Numbered
    <3> QED
      BY <2>4, <3>1 DEF Due
  <2> HIDE DEF all, a, messages
  <2>6. Path(Showing(pending'), Views, y, <<a>>, y)
    BY <1>4, <2>5, ShowsAnswer
  <2>7. Path(Showing(pending'), Views, x, all \o <<a>>, y)
    BY <1>3, <1>5, <2>1, <2>6, PathConcat
  <2> QED
    BY <1>5, <2>3, <2>7
<1> HIDE DEF messages, all, a
<1> QED
  BY <1>1, <1>5, <1>6, <1>7, ShowsMore

(* The client sends.                                                       *)
LEMMA ShowsUse ==
  ASSUME Inv, Shows, Use
  PROVE  Shows'
<1>1. /\ phase # "down"
      /\ UNCHANGED <<phase, base, user, ignored, documents, file, toClient, shown>>
  BY DEF Use, OpenDocument, EditDocument, ApplyAction, ChangeDocument, CloseDocument,
         RequestActions, Configure, RequestAdd, RequestOther, Request, Ask, server, disk
<1>2. \A r \in pending' : r \in pending \/ r.id = sent
  <2>1. ASSUME NEW msg, msg.id = sent, Request(msg)
        PROVE  \A r \in pending' : r \in pending \/ r.id = sent
    BY <2>1 DEF Request
  <2>2. CASE \E u \in Uri, i \in 1..MaxText : RequestActions(u, i)
    BY <2>1, <2>2 DEF RequestActions
  <2>3. CASE \E w \in Word : RequestAdd(w)
    BY <2>1, <2>3 DEF RequestAdd
  <2>4. CASE RequestOther
    BY <2>1, <2>4 DEF RequestOther
  <2>5. UNCHANGED pending \/ (\E u \in Uri, i \in 1..MaxText : RequestActions(u, i))
        \/ (\E w \in Word : RequestAdd(w)) \/ RequestOther
    BY DEF Use, OpenDocument, EditDocument, ApplyAction, ChangeDocument, CloseDocument,
           Configure
  <2> QED
    BY <2>2, <2>3, <2>4, <2>5
<1>3. \A x \in Views : Settled(x) => Settled(x)'
  BY <1>1, SettledSame
<1> QED
  BY <1>1, <1>2, <1>3, ShowsStays

(* The client reads the next message.                                      *)
LEMMA ShowsNext ==
  ASSUME Inv, Shows, phase # "down", toClient # <<>>
  PROVE  /\ Due(pending, shown, Head(toClient))
         /\ \E x \in Views :
              /\ Path(Showing(pending), Views, View(shown, Head(toClient)), Tail(toClient), x)
              /\ Settled(x)
<1>1. PICK x \in Views : Path(Showing(pending), Views, shown, toClient, x) /\ Settled(x)
  BY DEF Shows
<1>2. PICK v \in Views : /\ <<shown, Head(toClient), v>> \in Showing(pending)
                         /\ Path(Showing(pending), Views, v, Tail(toClient), x)
  BY <1>1, InvGives, PathTail
<1>3. shown \in Views /\ Head(toClient) \in ServerMessage
  BY InvGives, Popped DEF TypeOK, Views, Diagnostics
<1>4. v = View(shown, Head(toClient)) /\ Due(pending, shown, Head(toClient))
  BY <1>2, <1>3, ShowingIs
<1> QED
  BY <1>1, <1>2, <1>4

LEMMA ShowsReceive ==
  ASSUME Inv, Shows, Receive
  PROVE  Shows'
<1>1. /\ toClient # <<>> /\ toClient' = Tail(toClient) /\ pending' \subseteq pending
      /\ UNCHANGED <<phase, base, user, ignored, documents, file>>
      /\ shown' = View(shown, Head(toClient))
  BY DEF Receive, ShowDiagnostics, ReceiveAnswer, Received, server, disk, View
<1> SUFFICES ASSUME phase # "down"
             PROVE  Shows'
  BY <1>1 DEF Shows
<1>2. PICK x \in Views : /\ Path(Showing(pending), Views, shown', toClient', x)
                         /\ Settled(x)
  BY <1>1, ShowsNext
<1>3. toClient' \in Seq(ServerMessage)
  BY <1>1, InvGives, Popped
<1>4. ASSUME NEW i \in 1..Len(toClient'), NEW v \in Views, NEW w \in Views,
             <<v, toClient'[i], w>> \in Showing(pending)
      PROVE  <<v, toClient'[i], w>> \in Showing(pending')
  <2>1. toClient'[i] \in ServerMessage
    BY <1>3
  <2>2. w = View(v, toClient'[i]) /\ Due(pending, v, toClient'[i])
    BY <1>4, <2>1, ShowingIs
  <2>3. Due(pending', v, toClient'[i])
    BY <1>1, <2>2 DEF Due
  <2> QED
    BY <2>1, <2>2, <2>3, ShowingIs
<1>5. Path(Showing(pending'), Views, shown', toClient', x)
  <2>1. Len(toClient') \in Nat
    BY <1>3
  <2> HIDE DEF Views, Showing
  <2> QED
    BY <1>2, <1>4, <2>1, PathChange
<1>6. Settled(x)'
  BY <1>1, <1>2, SettledSame
<1> QED
  BY <1>5, <1>6 DEF Shows

LEMMA ShowsRestart ==
  ASSUME Inv, Restart
  PROVE  Shows'
<1>1. /\ shown' = [u \in Uri |-> {}] /\ toClient' = <<>>
      /\ documents' = [u \in Uri |-> None]
  BY DEF Restart, Launch
<1>2. shown' \in Views
  BY <1>1 DEF Views, Diagnostics
<1>3. PICK x \in Views : x = shown'
  BY <1>2
<1>4. Settled(x)'
  BY <1>1, <1>3 DEF Settled
<1>5. Path(Showing(pending'), Views, x, <<>>, x)
  BY PathNone
<1> QED
  BY <1>1, <1>3, <1>4, <1>5 DEF Shows

LEMMA ShowsSteps ==
  ASSUME Inv, Saved, Shows, [Next]_vars
  PROVE  Shows'
<1>1. CASE DidOpen
  BY <1>1, ShowsDidOpen
<1>2. CASE DidChange
  BY <1>2, ShowsDidChange
<1>3. CASE DidClose
  BY <1>3, ShowsDidClose
<1>4. CASE DidChangeConfiguration
  BY <1>4, ShowsConfigure
<1>5. CASE CodeAction
  <2>1. PICK edits \in SUBSET Edit : Send(<<Answer(Head(toServer), "actions", edits)>>)
    BY <1>5, ActionsFit
  <2>2. Idle("codeAction")
        /\ UNCHANGED <<phase, base, user, ignored, documents, file, shown, pending>>
    BY <1>5 DEF CodeAction, disk, client
  <2> QED
    BY <2>1, <2>2, ShowsAnswered
<1>6. CASE AddToDictionary
  BY <1>6, ShowsAdd
<1>7. CASE Unsupported
  <2>1. Idle("other") /\ Send(<<Answer(Head(toServer), "error", {})>>)
        /\ UNCHANGED <<phase, base, user, ignored, documents, file, shown, pending>>
    BY <1>7 DEF Unsupported, disk, client
  <2> QED
    BY <2>1, ShowsAnswered
<1>8. CASE OpenFile \/ WriteFile
  BY <1>8, ShowsWrites
<1>9. CASE PersistFails
  BY <1>9, ShowsPersistFails
<1>10. CASE Reply
  BY <1>10, ShowsReply
<1>11. CASE Receive
  BY <1>11, ShowsReceive
<1>12. CASE Use
  BY <1>12, ShowsUse
<1>13. CASE Crash
  BY <1>13 DEF Crash, Shows
<1>14. CASE Restart
  BY <1>14, ShowsRestart
<1>15. CASE UNCHANGED vars
  <2>1. UNCHANGED <<phase, documents, base, user, ignored, file, toClient, shown, pending>>
    BY <1>15 DEF vars
  <2>2. CASE phase = "down"
    BY <2>1, <2>2 DEF Shows
  <2>3. CASE phase # "down"
    BY <2>1, <2>3, SettledSame, ShowsStays
  <2> QED
    BY <2>2, <2>3
<1> QED
  BY <1>1, <1>2, <1>3, <1>4, <1>5, <1>6, <1>7, <1>8, <1>9, <1>10, <1>11, <1>12, <1>13,
     <1>14, <1>15 DEF Next, Serve

(* What is on its way to the client ends in what it should show.           *)
THEOREM ShowsInvariant ==
  ASSUME OnlyFeeds
  PROVE  Spec => [](Inv /\ Saved /\ Shows)
<1>1. ASSUME Init
      PROVE  Shows
  <2>1. PICK x \in Views : x = shown
    BY <1>1 DEF Init, Views, Diagnostics
  <2>2. Settled(x)
    BY <1>1, <2>1 DEF Init, Settled
  <2>3. Path(Showing(pending), Views, x, <<>>, x)
    BY PathNone
  <2> QED
    BY <1>1, <2>1, <2>2, <2>3 DEF Init, Shows
<1>2. Inv /\ Saved /\ Shows /\ [Next]_vars => Shows'
  BY ShowsSteps
<1> QED
  BY Invariant, SavedInvariant, <1>1, <1>2, PTL DEF Spec

(* A client that reads the answer to an addition does not show the word:    *)
(* the diagnostics without it are read before, whatever else was on its way *)
(* and whatever the dictionary file did.  (publish_all before the answer)  *)
THEOREM AddedIsCleanCorrect ==
  ASSUME OnlyFeeds
  PROVE  Spec => AddedIsClean
<1> DEFINE A == \A request \in pending \ pending' :
                  phase # "down" /\ request.m = "add" /\ Head(toClient).kind = "added" =>
                    \A u \in Uri : \A finding \in shown[u] : finding[2] # request.word
<1>1. ASSUME Inv, Shows, Next
      PROVE  A
  <2> SUFFICES ASSUME NEW r \in pending, r \notin pending',
                      phase # "down", r.m = "add", Head(toClient).kind = "added"
               PROVE  Clean(shown, r.word)
    BY DEF Clean
  <2>1. ReceiveAnswer
    <3>1. ~Restart
      BY DEF Restart
    <3>2. pending \subseteq pending' \/ ReceiveAnswer
      BY <1>1, <3>1 DEF Next, Serve, Receive, Use, DidOpen, DidChange, DidClose,
         DidChangeConfiguration, CodeAction, AddToDictionary, Unsupported, OpenFile,
         WriteFile, PersistFails, Reply, ShowDiagnostics, Crash, client,
         OpenDocument, EditDocument, ApplyAction, ChangeDocument, CloseDocument,
         RequestActions, Configure, RequestAdd, RequestOther, Request
    <3> QED
      BY <3>2
  <2>2. toClient # <<>> /\ Head(toClient).m = "answer" /\ r.id = Head(toClient).id
    BY <2>1 DEF ReceiveAnswer, Received
  <2> QED
    BY <1>1, <2>2, ShowsNext DEF Due
<1>2. Inv /\ Shows /\ [Next]_vars => [A]_vars
  BY <1>1
<1> QED
  BY ShowsInvariant, <1>2, PTL DEF Spec, AddedIsClean

(* When all is read the client shows what the server's dictionaries find in *)
(* its texts, and beyond that only words in memory that the file lacks -   *)
(* provided the file could always be read.  (publish, publish_all)         *)
THEOREM ShownIsCurrentCorrect ==
  ASSUME OnlyFeeds, Readable
  PROVE  Spec => []ShownIsCurrent
<1>1. ASSUME Inv, Shows
      PROVE  ShownIsCurrent
  <2> SUFFICES ASSUME phase = "idle", toServer = <<>>, toClient = <<>>, NEW u \in Uri
               PROVE  LET current == IF editor[u] = None THEN {}
                                     ELSE FindingsIn(editor[u].text, Known)
                      IN  /\ current \subseteq shown[u]
                          /\ \A finding \in shown[u] \ current :
                               editor[u] # None /\ finding[2] \in user \ file.words
    BY DEF ShownIsCurrent
  <2>1. documents = editor
    <3>1. Path(Following, FreshTexts, documents, <<>>, editor)
      BY <1>1, InvGives DEF Sync
    <3> QED
      BY <3>1 DEF Path
  <2>2. Settled(shown)
    <3>1. PICK x \in Views : Path(Showing(pending), Views, shown, <<>>, x) /\ Settled(x)
      BY <1>1 DEF Shows
    <3>2. x = shown
      BY <3>1 DEF Path
    <3> QED
      BY <3>1, <3>2
  <2> QED
    BY <2>1, <2>2 DEF Settled
<1> QED
  BY ShowsInvariant, <1>1, PTL

=============================================================================
