------------------------------- MODULE MCLsp -------------------------------
(* Instances of LspServer: one word the configuration knows, one typo of   *)
(* it, the words of an inserted directive, and a line end.  The known word  *)
(* has two UTF-16 units.                                                   *)
EXTENDS LspServer

CONSTANTS ferrolex, ignore, known, typo, feed, return, d1, d2

MCWord == {ferrolex, ignore, known, typo, feed}
MCSimilar == [w \in Word |-> IF w = typo THEN {known} ELSE {}]
NoInvalid == {}
InvalidIgnore == {ignore}

Conf(words, ign, p) == [words |-> words, ignored |-> ign, path |-> p]

WithFile == Conf({known, ferrolex, ignore}, {}, TRUE)
MCConfig == {WithFile, Conf({}, {}, FALSE), Conf({known}, {typo}, FALSE)}
OneConfig == {WithFile}

OneText == {<<typo>>}
LineTexts == {<<typo>>, <<known, feed, typo>>}
ReturnWord == MCWord \cup {return}
ReturnTexts == {<<return, typo>>}

(* Either one document is edited in every way under one configuration, or   *)
(* two are open under configurations that change, with few texts.          *)
VARIABLE setting

Editing ==
  /\ \A u \in Uri \ {d1} : editor'[u] = None
  /\ base' = WithFile.words
  /\ \A i \in DOMAIN toServer' : toServer'[i].m = "configure" => toServer'[i].config = WithFile

Configuring ==
  \A u \in Uri : editor'[u] # None => editor'[u].text \in {<<>>, <<typo>>, <<known>>}

SettingInit ==
  /\ Init
  /\ setting \in {"editing", "configuring"}
  /\ setting = "editing" => base = WithFile.words

SettingNext ==
  /\ Next
  /\ IF setting = "editing" THEN Editing ELSE Configuring
  /\ UNCHANGED setting

SettingSpec == SettingInit /\ [][SettingNext]_<<vars, setting>> /\ Fairness
=============================================================================
