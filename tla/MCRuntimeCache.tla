--------------------------- MODULE MCRuntimeCache ---------------------------
(* Two installs, one of them by an older version of the program, and a      *)
(* reader.  A user may replace the words by his own, which declare their    *)
(* encoding and are no words under the catalog's.                          *)
EXTENDS RuntimeCache, TLC

CONSTANTS i1, i2, r1, old, new

MCManifest == {[f \in {"aff", "dic"} |-> <<f, "reviewed">>]}
MCForeign == {<<"own">>}

Pair(dic, encodings) ==
  [aff |-> <<"aff", "reviewed">>, dic |-> dic, encodings |-> encodings]
MCImportable ==
  {Pair(<<"dic", "reviewed">>, Policy), Pair(<<"dic", "reviewed">>, Declared),
   Pair(<<"own">>, Declared)}

MCSemanticsOf == (i1 :> new) @@ (i2 :> old) @@ (r1 :> new)
=============================================================================
