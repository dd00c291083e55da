------------------------ MODULE SharedUserDictionary ------------------------
(***************************************************************************)
(* The language server and `ferrolex dictionary add-word` on one           *)
(* words.txt: LspServer and UserDictionaryFile share the variable file.    *)
(***************************************************************************)
EXTENDS LspServer

CONSTANTS Adder, Torn, Pid, PidOf, MaxOrphans

VARIABLES pc, word, text, durable, temps, stale, lock, added

(* No machine stops and no process dies here, only steps interleave.       *)
Cli == INSTANCE UserDictionaryFile WITH
  Faults <- {}, acked <- added

cli == <<pc, word, text, durable, temps, stale, lock, added>>

SharedInit == Init /\ Cli!Init

SharedNext ==
  \/ Next /\ UNCHANGED cli
  \/ Cli!Next /\ UNCHANGED <<server, torn, toServer, toClient, client>>

SharedSpec == SharedInit /\ [][SharedNext]_<<vars, cli>>

(* Independently added words are retained: what add-word reported is in the *)
(* file whenever nobody is rewriting it in place.                          *)
AddWordRetained == ~file.held => added \subseteq file.words
=============================================================================
