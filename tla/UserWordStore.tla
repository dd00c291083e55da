--------------------------- MODULE UserWordStore ---------------------------
(***************************************************************************)
(* What `ferrolex dictionary add-word` promises of a user dictionary: a    *)
(* set of words to which concurrent callers add.  A word whose addition    *)
(* was acknowledged stays for ever; an invalid word is never stored; a     *)
(* failed or interrupted addition may or may not have taken effect.        *)
(***************************************************************************)
CONSTANTS
  Adder,    \* callers of add-word
  Word,     \* what they may want to add
  Invalid   \* words the word-list syntax cannot represent

VARIABLES
  store,    \* the words of the dictionary
  request,  \* the word of every caller's current or last call
  reply,    \* what every caller was last told
  acked     \* the words whose addition was acknowledged

vars == <<store, request, reply, acked>>

Init ==
  /\ store = {}
  /\ request \in [Adder -> Word]
  /\ reply = [t \in Adder |-> "none"]
  /\ acked = {}

Begin(t, w) ==
  /\ reply[t] # "busy"
  /\ reply' = [reply EXCEPT ![t] = "busy"]
  /\ request' = [request EXCEPT ![t] = w]
  /\ UNCHANGED <<store, acked>>

Put(t) ==
  /\ reply[t] = "busy"
  /\ request[t] \notin Invalid
  /\ store' = store \cup {request[t]}
  /\ UNCHANGED <<request, reply, acked>>

Succeed(t) ==
  /\ reply[t] = "busy"
  /\ request[t] \in store
  /\ reply' = [reply EXCEPT ![t] = "ok"]
  /\ acked' = acked \cup {request[t]}
  /\ UNCHANGED <<store, request>>

Fail(t) ==
  /\ reply[t] = "busy"
  /\ reply' = [reply EXCEPT ![t] = "err"]
  /\ UNCHANGED <<store, request, acked>>

(* The caller's process ends, in or between calls. *)
Leave(t) ==
  /\ reply' = [reply EXCEPT ![t] = "none"]
  /\ \E w \in Word : request' = [request EXCEPT ![t] = w]
  /\ UNCHANGED <<store, acked>>

(* The machine stops: of the words only the acknowledged ones are sure.    *)
Lose ==
  /\ store' \in {s \in SUBSET store : acked \subseteq s}
  /\ reply' = [t \in Adder |-> "none"]
  /\ request' \in [Adder -> Word]
  /\ UNCHANGED acked

Next ==
  \/ \E t \in Adder : Put(t) \/ Succeed(t) \/ Fail(t) \/ Leave(t)
  \/ \E t \in Adder, w \in Word : Begin(t, w)
  \/ Lose

Spec == Init /\ [][Next]_vars
=============================================================================
