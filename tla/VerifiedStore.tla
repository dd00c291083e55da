--------------------------- MODULE VerifiedStore ---------------------------
(***************************************************************************)
(* What the dictionary installer promises, without saying how: a locale    *)
(* directory that is written once per file, with the bytes a caller's      *)
(* manifest names and in the order affixes, then words.  A caller is told  *)
(* "ok" only while both files carry the bytes of its manifest.             *)
(***************************************************************************)
CONSTANTS
  Installer,   \* the callers of DictionaryInstaller::install
  File,        \* the files of a locale
  Manifest,    \* reviewed manifests: the verified bytes of every file
  ForeignBytes,\* bytes no manifest names, put there by some other program
  Absent       \* the file does not exist

VARIABLES
  store,       \* the bytes under every final name
  request,     \* the manifest of every caller's current or last call
  reply        \* what every caller was last told

vars == <<store, request, reply>>

Reply == {"none", "busy", "ok", "err"}

Init ==
  /\ store = [f \in File |-> Absent]
  /\ request \in [Installer -> Manifest]
  /\ reply = [t \in Installer |-> "none"]

Begin(t, m) ==
  /\ reply[t] # "busy"
  /\ reply' = [reply EXCEPT ![t] = "busy"]
  /\ request' = [request EXCEPT ![t] = m]
  /\ UNCHANGED store

(* A running caller's manifest fills a file that does not exist; the words *)
(* only once the affixes of the same manifest are in place.                *)
Put(t, f) ==
  /\ reply[t] = "busy"
  /\ store[f] = Absent
  /\ f = "dic" => store["aff"] = request[t]["aff"]
  /\ store' = [store EXCEPT ![f] = request[t][f]]
  /\ UNCHANGED <<request, reply>>

PutForeign(f) ==
  /\ store[f] = Absent
  /\ \E b \in ForeignBytes : store' = [store EXCEPT ![f] = b]
  /\ UNCHANGED <<request, reply>>

Succeed(t) ==
  /\ reply[t] = "busy"
  /\ store = request[t]
  /\ reply' = [reply EXCEPT ![t] = "ok"]
  /\ UNCHANGED <<store, request>>

Fail(t) ==
  /\ reply[t] = "busy"
  /\ reply' = [reply EXCEPT ![t] = "err"]
  /\ UNCHANGED <<store, request>>

(* The caller's process ends, in or between calls. *)
Leave(t) ==
  /\ reply' = [reply EXCEPT ![t] = "none"]
  /\ \E m \in Manifest : request' = [request EXCEPT ![t] = m]
  /\ UNCHANGED store

Next ==
  \/ \E t \in Installer : Succeed(t) \/ Fail(t) \/ Leave(t)
  \/ \E t \in Installer, m \in Manifest : Begin(t, m)
  \/ \E t \in Installer, f \in File : Put(t, f)
  \/ \E f \in File : PutForeign(f)

Spec == Init /\ [][Next]_vars
=============================================================================
