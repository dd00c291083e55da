------------------------ MODULE DictionaryInstaller ------------------------
(***************************************************************************)
(* DictionaryInstaller::install of crates/ferrolex-dictionaries: several   *)
(* callers, in one process or in many, install reviewed .aff/.dic pairs    *)
(* into one <cache>/<locale> directory.  A step is one call to the file    *)
(* system or to the fetcher, so everything another caller can do between   *)
(* two of them is in the model.                                            *)
(*                                                                         *)
(* A file is its bytes, whether they were synced, and the caller that      *)
(* still has it open for writing: a hard link shares all three with the    *)
(* temporary name it was made from.                                        *)
(***************************************************************************)
EXTENDS Naturals, FiniteSets

CONSTANTS
  Installer,       \* callers of install; each is one OS process or thread
  Manifest,        \* reviewed revisions: [File -> Bytes]
  Bytes,           \* every content a server or another program can supply
  ForeignBytes,    \* contents only another program writes
  Pid,             \* process ids
  PidOf,           \* PidOf[t]: the pid t sees; containers may share one
  Linkers,         \* callers whose view of the directory has hard links
  Faults,          \* the faults the environment may inject
  MaxTemporaries,  \* bound: temporaries one process creates before it exits
  MaxOrphans,      \* bound: temporaries left behind by processes that are gone
  Absent, Partial, \* no such file; a file whose write was cut short
  None             \* no lock holder, no open writer, no temporary

File == {"aff", "dic"}

(* fetch: a bad response; io: a failing file operation; link: hard_link     *)
(* fails although links are supported; kill, power: a process or the        *)
(* machine stops; suspend: a caller sleeps for an hour inside install;      *)
(* foreign: another program writes to the directory.                        *)
Fault == {"fetch", "io", "link", "kill", "power", "suspend", "foreign"}

TempName == File \X Pid \X Nat

ASSUME InstallerAssumption ==
  /\ None \notin Installer
  /\ None \notin TempName
  /\ Absent \notin Bytes \cup {Partial}
  /\ Partial \notin Bytes
  /\ ForeignBytes \subseteq Bytes
  /\ Manifest \subseteq [File -> Bytes \ ForeignBytes]
  /\ Manifest # {}
  /\ PidOf \in [Installer -> Pid]
  /\ Linkers \subseteq Installer
  /\ Faults \subseteq Fault
  /\ MaxTemporaries \in Nat /\ MaxOrphans \in Nat

VARIABLES
  pc,        \* where every caller is; "new", "ok" and "err" are outside install
  manifest,  \* the manifest of its current or last call
  file,      \* the file it is installing
  data,      \* the bytes it fetched
  temp,      \* the temporary it created, the flag `created` included
  counter,   \* TEMPORARY_FILE_COUNTER of its process
  found,     \* the temporary its sweep has found stale and not removed yet
  sawOld,    \* whether it was an hour old at that look; only properties read it
  dest,      \* what the final names hold
  temps,     \* what the temporary names hold, for those that exist
  stale,     \* temporaries that are at least an hour old
  disk,      \* the final names as of the last directory sync
  lock       \* holder of every .install-lock

sweeping == <<found, sawOld>>
callers == <<pc, manifest, file, data, temp, counter, sweeping>>
files == <<dest, temps, stale, disk, lock>>
vars == <<pc, manifest, file, data, temp, counter, found, sawOld,
          dest, temps, stale, disk, lock>>

Outside == {"new", "ok", "err"}

Locked == {"lockedExists", "lockedMatch", "lockedUnlink", "rename",
           "renameMatch", "lockedSync"}

Steps == Locked \cup
  {"exists", "match", "fetch", "sweep", "create", "write", "sync", "link",
   "linkMatch", "unlink", "syncDir", "lock", "cleanup"}

(* What the manifest of a process that has not called install yet is.      *)
AnyManifest == CHOOSE m \in Manifest : TRUE

Content == [bytes: Bytes \cup {Absent, Partial},
            synced: BOOLEAN,
            writer: Installer \cup {None}]

NoFile == [bytes |-> Absent, synced |-> TRUE, writer |-> None]

Exists(f) == dest[f].bytes # Absent

(* The bytes the digest in the manifest of t stands for. *)
Expected(t) == manifest[t][file[t]]

(* Mutants: the digest of an existing file is not compared, or refused.    *)
MatchesAny(t) == TRUE
MatchesNever(t) == FALSE

(* cache_matches: the digest of the bytes read equals the manifest's.      *)
Matches(t) == dest[file[t]].bytes = Expected(t)

(* The digest check of install_file on a response. *)
Verified(t, b) == b = Expected(t)

TypeOK ==
  /\ pc \in [Installer -> Outside \cup Steps]
  /\ manifest \in [Installer -> Manifest]
  /\ file \in [Installer -> File]
  /\ data \in [Installer -> Bytes \cup {Absent}]
  /\ temp \in [Installer -> TempName \cup {None}]
  /\ counter \in [Installer -> Nat]
  /\ dest \in [File -> Content]
  /\ DOMAIN temps \subseteq TempName
  /\ temps \in [DOMAIN temps -> Content]
  /\ found \in [Installer -> TempName \cup {None}]
  /\ sawOld \in [Installer -> BOOLEAN]
  /\ stale \subseteq DOMAIN temps
  /\ disk \in [File -> Content]
  /\ lock \in [File -> Installer \cup {None}]

Init ==
  /\ pc = [t \in Installer |-> "new"]
  /\ manifest = [t \in Installer |-> AnyManifest]
  /\ file = [t \in Installer |-> "aff"]
  /\ data = [t \in Installer |-> Absent]
  /\ temp = [t \in Installer |-> None]
  /\ counter = [t \in Installer |-> 0]
  /\ dest = [f \in File |-> NoFile]
  /\ temps = [n \in {} |-> NoFile]
  /\ found = [t \in Installer |-> None]
  /\ sawOld = [t \in Installer |-> FALSE]
  /\ stale = {}
  /\ disk = [f \in File |-> NoFile]
  /\ lock = [f \in File |-> None]

Goto(t, step) == pc' = [pc EXCEPT ![t] = step]

(* Mutant: the lock outlives its section. *)
UnlockNot(t) == UNCHANGED lock

(* Dropping InstallLock unlocks; a step outside the section leaves it be. *)
Unlock(t) == lock' = [f \in File |-> IF lock[f] = t THEN None ELSE lock[f]]

(* Mutant: a temporary is not removed. *)
RemoveTempNot(names) == UNCHANGED <<temps, stale>>

RemoveTemp(names) ==
  /\ temps' = [n \in DOMAIN temps \ names |-> temps[n]]
  /\ stale' = stale \ names

-----------------------------------------------------------------------------
(* install and install_file                                                *)

Install(t, m) ==
  /\ pc[t] \in Outside
  /\ counter[t] + Cardinality(File) <= MaxTemporaries
  /\ manifest' = [manifest EXCEPT ![t] = m]
  /\ file' = [file EXCEPT ![t] = "aff"]
  /\ Goto(t, "exists")
  /\ UNCHANGED <<data, temp, counter, sweeping, files>>

DestinationExists(t) ==
  /\ pc[t] = "exists"
  /\ Goto(t, IF Exists(file[t]) THEN "match" ELSE "fetch")
  /\ UNCHANGED <<manifest, file, data, temp, counter, sweeping, files>>

(* One file is in place: go on to the words, or tell the caller Ok. *)
FileInstalled(t) ==
  /\ IF file[t] = "aff"
     THEN Goto(t, "exists") /\ file' = [file EXCEPT ![t] = "dic"]
     ELSE Goto(t, "ok") /\ UNCHANGED file
  /\ data' = [data EXCEPT ![t] = Absent]
  /\ temp' = [temp EXCEPT ![t] = None]
  /\ UNCHANGED <<manifest, counter, sweeping>>

(* An existing file is reused as it is, or is a CacheConflict. *)
ReuseDestination(t) ==
  /\ pc[t] = "match"
  /\ IF Matches(t)
     THEN FileInstalled(t)
     ELSE Goto(t, "cleanup") /\ UNCHANGED <<manifest, file, data, temp, counter,
                                            sweeping>>
  /\ UNCHANGED files

(* What the server and the network may supply. *)
Response(t) == IF "fetch" \in Faults THEN Bytes ELSE {Expected(t)}

(* A response is an error, or bytes whose digest decides; bytes that are    *)
(* refused are dropped.                                                    *)
Fetch(t) ==
  /\ pc[t] = "fetch"
  /\ \E b \in Response(t) :
       \/ /\ Verified(t, b)
          /\ data' = [data EXCEPT ![t] = b]
          /\ Goto(t, "sweep")
       \/ /\ ~Verified(t, b)
          /\ UNCHANGED data
          /\ Goto(t, "cleanup")
  /\ UNCHANGED <<manifest, file, temp, counter, sweeping, files>>

-----------------------------------------------------------------------------
(* atomic_write_new_with_hard_link                                         *)

(* Mutant: the age of a temporary is ignored. *)
SweptYoung(t) == {n \in DOMAIN temps : n[1] = file[t]}

(* Everybody's temporaries of this file go once they are an hour old. *)
Swept(t) == {n \in stale : n[1] = file[t]}

(* metadata() of an entry says that it is an hour old.                     *)
FindStale(t) ==
  /\ pc[t] = "sweep"
  /\ found[t] = None
  /\ \E n \in Swept(t) :
       /\ found' = [found EXCEPT ![t] = n]
       /\ sawOld' = [sawOld EXCEPT ![t] = n \in stale]
  /\ UNCHANGED <<pc, manifest, file, data, temp, counter, files>>

(* remove_file takes whatever has that name by now: its owner may have      *)
(* renewed it, or made another file of that name, since the look.           *)
RemoveStale(t) ==
  /\ pc[t] = "sweep"
  /\ found[t] # None
  /\ RemoveTemp({found[t]})
  /\ found' = [found EXCEPT ![t] = None]
  /\ sawOld' = [sawOld EXCEPT ![t] = FALSE]
  /\ UNCHANGED <<pc, manifest, file, data, temp, counter, dest, disk, lock>>

(* The sweep is done.  An entry read_dir did not list, one that got old     *)
(* after the look and one whose look or removal failed are left.            *)
EndSweep(t) ==
  /\ pc[t] = "sweep"
  /\ found[t] = None
  /\ Goto(t, "create")
  /\ UNCHANGED <<manifest, file, data, temp, counter, sweeping, files>>

Sweep(t) == FindStale(t) \/ RemoveStale(t) \/ EndSweep(t)

(* temporary_sibling *)
NextTemp(t) == <<file[t], PidOf[t], counter[t]>>

(* create_new fails on a name that exists; `created` then stays false.     *)
OwnTemp(t) == IF NextTemp(t) \in DOMAIN temps THEN None ELSE NextTemp(t)

Create(t) ==
  /\ pc[t] = "create"
  /\ counter' = [counter EXCEPT ![t] = @ + 1]
  /\ temp' = [temp EXCEPT ![t] = OwnTemp(t)]
  /\ IF NextTemp(t) \in DOMAIN temps
     THEN Goto(t, "cleanup") /\ UNCHANGED temps
     ELSE /\ Goto(t, "write")
          /\ temps' = [n \in DOMAIN temps \cup {NextTemp(t)} |->
                         IF n = NextTemp(t)
                         THEN [bytes |-> Partial, synced |-> FALSE, writer |-> t]
                         ELSE temps[n]]
  /\ UNCHANGED <<manifest, file, data, sweeping, dest, stale, disk, lock>>

(* The open file of t, under whatever names it has by now. *)
OpenFile(t, names, new) ==
  [n \in DOMAIN names |-> IF names[n].writer = t THEN new ELSE names[n]]

Written(t) == data[t]

Write(t) ==
  /\ pc[t] = "write"
  /\ LET new == [bytes |-> Written(t), synced |-> FALSE, writer |-> t]
     IN  temps' = OpenFile(t, temps, new) /\ dest' = OpenFile(t, dest, new)
  /\ stale' = {n \in stale : temps[n].writer # t}
  /\ Goto(t, "sync")
  /\ UNCHANGED <<manifest, file, data, temp, counter, sweeping, disk, lock>>

(* Mutant: the data is not synced. *)
SyncedNot(t) == [bytes |-> Written(t), synced |-> FALSE, writer |-> None]

(* Nothing is written to the file after sync_all. *)
Synced(t) == [bytes |-> Written(t), synced |-> TRUE, writer |-> None]

Sync(t) ==
  /\ pc[t] = "sync"
  /\ temps' = OpenFile(t, temps, Synced(t))
  /\ dest' = OpenFile(t, dest, Synced(t))
  /\ Goto(t, "link")
  /\ UNCHANGED <<manifest, file, data, temp, counter, sweeping, stale, disk, lock>>

(* hard_link: Ok, AlreadyExists, or any other error; a swept temporary is   *)
(* one of those.                                                           *)
Link(t) ==
  /\ pc[t] = "link"
  /\ \/ /\ t \in Linkers /\ temp[t] \in DOMAIN temps /\ ~Exists(file[t])
        /\ Goto(t, "unlink")
        /\ dest' = [dest EXCEPT ![file[t]] = temps[temp[t]]]
     \/ /\ t \in Linkers /\ temp[t] \in DOMAIN temps /\ Exists(file[t])
        /\ Goto(t, "linkMatch")
        /\ UNCHANGED dest
     \/ /\ t \notin Linkers \/ temp[t] \notin DOMAIN temps \/ "link" \in Faults
        /\ Goto(t, "lock")
        /\ UNCHANGED dest
  /\ UNCHANGED <<manifest, file, data, temp, counter, sweeping, temps, stale,
                 disk, lock>>

(* AlreadyExists: another caller was first. *)
MatchWinner(t) ==
  /\ pc[t] = "linkMatch"
  /\ Goto(t, IF Matches(t) THEN "unlink" ELSE "cleanup")
  /\ UNCHANGED <<manifest, file, data, temp, counter, sweeping, files>>

(* Removing a temporary that was swept meanwhile is an error. *)
Unlink(t) ==
  /\ pc[t] \in {"unlink", "lockedUnlink"}
  /\ RemoveTemp({temp[t]})
  /\ IF temp[t] \in DOMAIN temps
     THEN /\ Goto(t, IF pc[t] = "unlink" THEN "syncDir" ELSE "lockedSync")
          /\ UNCHANGED lock
     ELSE Goto(t, "cleanup") /\ Unlock(t)
  /\ UNCHANGED <<manifest, file, data, temp, counter, sweeping, dest, disk>>

(* sync_parent_directory, then Ok for this file. *)
SyncDirectory(t) ==
  /\ pc[t] \in {"syncDir", "lockedSync"}
  /\ disk' = dest
  /\ Unlock(t)
  /\ FileInstalled(t)
  /\ UNCHANGED <<dest, temps, stale>>

(* The error return: an own temporary is removed, a foreign one is not. *)
Cleanup(t) ==
  /\ pc[t] = "cleanup"
  /\ RemoveTemp({temp[t]})
  /\ temp' = [temp EXCEPT ![t] = None]
  /\ data' = [data EXCEPT ![t] = Absent]
  /\ Goto(t, "err")
  /\ UNCHANGED <<manifest, file, counter, sweeping, dest, disk, lock>>

-----------------------------------------------------------------------------
(* rename_without_hard_links                                               *)

(* Mutant: no lock around the check and the rename. *)
LockIgnored(t) == TRUE

LockFree(t) == lock[file[t]] = None

AcquireLock(t) ==
  /\ pc[t] = "lock"
  /\ LockFree(t)
  /\ lock' = [lock EXCEPT ![file[t]] = t]
  /\ Goto(t, "lockedExists")
  /\ UNCHANGED <<manifest, file, data, temp, counter, sweeping, dest, temps,
                 stale, disk>>

LockedExists(t) ==
  /\ pc[t] = "lockedExists"
  /\ Goto(t, IF Exists(file[t]) THEN "lockedMatch" ELSE "rename")
  /\ UNCHANGED <<manifest, file, data, temp, counter, sweeping, files>>

LockedMatch(t) ==
  /\ pc[t] = "lockedMatch"
  /\ IF Matches(t)
     THEN Goto(t, "lockedUnlink") /\ UNCHANGED lock
     ELSE Goto(t, "cleanup") /\ Unlock(t)
  /\ UNCHANGED <<manifest, file, data, temp, counter, sweeping, dest, temps,
                 stale, disk>>

(* rename(2) replaces whatever has the final name by now. *)
Rename(t) ==
  /\ pc[t] = "rename"
  /\ IF temp[t] \in DOMAIN temps
     THEN /\ dest' = [dest EXCEPT ![file[t]] = temps[temp[t]]]
          /\ RemoveTemp({temp[t]})
          /\ Goto(t, "renameMatch")
          /\ UNCHANGED lock
     ELSE /\ Goto(t, "cleanup")
          /\ Unlock(t)
          /\ UNCHANGED <<dest, temps, stale>>
  /\ UNCHANGED <<manifest, file, data, temp, counter, sweeping, disk>>

RenameMatch(t) ==
  /\ pc[t] = "renameMatch"
  /\ IF Matches(t)
     THEN Goto(t, "lockedSync") /\ UNCHANGED lock
     ELSE Goto(t, "cleanup") /\ Unlock(t)
  /\ UNCHANGED <<manifest, file, data, temp, counter, sweeping, dest, temps,
                 stale, disk>>

-----------------------------------------------------------------------------
(* Errors, process ends and the world around                               *)

(* The open file of t is closed, under whatever names it has. *)
Close(t, names) ==
  [n \in DOMAIN names |-> IF names[n].writer = t
                          THEN [names[n] EXCEPT !.writer = None]
                          ELSE names[n]]

(* Every `?`, create_dir_all of install included: the call fails and its    *)
(* effect is absent.                                                       *)
IoError(t) ==
  /\ "io" \in Faults
  /\ \/ pc[t] = "exists" /\ file[t] = "aff"
     \/ pc[t] \in Steps \ {"exists", "fetch", "sweep", "link", "lockedExists",
        "cleanup"}
  /\ Goto(t, "cleanup")
  /\ temps' = Close(t, temps)
  /\ dest' = Close(t, dest)
  /\ Unlock(t)
  /\ UNCHANGED <<manifest, file, data, temp, counter, sweeping, stale, disk>>

(* Its files are closed and its locks released by the operating system.    *)
Reset(t) ==
  /\ Goto(t, "new")
  /\ data' = [data EXCEPT ![t] = Absent]
  /\ temp' = [temp EXCEPT ![t] = None]
  /\ counter' = [counter EXCEPT ![t] = 0]
  /\ manifest' = [manifest EXCEPT ![t] = AnyManifest]
  /\ file' = [file EXCEPT ![t] = "aff"]
  /\ found' = [found EXCEPT ![t] = None]
  /\ sawOld' = [sawOld EXCEPT ![t] = FALSE]

Exit(t) ==
  /\ pc[t] \in {"ok", "err"}
  /\ Reset(t)
  /\ UNCHANGED files

(* The temporaries of processes that are gone. *)
Orphans == DOMAIN temps \ {temp[t] : t \in Installer}

Kill(t) ==
  /\ "kill" \in Faults
  /\ Cardinality(Orphans) < MaxOrphans
  /\ pc[t] \in Steps
  /\ Reset(t)
  /\ temps' = Close(t, temps)
  /\ dest' = Close(t, dest)
  /\ Unlock(t)
  /\ UNCHANGED <<stale, disk>>

(* What a power loss leaves of a file that is still named: unsynced bytes  *)
(* may be cut short.                                                       *)
Surviving(c) ==
  {[bytes |-> b, synced |-> TRUE, writer |-> None] :
     b \in {c.bytes} \cup (IF c.synced THEN {} ELSE {Partial})}

(* Names made since the last directory sync may be there or not.           *)
PowerLoss ==
  /\ "power" \in Faults
  /\ \E aff \in Surviving(dest["aff"]) \cup Surviving(disk["aff"]),
        dic \in Surviving(dest["dic"]) \cup Surviving(disk["dic"]) :
       /\ dest' = [f \in File |-> IF f = "aff" THEN aff ELSE dic]
       /\ disk' = dest'
  /\ \E names \in SUBSET DOMAIN temps : \E torn \in SUBSET names :
       /\ Cardinality(names) <= MaxOrphans
       /\ temps' = [n \in names |->
                      [bytes |-> IF n \in torn /\ ~temps[n].synced
                                 THEN Partial ELSE temps[n].bytes,
                       synced |-> TRUE,
                       writer |-> None]]
       /\ stale' = stale \cap names
  /\ lock' = [f \in File |-> None]
  /\ pc' = [t \in Installer |-> "new"]
  /\ data' = [t \in Installer |-> Absent]
  /\ temp' = [t \in Installer |-> None]
  /\ counter' = [t \in Installer |-> 0]
  /\ manifest' = [t \in Installer |-> AnyManifest]
  /\ file' = [t \in Installer |-> "aff"]
  /\ found' = [t \in Installer |-> None]
  /\ sawOld' = [t \in Installer |-> FALSE]

(* An hour passes; a running caller's temporary gets that old only when the *)
(* caller is suspended.                                                    *)
Age(n) ==
  /\ n \in DOMAIN temps \ stale
  /\ (\E t \in Installer : temp[t] = n) => "suspend" \in Faults
  /\ stale' = stale \cup {n}
  /\ UNCHANGED <<callers, dest, temps, disk, lock>>

(* Another program puts a file of its own there. *)
ForeignWrite(f) ==
  /\ "foreign" \in Faults
  /\ dest[f].bytes = Absent
  /\ \E b \in ForeignBytes :
       dest' = [dest EXCEPT ![f] = [bytes |-> b, synced |-> TRUE, writer |-> None]]
  /\ UNCHANGED <<callers, temps, stale, disk, lock>>

-----------------------------------------------------------------------------

Step(t) ==
  \/ DestinationExists(t) \/ ReuseDestination(t) \/ Fetch(t)
  \/ Sweep(t) \/ Create(t) \/ Write(t) \/ Sync(t)
  \/ Link(t) \/ MatchWinner(t) \/ Unlink(t) \/ SyncDirectory(t) \/ Cleanup(t)
  \/ AcquireLock(t) \/ LockedExists(t) \/ LockedMatch(t)
  \/ Rename(t) \/ RenameMatch(t)

Next ==
  \/ \E t \in Installer : Step(t) \/ IoError(t) \/ Exit(t) \/ Kill(t)
  \/ \E t \in Installer, m \in Manifest : Install(t, m)
  \/ PowerLoss
  \/ \E n \in DOMAIN temps : Age(n)
  \/ \E f \in File : ForeignWrite(f)

Spec == Init /\ [][Next]_vars

(* A running caller goes on: nothing in install waits for anything but the  *)
(* network, which times out, and a lock, which its holder releases.  A lock  *)
(* that is released again and again goes to each waiter at some time: the    *)
(* calls that compete for it are finitely many.                             *)
FairSpec ==
  Spec /\ \A t \in Installer : WF_vars(Step(t)) /\ SF_vars(AcquireLock(t))

-----------------------------------------------------------------------------
(* Properties                                                              *)

(* Under a final name there is nothing but the verified bytes of a          *)
(* manifest or what another program put there: never a partial, torn or     *)
(* unverified file, whenever callers, processes or the machine stop.       *)
VerifiedOnly ==
  \A f \in File : \A c \in {dest[f], disk[f]} :
    c.bytes \in {Absent} \cup ForeignBytes \cup {m[f] : m \in Manifest}

(* Affixes go first, so the words of one revision never stand beside the    *)
(* affixes of another: install_file for the .dic runs only after the .aff   *)
(* was found or made to match.                                             *)
NoMixedPair ==
  dest["dic"].bytes \notin {Absent} \cup ForeignBytes =>
    \E m \in Manifest : \A f \in File : dest[f].bytes = m[f]

(* install returned Ok: both files carry the bytes of the caller's manifest, *)
(* and go on doing so.                                                      *)
SuccessMeansInstalled ==
  \A t \in Installer : pc[t] = "ok" =>
    \A f \in File : dest[f].bytes = manifest[t][f]

(* The cache is write-once: no step of an installer gives a final name that *)
(* exists other bytes ("a cache file with different bytes is preserved").   *)
NeverReplaced ==
  [][\A f \in File : dest[f].bytes # Absent =>
                       dest'[f].bytes = dest[f].bytes]_vars

(* From its creation to the call that removes or renames it. *)
NeedsTemp ==
  {"write", "sync", "link", "linkMatch", "unlink", "lock",
   "lockedExists", "lockedMatch", "lockedUnlink", "rename"}

(* A sweep that goes on has seen n an hour old. *)
BeingSwept(n) == \E s \in Installer : found[s] = n /\ sawOld[s]

(* Nobody takes away the temporary a running caller still needs, unless a   *)
(* sweep that is under way has seen it an hour old: a young file is found   *)
(* by no sweep, and a caller whose create_new was refused does not clean up *)
(* a file it did not create.  That the file is renewed after the sweep has  *)
(* looked does not save it.                                                 *)
RunningTempsKept ==
  [][\A t \in Installer :
       /\ temp[t] \in DOMAIN temps
       /\ ~BeingSwept(temp[t])
       /\ pc[t] \in NeedsTemp
       /\ pc'[t] = pc[t]
       => temp[t] \in DOMAIN temps']_vars

(* With no failing remove_file and no dying process, every temporary        *)
(* belongs to a running caller: no return path of install leaks one.        *)
NoLeftovers ==
  \A n \in DOMAIN temps : \E t \in Installer : temp[t] = n /\ pc[t] \in Steps

(* Callers of one revision never make each other fail: whoever loses the    *)
(* race for a name to the same bytes succeeds with them.  With nothing      *)
(* failing underneath, only another revision in place is an error.          *)
RacesSucceed ==
  \A t \in Installer : pc[t] = "err" =>
    \E f \in File : dest[f].bytes \notin {Absent, manifest[t][f]}

(* Every call returns.                                                      *)
InstallReturns ==
  \A t \in Installer : pc[t] \in Steps ~> pc[t] \in Outside

(* The store a caller sees is written once and verified.                    *)
Store == INSTANCE VerifiedStore WITH
  store <- [f \in File |-> dest[f].bytes],
  request <- manifest,
  reply <- [t \in Installer |-> IF pc[t] = "new" THEN "none"
                                ELSE IF pc[t] \in Steps THEN "busy" ELSE pc[t]]

ImplementsStore == Store!Spec

-----------------------------------------------------------------------------
(* The inductive invariant behind VerifiedOnly: no two callers share a pid, *)
(* so a temporary is the work of the caller that holds its name.            *)

PidsDistinct == \A s, t \in Installer : PidOf[s] = PidOf[t] => s = t

(* A caller past create_new holds a name that carries its pid. *)
HoldsName ==
  \A t \in Installer :
    /\ pc[t] \in NeedsTemp => temp[t] # None
    /\ temp[t] # None => temp[t][2] = PidOf[t]

(* What a caller holds in memory passed the digest check. *)
HoldsVerified ==
  \A t \in Installer :
    pc[t] \in NeedsTemp \cup {"sweep", "create"} => data[t] = Expected(t)

(* Only the caller that created a temporary writes to it, and only now. *)
WriterHolds ==
  \A n \in DOMAIN temps : LET t == temps[n].writer IN
    t # None => pc[t] \in {"write", "sync"} /\ temp[t] = n

(* The temporary of a caller, if it was not swept, is as far as its caller. *)
TempProgress ==
  \A t \in Installer : pc[t] \in NeedsTemp /\ temp[t] \in DOMAIN temps =>
    LET c == temps[temp[t]] IN
    /\ pc[t] \in {"write", "sync"} => c.writer = t
    /\ pc[t] # "write" => c.bytes = data[t]
    /\ pc[t] \notin {"write", "sync"} => c.synced

(* A final name, now or after a power loss, is a closed and synced file.    *)
FinalFiles ==
  \A f \in File : \A c \in {dest[f], disk[f]} : c.synced /\ c.writer = None

(* A sweep finds only what is an hour old. *)
FoundOld == \A t \in Installer : found[t] # None => sawOld[t]

VerifiedInv ==
  /\ HoldsName
  /\ HoldsVerified
  /\ WriterHolds
  /\ TempProgress
  /\ FinalFiles
  /\ VerifiedOnly

(* With hard links everywhere, a caller gets to the lock only without its   *)
(* temporary, so nothing is ever renamed.                                   *)
AllLink == Linkers = Installer /\ "link" \notin Faults /\ "power" \notin Faults

(* With hard links nowhere everybody takes the lock.  It keeps installers   *)
(* apart, not other programs: those must leave the directory alone.        *)
AllRename == Linkers = {} /\ "power" \notin Faults /\ "foreign" \notin Faults

(* All callers publish the same way.  A caller that renames replaces what a *)
(* caller that links put there after the look under the lock.               *)
Uniform == AllLink \/ AllRename

NothingToRename ==
  \A t \in Installer :
    /\ pc[t] \in {"lock", "lockedExists", "lockedMatch", "lockedUnlink",
       "rename"} =>
         temp[t] \notin DOMAIN temps
    /\ pc[t] \notin {"renameMatch", "lockedSync"}

(* Whoever is in the locked section holds the lock of its file; what it saw *)
(* there is still so when it renames.                                       *)
OneRenames ==
  \A t \in Installer :
    /\ pc[t] \in Locked => lock[file[t]] = t
    /\ pc[t] = "rename" => ~Exists(file[t])
    /\ pc[t] \notin {"linkMatch", "unlink", "syncDir"}

(* Where a caller has put its file in place or found it there. *)
InPlace == {"unlink", "syncDir", "lockedUnlink", "renameMatch", "lockedSync"}

(* What a caller has put or found in place so far. *)
InOrder ==
  \A t \in Installer :
    /\ file[t] = "dic" => dest["aff"].bytes = manifest[t]["aff"]
    /\ pc[t] \in InPlace => dest[file[t]].bytes = Expected(t)
    /\ pc[t] = "ok" => file[t] = "dic" /\ dest["dic"].bytes = manifest[t]["dic"]

UniformInv ==
  /\ AllLink => NothingToRename
  /\ AllRename => OneRenames
  /\ InOrder
  /\ NoMixedPair

(* Every temporary is that of a caller that still has to use or remove it,  *)
(* unless processes die.                                                    *)
TempsHeld ==
  \A n \in DOMAIN temps :
    \E t \in Installer : temp[t] = n /\ pc[t] \in NeedsTemp \cup {"cleanup"}

(* Nothing fails, dies or sleeps underneath. *)
Calm == {"fetch", "io", "kill", "power", "suspend"} \cap Faults = {}

(* Then no temporary is lost or gets old, a file that was there to compare  *)
(* still is, and a caller gives up only before another revision.            *)
CalmInv ==
  /\ TempsHeld
  /\ stale = {}
  /\ \A t \in Installer :
       /\ found[t] = None
       /\ pc[t] \in NeedsTemp => temp[t] \in DOMAIN temps
       /\ pc[t] \in {"match", "linkMatch", "lockedMatch"} => Exists(file[t])
       /\ pc[t] \in {"cleanup", "err"} =>
            \E f \in File : dest[f].bytes \notin {Absent, manifest[t][f]}
=============================================================================
