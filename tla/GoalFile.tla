------------------------------- MODULE GoalFile -------------------------------
(***************************************************************************)
(* GoalManager::save (src/src/control_plane/goal_manager.rs) as several    *)
(* handlers call it at once: each writes its snapshot to one shared        *)
(* temporary name and renames that over the goals file.  No lock is held.  *)
(*                                                                         *)
(* A name leads to a file object; fs::write truncates the object its name  *)
(* leads to and goes on writing it under whatever name it has later.       *)
(***************************************************************************)
EXTENDS Integers, FiniteSets

CONSTANTS
  Saver,     \* the handlers that save
  Snapshot,  \* what may be saved
  Object,    \* file objects
  Nowhere,   \* the name leads to none
  Torn       \* the contents of an object no whole snapshot is in

ASSUME GoalFileAssumption == Nowhere \notin Object /\ Torn \notin Snapshot

VARIABLES
  goals,      \* the object goals.json leads to
  tmp,        \* the object goals.json.tmp leads to
  contents,   \* of every object
  saving,     \* a saver's progress: "no", "open", "write", "rename"
  handle,     \* the object a saver has open
  copy,       \* the snapshot it saves
  overlapped, \* history: two saves ran at the same time
  failed      \* history: the last save this process ended did not reach the goals file

fileVars == <<goals, tmp, contents, saving, handle, copy, overlapped, failed>>

FileInit ==
  /\ goals = Nowhere /\ tmp = Nowhere
  /\ contents = [o \in Object |-> Torn]
  /\ saving = [s \in Saver |-> "no"]
  /\ handle = [s \in Saver |-> Nowhere]
  /\ copy = [s \in Saver |-> Torn]
  /\ overlapped = FALSE /\ failed = FALSE

Saving(s) == saving[s] # "no"
Unused == Object \ ({goals, tmp} \cup {handle[s] : s \in {r \in Saver : saving[r] = "write"}})

\* The snapshot is taken, under a read lock of the store.
TakeSnapshot(s, snapshot) ==
  /\ saving[s] = "no"
  /\ saving' = [saving EXCEPT ![s] = "open"]
  /\ copy' = [copy EXCEPT ![s] = snapshot]
  /\ overlapped' = (overlapped \/ \E r \in Saver \ {s} : Saving(r))
  /\ UNCHANGED <<goals, tmp, contents, handle, failed>>

\* Mutant of Open: the goals file itself is written.
OpenInPlace(s) ==
  /\ saving[s] = "open"
  /\ \E o \in (IF goals = Nowhere THEN Unused ELSE {goals}) :
       /\ goals' = o
       /\ contents' = [contents EXCEPT ![o] = Torn]
       /\ handle' = [handle EXCEPT ![s] = o]
  /\ saving' = [saving EXCEPT ![s] = "write"]
  /\ UNCHANGED <<tmp, copy, overlapped, failed>>
\* fs::write opens the temporary file, creating or truncating it ...
Open(s) ==
  /\ saving[s] = "open"
  /\ \E o \in (IF tmp = Nowhere THEN Unused ELSE {tmp}) :
       /\ tmp' = o
       /\ contents' = [contents EXCEPT ![o] = Torn]
       /\ handle' = [handle EXCEPT ![s] = o]
  /\ saving' = [saving EXCEPT ![s] = "write"]
  /\ UNCHANGED <<goals, copy, overlapped, failed>>

\* ... and writes: over what another saver wrote there a shorter text leaves a tail.
Write(s) ==
  /\ saving[s] = "write"
  /\ \E c \in {copy[s]} \cup (IF contents[handle[s]] = Torn THEN {} ELSE {Torn}) :
       contents' = [contents EXCEPT ![handle[s]] = c]
  /\ saving' = [saving EXCEPT ![s] = "rename"]
  /\ UNCHANGED <<goals, tmp, handle, copy, overlapped, failed>>

\* save returns, and what it held is gone.
EndSave(s) ==
  /\ saving' = [saving EXCEPT ![s] = "no"]
  /\ handle' = [handle EXCEPT ![s] = Nowhere]
  /\ copy' = [copy EXCEPT ![s] = Torn]

\* An I/O error (the disk is full, the directory is gone): it is logged, and the save
\* is given up where it is.  The text may be there in part.
SaveFails(s) ==
  /\ Saving(s) /\ EndSave(s)
  /\ contents' \in {contents} \cup
       (IF saving[s] = "write" THEN {[contents EXCEPT ![handle[s]] = Torn]} ELSE {})
  /\ failed' = TRUE
  /\ UNCHANGED <<goals, tmp, overlapped>>

\* rename: it fails when another saver has renamed the temporary file away.
Rename(s) ==
  /\ saving[s] = "rename" /\ EndSave(s)
  /\ IF tmp = Nowhere THEN UNCHANGED <<goals, tmp>> ELSE goals' = tmp /\ tmp' = Nowhere
  /\ failed' = (tmp = Nowhere)
  /\ UNCHANGED <<contents, overlapped>>

\* The process dies: the savers are gone, the files stay.
Killed ==
  /\ saving' = [s \in Saver |-> "no"]
  /\ handle' = [s \in Saver |-> Nowhere] /\ copy' = [s \in Saver |-> Torn]
  /\ failed' = FALSE
  /\ UNCHANGED <<goals, tmp, contents, overlapped>>

FileNext ==
  \/ \E s \in Saver : \/ \E snapshot \in Snapshot : TakeSnapshot(s, snapshot)
                      \/ Open(s) \/ Write(s) \/ Rename(s) \/ SaveFails(s)
  \/ Killed

FileSpec == FileInit /\ [][FileNext]_fileVars

-----------------------------------------------------------------------------
\* Whatever the moment the process dies at or an I/O error ends a save, the goals file is
\* a whole snapshot, as long as no two saves ever ran at the same time.
FileWhole == (~overlapped /\ goals # Nowhere) => contents[goals] # Torn
=============================================================================
