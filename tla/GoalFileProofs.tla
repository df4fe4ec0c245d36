---------------------------- MODULE GoalFileProofs ----------------------------
(***************************************************************************)
(* Proof that the goals file of module GoalFile is whole, for every number *)
(* of savers and file objects and whatever the snapshots are.              *)
(*                                                                         *)
(* FileInv says, of savers that never overlapped, that one saves at a time *)
(* and how far it is: the temporary name leads to an object of its own,    *)
(* empty while it is open and whole before it is renamed.                  *)
(***************************************************************************)
EXTENDS GoalFile, TLAPS

FileTypeOK ==
  /\ goals \in Object \cup {Nowhere} /\ tmp \in Object \cup {Nowhere}
  /\ contents \in [Object -> Snapshot \cup {Torn}]
  /\ saving \in [Saver -> {"no", "open", "write", "rename"}]
  /\ handle \in [Saver -> Object \cup {Nowhere}]
  /\ copy \in [Saver -> Snapshot \cup {Torn}]
  /\ overlapped \in BOOLEAN /\ failed \in BOOLEAN

\* What a saver saves is whole; what it writes to is an object.
CopiesWhole ==
  \A s \in Saver : /\ Saving(s) => copy[s] \in Snapshot
                   /\ saving[s] = "write" => handle[s] \in Object

\* The names lead to different objects, and the one renamed last was whole.
NamesApart == (goals = tmp => goals = Nowhere) /\ FileWhole

\* One saver at a time, and the object it has open is the temporary file.
OneSaver == \A r, s \in Saver : Saving(r) /\ Saving(s) => r = s
SaverAlone ==
  \A s \in Saver :
    /\ saving[s] = "write" => /\ tmp \in Object /\ handle[s] = tmp
                              /\ contents[tmp] = Torn
    /\ saving[s] = "rename" => tmp \in Object /\ contents[tmp] = copy[s]

FileInv ==
  /\ FileTypeOK
  /\ CopiesWhole
  /\ ~overlapped => NamesApart /\ OneSaver /\ SaverAlone

-----------------------------------------------------------------------------
\* FileInit has no saver and no file.
LEMMA FileInitInv == FileInit => FileInv
  BY GoalFileAssumption
  DEF FileInit, FileInv, FileTypeOK, CopiesWhole, NamesApart, FileWhole, OneSaver, SaverAlone, Saving

\* A snapshot taken while nobody saves leaves its taker alone.
LEMMA TakeSnapshotInv ==
  ASSUME FileInv, NEW s \in Saver, NEW snapshot \in Snapshot, TakeSnapshot(s, snapshot)
  PROVE  FileInv'
<1>1. FileTypeOK'
  BY DEF FileInv, FileTypeOK, TakeSnapshot, Saving
<1>2. CopiesWhole'
  BY DEF FileInv, FileTypeOK, CopiesWhole, TakeSnapshot, Saving
<1>3. ASSUME ~overlapped' PROVE NamesApart' /\ OneSaver' /\ SaverAlone'
  <2>1. ~overlapped /\ \A r \in Saver \ {s} : ~Saving(r)
    BY <1>3 DEF TakeSnapshot
  <2>2. \A r \in Saver \ {s} : ~Saving(r)'
    BY <2>1 DEF TakeSnapshot, Saving, FileInv, FileTypeOK
  <2>3. saving'[s] = "open"
    BY DEF TakeSnapshot, FileInv, FileTypeOK
  <2> QED
    BY <2>1, <2>2, <2>3
    DEF TakeSnapshot, FileInv, FileTypeOK, NamesApart, FileWhole, OneSaver, SaverAlone, Saving
<1> QED
  BY <1>1, <1>2, <1>3 DEF FileInv

\* The temporary file is opened, never the goals file.
LEMMA OpenInv ==
  ASSUME FileInv, NEW s \in Saver, Open(s)
  PROVE  FileInv'
<1>1. PICK o \in Object : /\ tmp = Nowhere => o \in Unused
                          /\ tmp # Nowhere => o = tmp
                          /\ tmp' = o
                          /\ contents' = [contents EXCEPT ![o] = Torn]
                          /\ handle' = [handle EXCEPT ![s] = o]
  BY DEF Open, Unused, FileInv, FileTypeOK
<1>2. FileTypeOK'
  BY <1>1 DEF Open, FileInv, FileTypeOK
<1>3. CopiesWhole'
  BY <1>1 DEF Open, FileInv, FileTypeOK, CopiesWhole, Saving
<1>4. ASSUME ~overlapped' PROVE NamesApart' /\ OneSaver' /\ SaverAlone'
  <2>1. ~overlapped
    BY <1>4 DEF Open
  <2>2. goals # o
    BY <1>1, <2>1, GoalFileAssumption DEF Unused, FileInv, NamesApart
  <2>3. NamesApart'
    BY <1>1, <2>1, <2>2, GoalFileAssumption DEF Open, FileInv, FileTypeOK, NamesApart, FileWhole
  <2>4. OneSaver'
    BY <2>1 DEF Open, FileInv, FileTypeOK, OneSaver, Saving
  <2>5. \A r \in Saver \ {s} : saving[r] = "no"
    BY <2>1 DEF Open, FileInv, FileTypeOK, OneSaver, Saving
  <2>6. SaverAlone'
    BY <1>1, <2>1, <2>5 DEF Open, FileInv, FileTypeOK, SaverAlone
  <2> QED
    BY <2>3, <2>4, <2>6
<1> QED
  BY <1>2, <1>3, <1>4 DEF FileInv

\* Into the empty object nobody else has open goes the whole snapshot.
LEMMA WriteInv ==
  ASSUME FileInv, NEW s \in Saver, Write(s)
  PROVE  FileInv'
<1>1. copy[s] \in Snapshot /\ handle[s] \in Object
  BY DEF Write, FileInv, CopiesWhole, Saving
<1>2. PICK c \in {copy[s]} \cup (IF contents[handle[s]] = Torn THEN {} ELSE {Torn}) :
        contents' = [contents EXCEPT ![handle[s]] = c]
  BY DEF Write
<1>3. FileTypeOK'
  BY <1>1, <1>2 DEF Write, FileInv, FileTypeOK
<1>4. CopiesWhole'
  BY DEF Write, FileInv, FileTypeOK, CopiesWhole, Saving
<1>5. ASSUME ~overlapped' PROVE NamesApart' /\ OneSaver' /\ SaverAlone'
  <2>1. ~overlapped
    BY <1>5 DEF Write
  <2>2. tmp \in Object /\ handle[s] = tmp /\ contents[tmp] = Torn /\ goals # tmp
    BY <2>1, GoalFileAssumption DEF Write, FileInv, SaverAlone, NamesApart
  <2>3. c = copy[s]
    BY <1>1, <1>2, <2>2
  <2>4. NamesApart'
    BY <1>2, <2>1, <2>2 DEF Write, FileInv, FileTypeOK, NamesApart, FileWhole
  <2>5. OneSaver'
    BY <2>1 DEF Write, FileInv, FileTypeOK, OneSaver, Saving
  <2>6. \A r \in Saver \ {s} : saving[r] = "no"
    BY <2>1 DEF Write, FileInv, FileTypeOK, OneSaver, Saving
  <2>7. SaverAlone'
    BY <1>2, <2>2, <2>3, <2>6 DEF Write, FileInv, FileTypeOK, SaverAlone
  <2> QED
    BY <2>4, <2>5, <2>7
<1> QED
  BY <1>3, <1>4, <1>5 DEF FileInv

\* What is renamed over the goals file is whole.
LEMMA RenameInv ==
  ASSUME FileInv, NEW s \in Saver, Rename(s)
  PROVE  FileInv'
<1>1. FileTypeOK'
  BY DEF Rename, EndSave, FileInv, FileTypeOK
<1>2. CopiesWhole'
  BY DEF Rename, EndSave, FileInv, FileTypeOK, CopiesWhole, Saving
<1>3. ASSUME ~overlapped' PROVE NamesApart' /\ OneSaver' /\ SaverAlone'
  <2>1. ~overlapped
    BY <1>3 DEF Rename, EndSave
  <2>2. tmp \in Object /\ contents[tmp] # Torn
    BY <2>1, GoalFileAssumption DEF Rename, EndSave, FileInv, SaverAlone, CopiesWhole, Saving
  <2>3. \A r \in Saver : saving'[r] = "no"
    BY <2>1 DEF Rename, EndSave, FileInv, FileTypeOK, OneSaver, Saving
  <2>4. NamesApart'
    BY <2>2, GoalFileAssumption DEF Rename, EndSave, NamesApart, FileWhole
  <2> QED
    BY <2>3, <2>4 DEF OneSaver, SaverAlone, Saving
<1> QED
  BY <1>1, <1>2, <1>3 DEF FileInv

\* A save that fails leaves at most a torn temporary file, which is not renamed.
LEMMA SaveFailsInv ==
  ASSUME FileInv, NEW s \in Saver, SaveFails(s)
  PROVE  FileInv'
<1>1. FileTypeOK'
  BY DEF SaveFails, EndSave, FileInv, FileTypeOK
<1>2. CopiesWhole'
  BY DEF SaveFails, EndSave, FileInv, FileTypeOK, CopiesWhole, Saving
<1>3. ASSUME ~overlapped' PROVE NamesApart' /\ OneSaver' /\ SaverAlone'
  <2>1. ~overlapped /\ Saving(s)
    BY <1>3 DEF SaveFails, EndSave
  <2>2. \A r \in Saver : saving'[r] = "no"
    BY <2>1 DEF SaveFails, EndSave, FileInv, FileTypeOK, OneSaver, Saving
  <2>3. saving[s] = "write" => handle[s] = tmp /\ goals # tmp
    BY <2>1, GoalFileAssumption DEF FileInv, SaverAlone, NamesApart
  <2>4. NamesApart'
    BY <2>1, <2>3 DEF SaveFails, EndSave, FileInv, FileTypeOK, NamesApart, FileWhole
  <2> QED
    BY <2>2, <2>4 DEF OneSaver, SaverAlone, Saving
<1> QED
  BY <1>1, <1>2, <1>3 DEF FileInv

\* A killed process saves no more; the files stay as they are.
LEMMA KilledInv ==
  ASSUME FileInv, Killed
  PROVE  FileInv'
  BY DEF Killed, FileInv, FileTypeOK, CopiesWhole, NamesApart, FileWhole, OneSaver, SaverAlone, Saving

LEMMA FileStep == FileInv /\ [FileNext]_fileVars => FileInv'
<1> SUFFICES ASSUME FileInv, [FileNext]_fileVars PROVE FileInv'
  OBVIOUS
<1>1. ASSUME NEW s \in Saver, NEW snapshot \in Snapshot, TakeSnapshot(s, snapshot) PROVE FileInv'
  BY <1>1, TakeSnapshotInv
<1>2. ASSUME NEW s \in Saver, Open(s) PROVE FileInv'
  BY <1>2, OpenInv
<1>3. ASSUME NEW s \in Saver, Write(s) PROVE FileInv'
  BY <1>3, WriteInv
<1>4. ASSUME NEW s \in Saver, Rename(s) PROVE FileInv'
  BY <1>4, RenameInv
<1>5. ASSUME NEW s \in Saver, SaveFails(s) PROVE FileInv'
  BY <1>5, SaveFailsInv
<1>6. CASE Killed
  BY <1>6, KilledInv
<1>7. CASE UNCHANGED fileVars
  BY <1>7 DEF fileVars, FileInv, FileTypeOK, CopiesWhole, NamesApart, FileWhole, OneSaver,
              SaverAlone, Saving
<1> QED
  BY <1>1, <1>2, <1>3, <1>4, <1>5, <1>6, <1>7 DEF FileNext

\* GoalManager::save: whatever the moment the process dies at or an I/O error ends a save,
\* goals.json is a whole snapshot, as long as no two saves ever ran at the same time.
THEOREM GoalsFileIsWhole == FileSpec => []FileWhole
<1>1. FileInv => FileWhole
  BY DEF FileInv, NamesApart, FileWhole
<1> QED
  BY FileInitInv, FileStep, <1>1, PTL DEF FileSpec
=============================================================================
