--------------------------- MODULE FileTransaction ---------------------------
(* A workspace edit of several files: read and validated, prepared in a       *)
(* transaction folder of its own (a blob for every old and new content, then  *)
(* the journal), applied file by file, committed, cleaned up; and the         *)
(* recovery that goes before every open and every edit.  The process may end  *)
(* between any two calls to the file system, and any of these calls may fail. *)
(* Others write files of the workspace at any time, the editor's own save     *)
(* among them: it does not take the lock of the edits.                        *)
(*                                                                            *)
(* The lock admits one operation at a time and an edit recovers first, so     *)
(* that there is one folder at most.  Its entries are those of the last edit. *)
(* The order of the files and of the entries of a folder is left open.        *)

CONSTANTS Files,      \* paths of the workspace
          Contents,   \* what a path may hold
          Absent,     \* the content of a path where there is no file
          IoMayFail   \* whether calls to the file system can fail

ASSUME TransactionAssumption == Absent \in Contents /\ IoMayFail \in BOOLEAN

VARIABLES disk,       \* the content of every path
          folder,     \* the transaction folder is there
          journal,    \* journal.json in it
          blobs,      \* the blobs in it
          edit,       \* the entries: their files, the old and the new disk
          pc, why,    \* what the service does, and on whose behalf
          todo,       \* files it still has to write
          answer,     \* what the last call returned
          \* History, read by the properties only.
          committed,  \* the edit's journal said committed
          touched,    \* files others wrote since the edit read them
          kept        \* <<file, content>>: written by others while no operation ran

vars     == <<disk, folder, journal, blobs, edit, pc, why, todo, answer, committed, touched, kept>>
stored   == <<folder, journal, blobs>>
history  == <<committed, touched, kept>>

Journals == {"none", "empty", "prepared", "committed"}
Readable == {"prepared", "committed"}
Blobs    == {"before", "after"} \X Files

Needed ==
  {b \in Blobs : b[2] \in edit.files /\ (IF b[1] = "before" THEN edit.old ELSE edit.new)[b[2]] # Absent}

-----------------------------------------------------------------------------
Init ==
  /\ disk \in [Files -> Contents]
  /\ folder = FALSE /\ journal = "none" /\ blobs = {}
  /\ edit = [files |-> {}, old |-> disk, new |-> disk]
  /\ pc = "idle" /\ why = "open" /\ todo = {} /\ answer = "none"
  /\ committed = FALSE /\ touched = {} /\ kept = {}

(* What was asked for is done, or it failed.  A clean-up that fails after the *)
(* commit is answered by a recovery, and the edit by an error all the same.   *)
Succeeds ==
  /\ \/ why = "edit"   /\ pc' = "reading" /\ UNCHANGED answer
     \/ why = "open"   /\ pc' = "idle" /\ answer' = "opened"
     \/ why = "commit" /\ pc' = "idle" /\ answer' = "applied"
     \/ why \in {"undo", "prepare"} /\ pc' = "idle" /\ answer' = "failed"
  /\ UNCHANGED why

Undo == pc' = "recovering" /\ why' = "undo" /\ UNCHANGED answer

Fails ==
  IF why = "commit" THEN Undo
  ELSE /\ pc' = "idle"
       /\ answer' = IF why = "open" THEN "refused" ELSE "failed"
       /\ UNCHANGED why

-----------------------------------------------------------------------------
(* recover_pending, before an open, before an edit, and after one that failed.*)

Request ==
  /\ pc = "idle"
  /\ why' \in {"open", "edit"}
  /\ pc' = "recovering"
  /\ UNCHANGED <<disk, stored, edit, todo, answer, history>>

NothingPending ==
  /\ pc = "recovering" /\ ~folder
  /\ Succeeds
  /\ UNCHANGED <<disk, stored, edit, todo, history>>

Discard ==
  /\ pc = "recovering" /\ folder /\ journal \notin Readable
  /\ pc' = "cleaning"
  /\ UNCHANGED <<disk, stored, edit, why, todo, answer, history>>

(* Mutant: the files are not compared before they are written. *)
RecoverableUnchecked == Needed \subseteq blobs

Recoverable ==
  /\ Needed \subseteq blobs
  /\ \A f \in edit.files : disk[f] \in {edit.old[f], edit.new[f]}

(* Every file is read and compared before the first one is written. *)
Check ==
  /\ pc = "recovering" /\ folder /\ journal \in Readable
  /\ IF Recoverable
     THEN pc' = "restoring" /\ todo' = edit.files /\ UNCHANGED <<why, answer>>
     ELSE Fails /\ UNCHANGED todo
  /\ UNCHANGED <<disk, stored, edit, history>>

RecoveryFails ==
  /\ IoMayFail
  /\ pc = "recovering"
  /\ Fails
  /\ UNCHANGED <<disk, stored, edit, todo, history>>

(* Mutant: a committed edit is taken back like any other. *)
RecoveryContentOld(f) == edit.old[f]

RecoveryContent(f) == IF journal = "committed" THEN edit.new[f] ELSE edit.old[f]

(* Mutant: the folder goes as soon as one file is restored. *)
AfterRestoreSoon(f) == "cleaning"

AfterRestore(f) == IF todo = {f} THEN "cleaning" ELSE "restoring"

Restore ==
  /\ pc = "restoring"
  /\ \E f \in todo :
       /\ disk' = [disk EXCEPT ![f] = RecoveryContent(f)]
       /\ todo' = todo \ {f}
       /\ pc' = AfterRestore(f)
  /\ UNCHANGED <<stored, edit, why, answer, history>>

(* A replacement may fail after the rename, when the directory is synced. *)
RestoreFails ==
  /\ IoMayFail
  /\ pc = "restoring"
  /\ \E f \in todo : disk' \in {disk, [disk EXCEPT ![f] = RecoveryContent(f)]}
  /\ Fails
  /\ UNCHANGED <<stored, edit, todo, history>>

(* cleanup_transaction: remove_dir_all removes what is in the folder, in the  *)
(* order the system lists it, and then the folder.                            *)
RemoveOne ==
  /\ pc = "cleaning"
  /\ \/ \E b \in blobs : blobs' = blobs \ {b} /\ UNCHANGED journal
     \/ journal # "none" /\ journal' = "none" /\ UNCHANGED blobs
  /\ UNCHANGED <<disk, folder, edit, pc, why, todo, answer, history>>

RemoveFolder ==
  /\ pc = "cleaning" /\ blobs = {} /\ journal = "none"
  /\ folder' = FALSE
  /\ Succeeds
  /\ UNCHANGED <<disk, journal, blobs, edit, todo, history>>

CleaningFails ==
  /\ IoMayFail
  /\ pc = "cleaning"
  /\ Fails
  /\ folder' \in {folder, blobs # {} \/ journal # "none"}
  /\ UNCHANGED <<disk, journal, blobs, edit, todo, history>>

-----------------------------------------------------------------------------
(* apply_workspace_edit: the plan is validated against the files as they are. *)

Conflict ==
  /\ pc = "reading"
  /\ pc' = "idle" /\ answer' = "failed"
  /\ UNCHANGED <<disk, stored, edit, why, todo, history>>

(* A file is changed, created or deleted; a rename deletes and creates. *)
Read ==
  /\ pc = "reading"
  /\ \E files \in (SUBSET Files) \ {{}} : \E new \in [files -> Contents] :
       /\ \A f \in files : disk[f] = Absent => new[f] # Absent
       /\ edit' = [files |-> files, old |-> disk,
                   new |-> [f \in Files |-> IF f \in files THEN new[f] ELSE disk[f]]]
       /\ kept' = {p \in kept : p[1] \notin files}
  /\ committed' = FALSE /\ touched' = {}
  /\ pc' = "preparing" /\ todo' = {}
  /\ UNCHANGED <<disk, stored, why, answer>>

MakeFolder ==
  /\ pc = "preparing" /\ ~folder
  /\ folder' = TRUE
  /\ UNCHANGED <<disk, journal, blobs, edit, pc, why, todo, answer, history>>

PersistBlob ==
  /\ pc = "preparing" /\ folder
  /\ \E b \in Needed \ blobs : blobs' = blobs \cup {b}
  /\ UNCHANGED <<disk, folder, journal, edit, pc, why, todo, answer, history>>

PlaceJournal ==
  /\ pc = "preparing" /\ folder /\ journal = "none"
  /\ Needed \subseteq blobs
  /\ journal' = "empty"
  /\ UNCHANGED <<disk, folder, blobs, edit, pc, why, todo, answer, history>>

PublishPrepared ==
  /\ pc = "preparing" /\ journal = "empty"
  /\ journal' = "prepared"
  /\ pc' = "replacing" /\ todo' = edit.files
  /\ UNCHANGED <<disk, folder, blobs, edit, why, answer, history>>

(* Some errors leave the folder behind, others clean up and do not look       *)
(* whether that succeeds.                                                     *)
PrepareFails ==
  /\ IoMayFail
  /\ pc = "preparing"
  /\ journal' \in IF journal = "empty" THEN {"empty", "prepared"} ELSE {journal}
  /\ folder' \in {folder, TRUE}
  /\ \/ pc' = "idle" /\ answer' = "failed" /\ UNCHANGED why
     \/ folder /\ pc' = "cleaning" /\ why' = "prepare" /\ UNCHANGED answer
  /\ UNCHANGED <<disk, blobs, edit, todo, history>>

(* Mutant: the journal says committed before the last file is replaced. *)
AfterReplaceSoon(f) == "committing"

AfterReplace(f) == IF todo = {f} THEN "committing" ELSE "replacing"

Replace ==
  /\ pc = "replacing"
  /\ \E f \in todo :
       /\ disk' = [disk EXCEPT ![f] = edit.new[f]]
       /\ todo' = todo \ {f}
       /\ pc' = AfterReplace(f)
  /\ UNCHANGED <<stored, edit, why, answer, history>>

ReplaceFails ==
  /\ IoMayFail
  /\ pc = "replacing"
  /\ \E f \in todo : disk' \in {disk, [disk EXCEPT ![f] = edit.new[f]]}
  /\ Undo
  /\ UNCHANGED <<stored, edit, todo, history>>

Commit ==
  /\ pc = "committing"
  /\ journal' = "committed" /\ committed' = TRUE
  /\ pc' = "cleaning" /\ why' = "commit"
  /\ UNCHANGED <<disk, folder, blobs, edit, todo, answer, touched, kept>>

CommitFails ==
  /\ IoMayFail
  /\ pc = "committing"
  /\ \/ UNCHANGED <<journal, committed>>
     \/ journal' = "committed" /\ committed' = TRUE
  /\ Undo
  /\ UNCHANGED <<disk, folder, blobs, edit, todo, touched, kept>>

-----------------------------------------------------------------------------
(* The process ends, anywhere; a new one starts.                              *)

Crash ==
  /\ pc # "down"
  /\ pc' = "down" /\ why' = "open" /\ todo' = {}
  /\ UNCHANGED <<disk, stored, edit, answer, history>>

Restart ==
  /\ pc = "down"
  /\ pc' = "idle"
  /\ UNCHANGED <<disk, stored, edit, why, todo, answer, history>>

(* What others write stays, from then on, unless it is what recovery itself   *)
(* would write or find.                                                       *)
AtRest == pc \in {"idle", "down"}
Pending(f) == folder /\ journal \in Readable /\ f \in edit.files

ForeignWrite ==
  \E f \in Files : \E c \in Contents \ {disk[f]} :
    /\ disk' = [disk EXCEPT ![f] = c]
    /\ touched' = touched \cup {f}
    /\ kept' = {p \in kept : p[1] # f} \cup
                 IF AtRest /\ ~(Pending(f) /\ c \in {edit.old[f], edit.new[f]}) THEN {<<f, c>>} ELSE {}
    /\ UNCHANGED <<stored, edit, pc, why, todo, answer, committed>>

-----------------------------------------------------------------------------
Recovery ==
  \/ NothingPending \/ Discard \/ Check \/ RecoveryFails
  \/ Restore \/ RestoreFails \/ RemoveOne \/ RemoveFolder \/ CleaningFails
Apply ==
  \/ Conflict \/ Read \/ MakeFolder \/ PersistBlob \/ PlaceJournal \/ PublishPrepared
  \/ PrepareFails \/ Replace \/ ReplaceFails \/ Commit \/ CommitFails

Next == Request \/ Recovery \/ Apply \/ Crash \/ Restart \/ ForeignWrite
Spec == Init /\ [][Next]_vars

-----------------------------------------------------------------------------
(* Properties.                                                                *)

Edits == [files : SUBSET Files, old : [Files -> Contents], new : [Files -> Contents]]

TypeOK ==
  /\ disk \in [Files -> Contents]
  /\ folder \in BOOLEAN /\ journal \in Journals /\ blobs \subseteq Blobs
  /\ ~folder => journal = "none" /\ blobs = {}
  /\ edit \in Edits
  /\ pc \in {"down", "idle", "recovering", "restoring", "cleaning", "reading", "preparing",
             "replacing", "committing"}
  /\ why \in {"open", "edit", "undo", "prepare", "commit"}
  /\ todo \subseteq edit.files
  /\ answer \in {"none", "opened", "refused", "applied", "failed"}
  /\ committed \in BOOLEAN /\ touched \subseteq Files /\ kept \subseteq Files \X Contents

Decided(f) == IF committed THEN edit.new[f] ELSE edit.old[f]
Settled    == \A f \in Files \ touched : disk[f] = Decided(f)

(* The promise of the journal: once no transaction is pending, be it by the   *)
(* edit itself or by a recovery after any number of crashes and errors, the   *)
(* files nobody else wrote are all new if the edit was committed and all old  *)
(* if it was not (apply_and_commit, recover_transaction).                     *)
AllOrNothing == ~folder => Settled

(* Until then the evidence stays: nothing of the journal and of the blobs is  *)
(* gone while a file still differs from what the journal decides.             *)
EvidenceKept == ~Settled => folder /\ journal \in Readable /\ Needed \subseteq blobs

(* What somebody wrote while no operation ran is not overwritten by a         *)
(* recovery, whatever the journal says of the file; only an edit that read    *)
(* it may change it.  Recovery refuses a third version of any file.           *)
ForeignKept == \A p \in kept : disk[p[1]] = p[2]

(* What every path is to hold by the journal, and by the others who wrote it. *)
InForce == [f \in Files |-> IF f \in touched THEN disk[f] ELSE Decided(f)]

Atomic == INSTANCE AtomicEdit WITH Paths <- Files, shown <- disk, decided <- InForce,
                                   pending <- folder, foreign <- touched

(* Through every crash, error and recovery, an edit of files is one step of  *)
(* AtomicEdit: it implements what is promised there (apply_and_commit and     *)
(* recover_transaction, seen from the workspace).                             *)
FilesAtomic == Atomic!Spec
=============================================================================
