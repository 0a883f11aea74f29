------------------------ MODULE FileTransaction_proofs ------------------------
(* Types, AllOrNothing, EvidenceKept and ForeignKept of FileTransaction, for  *)
(* any files and contents and with calls that may fail.                       *)
EXTENDS FileTransaction, TLAPS

(* What the properties need to be inductive.  The journal and the history     *)
(* agree; an untouched file is old or new, and a file outside the edit both.  *)
JournalTrue ==
  /\ journal = "prepared"  => ~committed
  /\ journal = "committed" => committed

OldOrNew ==
  /\ \A f \in Files \ touched : disk[f] \in {edit.old[f], edit.new[f]}
  /\ \A f \in Files \ edit.files : edit.old[f] = edit.new[f]

(* Where the service is tells how far the files are. *)
Evidence == folder /\ Needed \subseteq blobs

Preparing ==
  /\ pc = "reading" => ~folder
  /\ pc = "preparing" => /\ journal \in {"none", "empty"} /\ ~committed
                         /\ journal = "empty" => Evidence

Replacing ==
  pc \in {"replacing", "committing"} =>
    /\ Evidence /\ journal = "prepared"
    /\ pc = "committing" => todo = {}
    /\ \A f \in Files \ touched : disk[f] = IF f \in todo THEN edit.old[f] ELSE edit.new[f]

Restoring ==
  pc = "restoring" =>
    /\ Evidence /\ journal \in Readable
    /\ \A f \in Files \ touched : f \notin todo => disk[f] = Decided(f)

Cleaning == pc = "cleaning" => Settled

(* What others wrote at rest is no entry of a transaction that is being       *)
(* applied or restored, and a third version to one that is pending.           *)
KeptApart ==
  \A p \in kept :
    /\ pc \in {"preparing", "replacing", "committing", "restoring"} => p[1] \notin edit.files
    /\ Pending(p[1]) => p[2] \notin {edit.old[p[1]], edit.new[p[1]]}

IInv ==
  /\ TypeOK /\ JournalTrue /\ OldOrNew /\ Preparing /\ Replacing /\ Restoring /\ Cleaning
  /\ EvidenceKept /\ ForeignKept /\ KeptApart

-----------------------------------------------------------------------------
(* Every step keeps the types ... *)
LEMMA TypeStep == IInv /\ [Next]_vars => TypeOK'
<1> SUFFICES ASSUME IInv, [Next]_vars PROVE TypeOK'
  OBVIOUS
<1> USE TransactionAssumption DEF IInv, TypeOK, Edits, Journals, Blobs, Readable, stored, history
<1>1. CASE Request
  BY <1>1 DEF Request
<1>2. CASE NothingPending
  BY <1>2 DEF NothingPending, Succeeds
<1>3. CASE Discard
  BY <1>3 DEF Discard
<1>4. CASE Check
  BY <1>4 DEF Check, Fails, Undo, Recoverable
<1>5. CASE RecoveryFails
  BY <1>5 DEF RecoveryFails, Fails, Undo
<1>6. CASE Restore
  BY <1>6 DEF Restore, AfterRestore, RecoveryContent
<1>7. CASE RestoreFails
  BY <1>7 DEF RestoreFails, Fails, Undo, RecoveryContent
<1>8. CASE RemoveOne
  BY <1>8 DEF RemoveOne
<1>9. CASE RemoveFolder
  BY <1>9 DEF RemoveFolder, Succeeds
<1>10. CASE CleaningFails
  BY <1>10 DEF CleaningFails, Fails, Undo
<1>11. CASE Conflict
  BY <1>11 DEF Conflict
<1>12. CASE Read
  <2>0. PICK files \in (SUBSET Files) \ {{}} : \E new \in [files -> Contents] :
          /\ edit' = [files |-> files, old |-> disk,
                      new |-> [f \in Files |-> IF f \in files THEN new[f] ELSE disk[f]]]
          /\ kept' = {p \in kept : p[1] \notin files}
    BY <1>12 DEF Read
  <2>1. PICK new \in [files -> Contents] :
          /\ edit' = [files |-> files, old |-> disk,
                      new |-> [f \in Files |-> IF f \in files THEN new[f] ELSE disk[f]]]
          /\ kept' = {p \in kept : p[1] \notin files}
    BY <2>0
  <2>2. [f \in Files |-> IF f \in files THEN new[f] ELSE disk[f]] \in [Files -> Contents]
    OBVIOUS
  <2>3. edit' \in Edits
    BY <2>1, <2>2
  <2>4. kept' \subseteq Files \X Contents
    BY <2>1
  <2>5. QED
    BY <1>12, <2>3, <2>4 DEF Read
<1>13. CASE MakeFolder
  BY <1>13 DEF MakeFolder
<1>14. CASE PersistBlob
  BY <1>14 DEF PersistBlob, Needed
<1>15. CASE PlaceJournal
  BY <1>15 DEF PlaceJournal
<1>16. CASE PublishPrepared
  BY <1>16 DEF PublishPrepared
<1>17. CASE PrepareFails
  <2>1. folder => folder'
    BY <1>17 DEF PrepareFails
  <2>2. folder' \in BOOLEAN /\ journal' \in Journals
    BY <1>17 DEF PrepareFails
  <2>3. ~folder => journal' = journal
    BY <1>17 DEF PrepareFails, Preparing, Evidence
  <2>4. pc' \in {"idle", "cleaning"} /\ why' \in {why, "prepare"} /\ answer' \in {answer, "failed"}
    BY <1>17 DEF PrepareFails
  <2>5. QED
    BY <1>17, <2>1, <2>2, <2>3, <2>4 DEF PrepareFails
<1>18. CASE Replace
  BY <1>18 DEF Replace, AfterReplace
<1>19. CASE ReplaceFails
  BY <1>19 DEF ReplaceFails, Undo
<1>20. CASE Commit
  BY <1>20 DEF Commit, Replacing, Evidence
<1>21. CASE CommitFails
  BY <1>21 DEF CommitFails, Undo, Replacing, Evidence
<1>22. CASE Crash
  BY <1>22 DEF Crash
<1>23. CASE Restart
  BY <1>23 DEF Restart
<1>24. CASE ForeignWrite
  BY <1>24 DEF ForeignWrite
<1>25. CASE UNCHANGED vars
  BY <1>25 DEF vars
<1>26. QED
  BY <1>1, <1>2, <1>3, <1>4, <1>5, <1>6, <1>7, <1>8, <1>9, <1>10, <1>11, <1>12, <1>13, <1>14, <1>15, <1>16, <1>17, <1>18, <1>19, <1>20, <1>21, <1>22, <1>23, <1>24, <1>25 DEF Next, Recovery, Apply

(* ... the journal true to the disk ... *)
LEMMA JournalStep == IInv /\ [Next]_vars => JournalTrue'
<1> SUFFICES ASSUME IInv, [Next]_vars PROVE JournalTrue'
  OBVIOUS
<1> USE DEF IInv, TypeOK, Edits, stored, history, Readable, Journals, JournalTrue, Preparing, Replacing
<1>1. CASE Request
  BY <1>1 DEF Request
<1>2. CASE NothingPending
  BY <1>2 DEF NothingPending, Succeeds
<1>3. CASE Discard
  BY <1>3 DEF Discard
<1>4. CASE Check
  BY <1>4 DEF Check, Fails, Undo, Recoverable
<1>5. CASE RecoveryFails
  BY <1>5 DEF RecoveryFails, Fails, Undo
<1>6. CASE Restore
  BY <1>6 DEF Restore, AfterRestore, RecoveryContent
<1>7. CASE RestoreFails
  BY <1>7 DEF RestoreFails, Fails, Undo, RecoveryContent
<1>8. CASE RemoveOne
  BY <1>8 DEF RemoveOne
<1>9. CASE RemoveFolder
  BY <1>9 DEF RemoveFolder, Succeeds
<1>10. CASE CleaningFails
  BY <1>10 DEF CleaningFails, Fails, Undo
<1>11. CASE Conflict
  BY <1>11 DEF Conflict
<1>12. CASE Read
  BY <1>12 DEF Read
<1>13. CASE MakeFolder
  BY <1>13 DEF MakeFolder
<1>14. CASE PersistBlob
  BY <1>14 DEF PersistBlob
<1>15. CASE PlaceJournal
  BY <1>15 DEF PlaceJournal
<1>16. CASE PublishPrepared
  BY <1>16 DEF PublishPrepared
<1>17. CASE PrepareFails
  BY <1>17 DEF PrepareFails
<1>18. CASE Replace
  BY <1>18 DEF Replace, AfterReplace
<1>19. CASE ReplaceFails
  BY <1>19 DEF ReplaceFails, Undo
<1>20. CASE Commit
  BY <1>20 DEF Commit
<1>21. CASE CommitFails
  BY <1>21 DEF CommitFails, Undo
<1>22. CASE Crash
  BY <1>22 DEF Crash
<1>23. CASE Restart
  BY <1>23 DEF Restart
<1>24. CASE ForeignWrite
  BY <1>24 DEF ForeignWrite, AtRest, Pending
<1>25. CASE UNCHANGED vars
  BY <1>25 DEF vars
<1>26. QED
  BY <1>1, <1>2, <1>3, <1>4, <1>5, <1>6, <1>7, <1>8, <1>9, <1>10, <1>11, <1>12, <1>13, <1>14, <1>15, <1>16, <1>17, <1>18, <1>19, <1>20, <1>21, <1>22, <1>23, <1>24, <1>25 DEF Next, Recovery, Apply

(* ... every file of an open edit at its old or its new content ... *)
LEMMA OldOrNewStep == IInv /\ [Next]_vars => OldOrNew'
<1> SUFFICES ASSUME IInv, [Next]_vars PROVE OldOrNew'
  OBVIOUS
<1> USE DEF IInv, TypeOK, Edits, stored, history, Readable, Journals, OldOrNew
<1>1. CASE Request
  BY <1>1 DEF Request
<1>2. CASE NothingPending
  BY <1>2 DEF NothingPending, Succeeds
<1>3. CASE Discard
  BY <1>3 DEF Discard
<1>4. CASE Check
  BY <1>4 DEF Check, Fails, Undo, Recoverable
<1>5. CASE RecoveryFails
  BY <1>5 DEF RecoveryFails, Fails, Undo
<1>6. CASE Restore
  BY <1>6 DEF Restore, AfterRestore, RecoveryContent
<1>7. CASE RestoreFails
  BY <1>7 DEF RestoreFails, Fails, Undo, RecoveryContent
<1>8. CASE RemoveOne
  BY <1>8 DEF RemoveOne
<1>9. CASE RemoveFolder
  BY <1>9 DEF RemoveFolder, Succeeds
<1>10. CASE CleaningFails
  BY <1>10 DEF CleaningFails, Fails, Undo
<1>11. CASE Conflict
  BY <1>11 DEF Conflict
<1>12. CASE Read
  BY <1>12 DEF Read
<1>13. CASE MakeFolder
  BY <1>13 DEF MakeFolder
<1>14. CASE PersistBlob
  BY <1>14 DEF PersistBlob
<1>15. CASE PlaceJournal
  BY <1>15 DEF PlaceJournal
<1>16. CASE PublishPrepared
  BY <1>16 DEF PublishPrepared
<1>17. CASE PrepareFails
  BY <1>17 DEF PrepareFails
<1>18. CASE Replace
  BY <1>18 DEF Replace, AfterReplace
<1>19. CASE ReplaceFails
  BY <1>19 DEF ReplaceFails, Undo
<1>20. CASE Commit
  BY <1>20 DEF Commit
<1>21. CASE CommitFails
  BY <1>21 DEF CommitFails, Undo
<1>22. CASE Crash
  BY <1>22 DEF Crash
<1>23. CASE Restart
  BY <1>23 DEF Restart
<1>24. CASE ForeignWrite
  BY <1>24 DEF ForeignWrite, AtRest, Pending
<1>25. CASE UNCHANGED vars
  BY <1>25 DEF vars
<1>26. QED
  BY <1>1, <1>2, <1>3, <1>4, <1>5, <1>6, <1>7, <1>8, <1>9, <1>10, <1>11, <1>12, <1>13, <1>14, <1>15, <1>16, <1>17, <1>18, <1>19, <1>20, <1>21, <1>22, <1>23, <1>24, <1>25 DEF Next, Recovery, Apply

(* ... the originals of what is being prepared ... *)
LEMMA PreparingStep == IInv /\ [Next]_vars => Preparing'
<1> SUFFICES ASSUME IInv, [Next]_vars PROVE Preparing'
  OBVIOUS
<1> USE DEF IInv, TypeOK, Edits, stored, history, Readable, Journals, Preparing, Evidence, Needed, Blobs
<1>1. CASE Request
  BY <1>1 DEF Request
<1>2. CASE NothingPending
  BY <1>2 DEF NothingPending, Succeeds
<1>3. CASE Discard
  BY <1>3 DEF Discard
<1>4. CASE Check
  BY <1>4 DEF Check, Fails, Undo, Recoverable
<1>5. CASE RecoveryFails
  BY <1>5 DEF RecoveryFails, Fails, Undo
<1>6. CASE Restore
  BY <1>6 DEF Restore, AfterRestore, RecoveryContent
<1>7. CASE RestoreFails
  BY <1>7 DEF RestoreFails, Fails, Undo, RecoveryContent
<1>8. CASE RemoveOne
  BY <1>8 DEF RemoveOne
<1>9. CASE RemoveFolder
  BY <1>9 DEF RemoveFolder, Succeeds
<1>10. CASE CleaningFails
  BY <1>10 DEF CleaningFails, Fails, Undo
<1>11. CASE Conflict
  BY <1>11 DEF Conflict
<1>12. CASE Read
  BY <1>12 DEF Read
<1>13. CASE MakeFolder
  BY <1>13 DEF MakeFolder
<1>14. CASE PersistBlob
  BY <1>14 DEF PersistBlob
<1>15. CASE PlaceJournal
  BY <1>15 DEF PlaceJournal
<1>16. CASE PublishPrepared
  BY <1>16 DEF PublishPrepared
<1>17. CASE PrepareFails
  BY <1>17 DEF PrepareFails
<1>18. CASE Replace
  BY <1>18 DEF Replace, AfterReplace
<1>19. CASE ReplaceFails
  BY <1>19 DEF ReplaceFails, Undo
<1>20. CASE Commit
  BY <1>20 DEF Commit
<1>21. CASE CommitFails
  BY <1>21 DEF CommitFails, Undo
<1>22. CASE Crash
  BY <1>22 DEF Crash
<1>23. CASE Restart
  BY <1>23 DEF Restart
<1>24. CASE ForeignWrite
  BY <1>24 DEF ForeignWrite, AtRest, Pending
<1>25. CASE UNCHANGED vars
  BY <1>25 DEF vars
<1>26. QED
  BY <1>1, <1>2, <1>3, <1>4, <1>5, <1>6, <1>7, <1>8, <1>9, <1>10, <1>11, <1>12, <1>13, <1>14, <1>15, <1>16, <1>17, <1>18, <1>19, <1>20, <1>21, <1>22, <1>23, <1>24, <1>25 DEF Next, Recovery, Apply

(* ... the evidence of what is being replaced ... *)
LEMMA ReplacingStep == IInv /\ [Next]_vars => Replacing'
<1> SUFFICES ASSUME IInv, [Next]_vars PROVE Replacing'
  OBVIOUS
<1> USE DEF IInv, TypeOK, Edits, stored, history, Readable, Journals, Replacing, Preparing, Evidence, Needed, Blobs, OldOrNew, EvidenceKept, Settled, Decided
<1>1. CASE Request
  BY <1>1 DEF Request
<1>2. CASE NothingPending
  BY <1>2 DEF NothingPending, Succeeds
<1>3. CASE Discard
  BY <1>3 DEF Discard
<1>4. CASE Check
  BY <1>4 DEF Check, Fails, Undo, Recoverable
<1>5. CASE RecoveryFails
  BY <1>5 DEF RecoveryFails, Fails, Undo
<1>6. CASE Restore
  BY <1>6 DEF Restore, AfterRestore, RecoveryContent
<1>7. CASE RestoreFails
  BY <1>7 DEF RestoreFails, Fails, Undo, RecoveryContent
<1>8. CASE RemoveOne
  BY <1>8 DEF RemoveOne
<1>9. CASE RemoveFolder
  BY <1>9 DEF RemoveFolder, Succeeds
<1>10. CASE CleaningFails
  BY <1>10 DEF CleaningFails, Fails, Undo
<1>11. CASE Conflict
  BY <1>11 DEF Conflict
<1>12. CASE Read
  BY <1>12 DEF Read
<1>13. CASE MakeFolder
  BY <1>13 DEF MakeFolder
<1>14. CASE PersistBlob
  BY <1>14 DEF PersistBlob
<1>15. CASE PlaceJournal
  BY <1>15 DEF PlaceJournal
<1>16. CASE PublishPrepared
  BY <1>16 DEF PublishPrepared
<1>17. CASE PrepareFails
  BY <1>17 DEF PrepareFails
<1>18. CASE Replace
  BY <1>18 DEF Replace, AfterReplace
<1>19. CASE ReplaceFails
  BY <1>19 DEF ReplaceFails, Undo
<1>20. CASE Commit
  BY <1>20 DEF Commit
<1>21. CASE CommitFails
  BY <1>21 DEF CommitFails, Undo
<1>22. CASE Crash
  BY <1>22 DEF Crash
<1>23. CASE Restart
  BY <1>23 DEF Restart
<1>24. CASE ForeignWrite
  BY <1>24 DEF ForeignWrite, AtRest, Pending
<1>25. CASE UNCHANGED vars
  BY <1>25 DEF vars
<1>26. QED
  BY <1>1, <1>2, <1>3, <1>4, <1>5, <1>6, <1>7, <1>8, <1>9, <1>10, <1>11, <1>12, <1>13, <1>14, <1>15, <1>16, <1>17, <1>18, <1>19, <1>20, <1>21, <1>22, <1>23, <1>24, <1>25 DEF Next, Recovery, Apply

(* ... the evidence of what is being restored ... *)
LEMMA RestoringStep == IInv /\ [Next]_vars => Restoring'
<1> SUFFICES ASSUME IInv, [Next]_vars PROVE Restoring'
  OBVIOUS
<1> USE DEF IInv, TypeOK, Edits, stored, history, Readable, Journals, Restoring, Evidence, Needed, Blobs, OldOrNew, Decided, JournalTrue
<1>1. CASE Request
  BY <1>1 DEF Request
<1>2. CASE NothingPending
  BY <1>2 DEF NothingPending, Succeeds
<1>3. CASE Discard
  BY <1>3 DEF Discard
<1>4. CASE Check
  BY <1>4 DEF Check, Fails, Undo, Recoverable
<1>5. CASE RecoveryFails
  BY <1>5 DEF RecoveryFails, Fails, Undo
<1>6. CASE Restore
  BY <1>6 DEF Restore, AfterRestore, RecoveryContent
<1>7. CASE RestoreFails
  BY <1>7 DEF RestoreFails, Fails, Undo, RecoveryContent
<1>8. CASE RemoveOne
  BY <1>8 DEF RemoveOne
<1>9. CASE RemoveFolder
  BY <1>9 DEF RemoveFolder, Succeeds
<1>10. CASE CleaningFails
  BY <1>10 DEF CleaningFails, Fails, Undo
<1>11. CASE Conflict
  BY <1>11 DEF Conflict
<1>12. CASE Read
  BY <1>12 DEF Read
<1>13. CASE MakeFolder
  BY <1>13 DEF MakeFolder
<1>14. CASE PersistBlob
  BY <1>14 DEF PersistBlob
<1>15. CASE PlaceJournal
  BY <1>15 DEF PlaceJournal
<1>16. CASE PublishPrepared
  BY <1>16 DEF PublishPrepared
<1>17. CASE PrepareFails
  BY <1>17 DEF PrepareFails
<1>18. CASE Replace
  BY <1>18 DEF Replace, AfterReplace
<1>19. CASE ReplaceFails
  BY <1>19 DEF ReplaceFails, Undo
<1>20. CASE Commit
  BY <1>20 DEF Commit
<1>21. CASE CommitFails
  BY <1>21 DEF CommitFails, Undo
<1>22. CASE Crash
  BY <1>22 DEF Crash
<1>23. CASE Restart
  BY <1>23 DEF Restart
<1>24. CASE ForeignWrite
  BY <1>24 DEF ForeignWrite, AtRest, Pending
<1>25. CASE UNCHANGED vars
  BY <1>25 DEF vars
<1>26. QED
  BY <1>1, <1>2, <1>3, <1>4, <1>5, <1>6, <1>7, <1>8, <1>9, <1>10, <1>11, <1>12, <1>13, <1>14, <1>15, <1>16, <1>17, <1>18, <1>19, <1>20, <1>21, <1>22, <1>23, <1>24, <1>25 DEF Next, Recovery, Apply

(* ... what a cleaning transaction has already settled ... *)
LEMMA CleaningStep == IInv /\ [Next]_vars => Cleaning'
<1> SUFFICES ASSUME IInv, [Next]_vars PROVE Cleaning'
  OBVIOUS
<1> USE DEF IInv, TypeOK, Edits, stored, history, Readable, Journals, Cleaning, Restoring, Replacing, Preparing, Settled, Decided, EvidenceKept, JournalTrue
<1>1. CASE Request
  BY <1>1 DEF Request
<1>2. CASE NothingPending
  BY <1>2 DEF NothingPending, Succeeds
<1>3. CASE Discard
  BY <1>3 DEF Discard
<1>4. CASE Check
  BY <1>4 DEF Check, Fails, Undo, Recoverable
<1>5. CASE RecoveryFails
  BY <1>5 DEF RecoveryFails, Fails, Undo
<1>6. CASE Restore
  BY <1>6 DEF Restore, AfterRestore, RecoveryContent
<1>7. CASE RestoreFails
  BY <1>7 DEF RestoreFails, Fails, Undo, RecoveryContent
<1>8. CASE RemoveOne
  BY <1>8 DEF RemoveOne
<1>9. CASE RemoveFolder
  BY <1>9 DEF RemoveFolder, Succeeds
<1>10. CASE CleaningFails
  BY <1>10 DEF CleaningFails, Fails, Undo
<1>11. CASE Conflict
  BY <1>11 DEF Conflict
<1>12. CASE Read
  BY <1>12 DEF Read
<1>13. CASE MakeFolder
  BY <1>13 DEF MakeFolder
<1>14. CASE PersistBlob
  BY <1>14 DEF PersistBlob
<1>15. CASE PlaceJournal
  BY <1>15 DEF PlaceJournal
<1>16. CASE PublishPrepared
  BY <1>16 DEF PublishPrepared
<1>17. CASE PrepareFails
  BY <1>17 DEF PrepareFails
<1>18. CASE Replace
  BY <1>18 DEF Replace, AfterReplace
<1>19. CASE ReplaceFails
  BY <1>19 DEF ReplaceFails, Undo
<1>20. CASE Commit
  BY <1>20 DEF Commit
<1>21. CASE CommitFails
  BY <1>21 DEF CommitFails, Undo
<1>22. CASE Crash
  BY <1>22 DEF Crash
<1>23. CASE Restart
  BY <1>23 DEF Restart
<1>24. CASE ForeignWrite
  BY <1>24 DEF ForeignWrite, AtRest, Pending
<1>25. CASE UNCHANGED vars
  BY <1>25 DEF vars
<1>26. QED
  BY <1>1, <1>2, <1>3, <1>4, <1>5, <1>6, <1>7, <1>8, <1>9, <1>10, <1>11, <1>12, <1>13, <1>14, <1>15, <1>16, <1>17, <1>18, <1>19, <1>20, <1>21, <1>22, <1>23, <1>24, <1>25 DEF Next, Recovery, Apply

(* ... the folder, the journal and the blobs an unsettled edit needs ... *)
LEMMA EvidenceStep == IInv /\ [Next]_vars => EvidenceKept'
<1> SUFFICES ASSUME IInv, [Next]_vars PROVE EvidenceKept'
  OBVIOUS
<1> USE DEF IInv, TypeOK, Edits, stored, history, Readable, Journals, EvidenceKept, Evidence, Needed, Blobs, Cleaning, Restoring, Replacing, Preparing, Settled, Decided, OldOrNew, JournalTrue
<1>1. CASE Request
  BY <1>1 DEF Request
<1>2. CASE NothingPending
  BY <1>2 DEF NothingPending, Succeeds
<1>3. CASE Discard
  BY <1>3 DEF Discard
<1>4. CASE Check
  BY <1>4 DEF Check, Fails, Undo, Recoverable
<1>5. CASE RecoveryFails
  BY <1>5 DEF RecoveryFails, Fails, Undo
<1>6. CASE Restore
  BY <1>6 DEF Restore, AfterRestore, RecoveryContent
<1>7. CASE RestoreFails
  BY <1>7 DEF RestoreFails, Fails, Undo, RecoveryContent
<1>8. CASE RemoveOne
  BY <1>8 DEF RemoveOne
<1>9. CASE RemoveFolder
  BY <1>9 DEF RemoveFolder, Succeeds
<1>10. CASE CleaningFails
  BY <1>10 DEF CleaningFails, Fails, Undo
<1>11. CASE Conflict
  BY <1>11 DEF Conflict
<1>12. CASE Read
  BY <1>12 DEF Read
<1>13. CASE MakeFolder
  BY <1>13 DEF MakeFolder
<1>14. CASE PersistBlob
  BY <1>14 DEF PersistBlob
<1>15. CASE PlaceJournal
  BY <1>15 DEF PlaceJournal
<1>16. CASE PublishPrepared
  BY <1>16 DEF PublishPrepared
<1>17. CASE PrepareFails
  BY <1>17 DEF PrepareFails
<1>18. CASE Replace
  BY <1>18 DEF Replace, AfterReplace
<1>19. CASE ReplaceFails
  BY <1>19 DEF ReplaceFails, Undo
<1>20. CASE Commit
  BY <1>20 DEF Commit
<1>21. CASE CommitFails
  BY <1>21 DEF CommitFails, Undo
<1>22. CASE Crash
  BY <1>22 DEF Crash
<1>23. CASE Restart
  BY <1>23 DEF Restart
<1>24. CASE ForeignWrite
  BY <1>24 DEF ForeignWrite, AtRest, Pending
<1>25. CASE UNCHANGED vars
  BY <1>25 DEF vars
<1>26. QED
  BY <1>1, <1>2, <1>3, <1>4, <1>5, <1>6, <1>7, <1>8, <1>9, <1>10, <1>11, <1>12, <1>13, <1>14, <1>15, <1>16, <1>17, <1>18, <1>19, <1>20, <1>21, <1>22, <1>23, <1>24, <1>25 DEF Next, Recovery, Apply

(* ... the contents other programs wrote ... *)
LEMMA ForeignStep == IInv /\ [Next]_vars => ForeignKept'
<1> SUFFICES ASSUME IInv, [Next]_vars PROVE ForeignKept'
  OBVIOUS
<1> USE DEF IInv, TypeOK, Edits, stored, history, Readable, Journals, ForeignKept, KeptApart, Blobs
<1>1. CASE Request
  BY <1>1 DEF Request
<1>2. CASE NothingPending
  BY <1>2 DEF NothingPending, Succeeds
<1>3. CASE Discard
  BY <1>3 DEF Discard
<1>4. CASE Check
  BY <1>4 DEF Check, Fails, Undo, Recoverable
<1>5. CASE RecoveryFails
  BY <1>5 DEF RecoveryFails, Fails, Undo
<1>6. CASE Restore
  BY <1>6 DEF Restore, AfterRestore, RecoveryContent
<1>7. CASE RestoreFails
  BY <1>7 DEF RestoreFails, Fails, Undo, RecoveryContent
<1>8. CASE RemoveOne
  BY <1>8 DEF RemoveOne
<1>9. CASE RemoveFolder
  BY <1>9 DEF RemoveFolder, Succeeds
<1>10. CASE CleaningFails
  BY <1>10 DEF CleaningFails, Fails, Undo
<1>11. CASE Conflict
  BY <1>11 DEF Conflict
<1>12. CASE Read
  BY <1>12 DEF Read
<1>13. CASE MakeFolder
  BY <1>13 DEF MakeFolder
<1>14. CASE PersistBlob
  BY <1>14 DEF PersistBlob
<1>15. CASE PlaceJournal
  BY <1>15 DEF PlaceJournal
<1>16. CASE PublishPrepared
  BY <1>16 DEF PublishPrepared
<1>17. CASE PrepareFails
  BY <1>17 DEF PrepareFails
<1>18. CASE Replace
  BY <1>18 DEF Replace, AfterReplace
<1>19. CASE ReplaceFails
  BY <1>19 DEF ReplaceFails, Undo
<1>20. CASE Commit
  BY <1>20 DEF Commit
<1>21. CASE CommitFails
  BY <1>21 DEF CommitFails, Undo
<1>22. CASE Crash
  BY <1>22 DEF Crash
<1>23. CASE Restart
  BY <1>23 DEF Restart
<1>24. CASE ForeignWrite
  BY <1>24 DEF ForeignWrite, AtRest, Pending
<1>25. CASE UNCHANGED vars
  BY <1>25 DEF vars
<1>26. QED
  BY <1>1, <1>2, <1>3, <1>4, <1>5, <1>6, <1>7, <1>8, <1>9, <1>10, <1>11, <1>12, <1>13, <1>14, <1>15, <1>16, <1>17, <1>18, <1>19, <1>20, <1>21, <1>22, <1>23, <1>24, <1>25 DEF Next, Recovery, Apply

(* ... and keeps them apart from the entries of a transaction under way. *)
LEMMA KeptStep == IInv /\ [Next]_vars => KeptApart'
<1> SUFFICES ASSUME IInv, [Next]_vars PROVE KeptApart'
  OBVIOUS
<1> USE DEF IInv, TypeOK, Edits, stored, history, Readable, Journals, ForeignKept, KeptApart, Pending, AtRest, Preparing, Evidence
<1>1. CASE Request
  BY <1>1 DEF Request
<1>2. CASE NothingPending
  BY <1>2 DEF NothingPending, Succeeds
<1>3. CASE Discard
  BY <1>3 DEF Discard
<1>4. CASE Check
  BY <1>4 DEF Check, Fails, Undo, Recoverable
<1>5. CASE RecoveryFails
  BY <1>5 DEF RecoveryFails, Fails, Undo
<1>6. CASE Restore
  BY <1>6 DEF Restore, AfterRestore, RecoveryContent
<1>7. CASE RestoreFails
  BY <1>7 DEF RestoreFails, Fails, Undo, RecoveryContent
<1>8. CASE RemoveOne
  BY <1>8 DEF RemoveOne
<1>9. CASE RemoveFolder
  BY <1>9 DEF RemoveFolder, Succeeds
<1>10. CASE CleaningFails
  BY <1>10 DEF CleaningFails, Fails, Undo
<1>11. CASE Conflict
  BY <1>11 DEF Conflict
<1>12. CASE Read
  BY <1>12 DEF Read
<1>13. CASE MakeFolder
  BY <1>13 DEF MakeFolder
<1>14. CASE PersistBlob
  BY <1>14 DEF PersistBlob
<1>15. CASE PlaceJournal
  BY <1>15 DEF PlaceJournal
<1>16. CASE PublishPrepared
  BY <1>16 DEF PublishPrepared
<1>17. CASE PrepareFails
  BY <1>17 DEF PrepareFails
<1>18. CASE Replace
  BY <1>18 DEF Replace, AfterReplace
<1>19. CASE ReplaceFails
  BY <1>19 DEF ReplaceFails, Undo
<1>20. CASE Commit
  BY <1>20 DEF Commit
<1>21. CASE CommitFails
  BY <1>21 DEF CommitFails, Undo
<1>22. CASE Crash
  BY <1>22 DEF Crash
<1>23. CASE Restart
  BY <1>23 DEF Restart
<1>24. CASE ForeignWrite
  BY <1>24 DEF ForeignWrite, AtRest, Pending
<1>25. CASE UNCHANGED vars
  BY <1>25 DEF vars
<1>26. QED
  BY <1>1, <1>2, <1>3, <1>4, <1>5, <1>6, <1>7, <1>8, <1>9, <1>10, <1>11, <1>12, <1>13, <1>14, <1>15, <1>16, <1>17, <1>18, <1>19, <1>20, <1>21, <1>22, <1>23, <1>24, <1>25 DEF Next, Recovery, Apply

(* The invariant is inductive ... *)
LEMMA Inductive == IInv /\ [Next]_vars => IInv'
<1> SUFFICES ASSUME IInv, [Next]_vars PROVE IInv'
  OBVIOUS
<1>1. TypeOK' /\ JournalTrue' /\ OldOrNew' /\ Preparing' /\ Replacing'
  BY TypeStep, JournalStep, OldOrNewStep, PreparingStep, ReplacingStep
<1>2. Restoring' /\ Cleaning' /\ EvidenceKept' /\ ForeignKept' /\ KeptApart'
  BY RestoringStep, CleaningStep, EvidenceStep, ForeignStep, KeptStep
<1>3. QED
  BY <1>1, <1>2 DEF IInv

(* ... holds at the start ... *)
LEMMA Initial == Init => IInv
<1> SUFFICES ASSUME Init PROVE IInv
  OBVIOUS
<1>1. TypeOK
  BY DEF Init, TypeOK, Edits, Journals
<1>2. JournalTrue /\ OldOrNew /\ Preparing /\ Replacing /\ Restoring /\ Cleaning
  BY DEF Init, JournalTrue, OldOrNew, Preparing, Replacing, Restoring, Cleaning
<1>3. EvidenceKept /\ ForeignKept /\ KeptApart
  BY DEF Init, EvidenceKept, Settled, Decided, ForeignKept, KeptApart
<1>4. QED
  BY <1>1, <1>2, <1>3 DEF IInv

(* ... and so holds in every behaviour. *)
LEMMA Invariant == Spec => []IInv
<1>1. IInv /\ [Next]_vars => IInv'
  BY Inductive
<1>2. QED
  BY <1>1, Initial, PTL DEF Spec

-----------------------------------------------------------------------------
(* The variables keep their types, and a folder that is gone holds nothing.   *)
THEOREM TypeCorrect == Spec => []TypeOK
<1>1. IInv => TypeOK
  BY DEF IInv
<1>2. QED
  BY <1>1, Invariant, PTL

(* While a file differs from what the journal decides, the journal and every  *)
(* blob it names are on disk.                                                 *)
THEOREM EvidenceStays == Spec => []EvidenceKept
<1>1. IInv => EvidenceKept
  BY DEF IInv
<1>2. QED
  BY <1>1, Invariant, PTL

(* When no transaction is pending the files nobody else wrote are all new if  *)
(* the edit was committed and all old if it was not, whatever crashed or      *)
(* failed in between.                                                         *)
THEOREM AllOrNothingAlways == Spec => []AllOrNothing
<1>1. IInv => AllOrNothing
  BY DEF IInv, EvidenceKept, AllOrNothing
<1>2. QED
  BY <1>1, Invariant, PTL

(* Recovery never overwrites what others wrote while no operation ran.        *)
THEOREM ForeignKeptAlways == Spec => []ForeignKept
<1>1. IInv => ForeignKept
  BY DEF IInv
<1>2. QED
  BY <1>1, Invariant, PTL

-----------------------------------------------------------------------------
(* The refinement: what every step looks like from the workspace.             *)

(* A write inside a transaction, by the transaction or by others, is a move of the abstract edit. *)
LEMMA AtomicMove ==
  ASSUME IInv, TypeOK', folder, UNCHANGED <<folder, edit, committed, touched>>
  PROVE  Atomic!Move
<1>1. disk' \in [Files -> Contents]
  BY DEF TypeOK
<1>2. InForce' = [f \in Files |-> IF f \in touched THEN disk'[f] ELSE InForce[f]]
  BY DEF InForce, Decided
<1>3. QED
  BY <1>1, <1>2 DEF Atomic!Move

(* A step that leaves the files and the decision alone is a stutter. *)
LEMMA AtomicStutter ==
  ASSUME UNCHANGED <<disk, folder, edit, committed, touched>>
  PROVE  UNCHANGED Atomic!vars
BY DEF Atomic!vars, InForce, Decided

(* Nothing pending: the workspace shows what is in force. *)
LEMMA SettledInForce ==
  ASSUME IInv, Settled
  PROVE  InForce = disk
BY DEF IInv, TypeOK, Settled, InForce

(* Every step of the transaction is a step of the atomic edit or a stutter. *)
LEMMA AtomicStep == IInv /\ [Next]_vars => [Atomic!Next]_(Atomic!vars)
<1> SUFFICES ASSUME IInv, [Next]_vars PROVE Atomic!Next \/ UNCHANGED Atomic!vars
  OBVIOUS
<1>0. TypeOK'
  BY TypeStep
<1>1. CASE Request
  BY <1>1, AtomicStutter DEF Request, stored, history
<1>2. CASE NothingPending
  BY <1>2, AtomicStutter DEF NothingPending, stored, history
<1>3. CASE Discard
  BY <1>3, AtomicStutter DEF Discard, stored, history
<1>4. CASE Check
  BY <1>4, AtomicStutter DEF Check, stored, history
<1>5. CASE RecoveryFails
  BY <1>5, AtomicStutter DEF RecoveryFails, stored, history
<1>6. CASE Restore
  <2>1. folder /\ UNCHANGED <<folder, edit, committed, touched>>
    BY <1>6 DEF Restore, stored, history, IInv, Restoring, Replacing, Evidence
  <2>2. QED
    BY <1>0, <2>1, AtomicMove DEF Atomic!Next
<1>7. CASE RestoreFails
  <2>1. folder /\ UNCHANGED <<folder, edit, committed, touched>>
    BY <1>7 DEF RestoreFails, stored, history, IInv, Restoring, Replacing, Evidence
  <2>2. QED
    BY <1>0, <2>1, AtomicMove DEF Atomic!Next
<1>8. CASE RemoveOne
  BY <1>8, AtomicStutter DEF RemoveOne, stored, history
<1>9. CASE RemoveFolder
  <2>1. disk = InForce
    BY <1>9, SettledInForce DEF RemoveFolder, IInv, Cleaning
  <2>2. UNCHANGED <<disk, InForce, touched>> /\ folder' = FALSE
    BY <1>9 DEF RemoveFolder, history, InForce, Decided
  <2>3. CASE folder
    BY <2>1, <2>2, <2>3 DEF Atomic!Settle, Atomic!Next
  <2>4. CASE ~folder
    BY <2>2, <2>4 DEF Atomic!vars, IInv, TypeOK
  <2>5. QED
    BY <2>3, <2>4
<1>10. CASE CleaningFails
  <2>1. disk = InForce
    BY <1>10, SettledInForce DEF CleaningFails, IInv, Cleaning
  <2>2. UNCHANGED <<disk, InForce, touched>>
    BY <1>10 DEF CleaningFails, history, InForce, Decided
  <2>3. folder' = folder \/ (folder /\ folder' = FALSE)
    BY <1>10 DEF CleaningFails, IInv, TypeOK
  <2>4. QED
    BY <2>1, <2>2, <2>3 DEF Atomic!Settle, Atomic!Next, Atomic!vars
<1>11. CASE Conflict
  BY <1>11, AtomicStutter DEF Conflict, stored, history
<1>12. CASE Read
  <2>1. ~folder /\ UNCHANGED <<disk, folder>> /\ touched' = {}
    BY <1>12 DEF Read, IInv, Preparing, stored
  <2>2. InForce = disk
    BY <2>1, SettledInForce DEF IInv, EvidenceKept
  <2>3. edit'.old = disk /\ ~committed'
    BY <1>12 DEF Read
  <2>4. InForce' = disk
    BY <2>1, <2>3 DEF InForce, Decided, IInv, TypeOK
  <2>5. QED
    BY <2>1, <2>2, <2>4 DEF Atomic!Look, Atomic!Next
<1>13. CASE MakeFolder
  <2>1. ~folder /\ folder' = TRUE /\ UNCHANGED <<disk, InForce, touched>>
    BY <1>13 DEF MakeFolder, history, InForce, Decided
  <2>2. QED
    BY <2>1 DEF Atomic!Begin, Atomic!Next
<1>14. CASE PersistBlob
  BY <1>14, AtomicStutter DEF PersistBlob, stored, history
<1>15. CASE PlaceJournal
  BY <1>15, AtomicStutter DEF PlaceJournal, stored, history
<1>16. CASE PublishPrepared
  BY <1>16, AtomicStutter DEF PublishPrepared, stored, history
<1>17. CASE PrepareFails
  <2>1. UNCHANGED <<disk, InForce, touched>>
    BY <1>17 DEF PrepareFails, history, InForce, Decided
  <2>2. folder' = folder \/ (~folder /\ folder' = TRUE)
    BY <1>17 DEF PrepareFails, IInv, TypeOK
  <2>3. QED
    BY <2>1, <2>2 DEF Atomic!Begin, Atomic!Next, Atomic!vars
<1>18. CASE Replace
  <2>1. folder /\ UNCHANGED <<folder, edit, committed, touched>>
    BY <1>18 DEF Replace, stored, history, IInv, Restoring, Replacing, Evidence
  <2>2. QED
    BY <1>0, <2>1, AtomicMove DEF Atomic!Next
<1>19. CASE ReplaceFails
  <2>1. folder /\ UNCHANGED <<folder, edit, committed, touched>>
    BY <1>19 DEF ReplaceFails, stored, history, IInv, Restoring, Replacing, Evidence
  <2>2. QED
    BY <1>0, <2>1, AtomicMove DEF Atomic!Next
<1>20. CASE Commit
  <2>1. folder /\ UNCHANGED <<disk, folder, edit, touched>> /\ committed' = TRUE
    BY <1>20 DEF Commit, IInv, Replacing, Evidence
  <2>2. \A f \in Files \ touched : disk[f] = edit.new[f]
    BY <1>20 DEF Commit, IInv, Replacing
  <2>3. InForce' = disk
    BY <2>1, <2>2 DEF InForce, Decided, IInv, TypeOK
  <2>4. QED
    BY <2>1, <2>3 DEF Atomic!Decide, Atomic!Next
<1>21. CASE CommitFails
  <2>1. CASE UNCHANGED committed
    BY <1>21, <2>1, AtomicStutter DEF CommitFails
  <2>2. CASE committed' = TRUE
    <3>1. folder /\ UNCHANGED <<disk, folder, edit, touched>>
      BY <1>21 DEF CommitFails, IInv, Replacing, Evidence
    <3>2. \A f \in Files \ touched : disk[f] = edit.new[f]
      BY <1>21 DEF CommitFails, IInv, Replacing
    <3>3. InForce' = disk
      BY <2>2, <3>1, <3>2 DEF InForce, Decided, IInv, TypeOK
    <3>4. QED
      BY <3>1, <3>3 DEF Atomic!Decide, Atomic!Next
  <2>3. QED
    BY <1>21, <2>1, <2>2 DEF CommitFails
<1>22. CASE Crash
  BY <1>22, AtomicStutter DEF Crash, stored, history
<1>23. CASE Restart
  BY <1>23, AtomicStutter DEF Restart, stored, history
<1>24. CASE ForeignWrite
  <2>1. PICK f \in Files : \E c \in Contents : disk' = [disk EXCEPT ![f] = c] /\ touched' = touched \cup {f}
    BY <1>24 DEF ForeignWrite
  <2>2. UNCHANGED <<folder, edit, committed>>
    BY <1>24 DEF ForeignWrite, stored
  <2>3. touched' \in SUBSET Files /\ touched \subseteq touched' /\ disk' \in [Files -> Contents]
    BY <1>0, <2>1 DEF TypeOK
  <2>4. \A g \in Files \ touched' : disk'[g] = disk[g]
    BY <2>1 DEF IInv, TypeOK
  <2>5. InForce' = [g \in Files |-> IF g \in touched' THEN disk'[g] ELSE InForce[g]]
    BY <2>1, <2>2 DEF InForce, Decided
  <2>6. QED
    BY <2>2, <2>3, <2>4, <2>5 DEF Atomic!Others, Atomic!Next
<1>25. CASE UNCHANGED vars
  BY <1>25, AtomicStutter DEF vars
<1>26. QED
  BY <1>1, <1>2, <1>3, <1>4, <1>5, <1>6, <1>7, <1>8, <1>9, <1>10, <1>11, <1>12, <1>13, <1>14, <1>15, <1>16, <1>17, <1>18, <1>19, <1>20, <1>21, <1>22, <1>23, <1>24, <1>25 DEF Next, Recovery, Apply

(* An edit of files is one step for whoever looks at the workspace, through   *)
(* every crash, error and recovery: FileTransaction implements AtomicEdit.    *)
THEOREM Refinement == Spec => FilesAtomic
<1>1. Init => Atomic!Init
  <2> SUFFICES ASSUME Init PROVE Atomic!Init
    OBVIOUS
  <2>1. InForce = disk
    BY Initial, SettledInForce DEF Init, IInv, EvidenceKept
  <2>2. QED
    BY <2>1 DEF Init, Atomic!Init
<1>2. IInv /\ [Next]_vars => [Atomic!Next]_(Atomic!vars)
  BY AtomicStep
<1>3. QED
  BY <1>1, <1>2, Invariant, PTL DEF Spec, FilesAtomic, Atomic!Spec
=============================================================================
