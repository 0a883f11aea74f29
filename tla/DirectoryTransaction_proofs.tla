-------------------- MODULE DirectoryTransaction_proofs --------------------
(* Theorems about DirectoryTransaction, for every tree of two levels, every   *)
(* content, any number of operations and edits and any changes of others:     *)
(* what it keeps, and that it implements AtomicEdit.  And of the log of a     *)
(* device, for any number of streams and lines: what its counters count, and  *)
(* that an export finds all of it.                                            *)
EXTENDS DirectoryTransaction, WindowLog, SequenceTheorems, FiniteSetTheorems,
        WellFoundedInduction, TLAPS

-----------------------------------------------------------------------------
(* The inductive invariant.                                                  *)

Renames   == edit.renames
Ends(r)   == {r[1], r[2]}
AllEnds   == UNION {Ends(r) : r \in Renames}
Untouched == Dirs \ touched

Edits == [creates : SUBSET Dirs, deletes : SUBSET Leaves, renames : SUBSET (Leaves \X Leaves),
          created : SUBSET Dirs, overwrites : SUBSET Dirs,
          old : [Dirs -> Contents], new : [Dirs -> Contents]]

Typed ==
  /\ TypeOK
  /\ edit \in Edits
  /\ answer \in {"none", "opened", "refused", "applied", "failed"}
  /\ committed \in BOOLEAN

(* Every path of an edit has one role, and the directories in the way are     *)
(* targets.  Only these and the deleted ones are in the folder.               *)
OneRole ==
  /\ (edit.creates \cup edit.created) \cap (edit.deletes \cup AllEnds) = {}
  /\ edit.deletes \cap AllEnds = {}
  /\ \A r \in Renames : r[1] # r[2]
  /\ \A r, s \in Renames : r # s => Ends(r) \cap Ends(s) = {}
  /\ edit.overwrites \subseteq {r[2] : r \in Renames}
  /\ \A p \in Dirs : backup[p] # "absent" => p \in edit.deletes \cup edit.overwrites

(* Who touches an end of a rename touches both.                               *)
TouchedTogether == \A r \in Renames : r[1] \in touched <=> r[2] \in touched

(* Where the service is says how far the transaction folder has come.         *)
Phase ==
  /\ pc = "reading" => ~folder
  /\ pc = "preparing" => /\ journal \in {"none", "empty"} /\ ~committed
                         /\ \A p \in Dirs : backup[p] = "absent"
  /\ pc \in {"creating", "deleting", "renaming", "committing",
             "removing", "undeleting", "unrenaming"} => journal = "prepared"
  /\ pc \in {"redoing", "verifying"} => journal = "committed"
  /\ pc = "cleaning" => folder
  /\ journal \in {"empty", "prepared"} => ~committed
  /\ journal = "committed" => committed

(* What the edit found, where nobody else was.                                *)
Found ==
  /\ \A p \in edit.created \ touched : edit.old[p] = "absent"
  /\ \A d \in edit.deletes \ touched : IsDir(edit.old[d])
  /\ \A d \in edit.deletes : Parent[d] \notin touched \cup {Root} => IsDir(edit.old[Parent[d]])
  /\ \A r \in Renames : r[1] \notin touched =>
       IsDir(edit.old[r[1]]) /\ edit.old[r[2]] # "file"

(* What the journal says it leaves behind.                                    *)
Planned ==
  journal \in Readable =>
    /\ \A p \in Untouched \ (edit.created \cup edit.deletes \cup AllEnds) : edit.new[p] = edit.old[p]
    /\ \A p \in edit.created \ touched : edit.new[p] = "empty"
    /\ \A d \in edit.deletes \ touched : edit.new[d] = "absent"
    /\ \A r \in Renames : r[1] \notin touched =>
         /\ edit.new[r[1]] = "absent" /\ edit.new[r[2]] = edit.old[r[1]]
         /\ r[2] \in edit.overwrites <=> edit.old[r[2]] # "absent"

(* Where the tree of a deletion or of a rename is.                            *)
There(d) == disk[d] = edit.old[d] /\ backup[d] = "absent"
Gone(d)  == disk[d] = "absent" /\ backup[d] = edit.old[d]

InPlace(r) == disk[r[1]] = edit.old[r[1]] /\ There(r[2])
Cleared(r) == r[2] \in edit.overwrites /\ disk[r[1]] = edit.old[r[1]] /\ Gone(r[2])
Moved(r)   == /\ disk[r[1]] = "absent" /\ disk[r[2]] = edit.old[r[1]]
              /\ backup[r[2]] = IF r[2] \in edit.overwrites THEN edit.old[r[2]] ELSE "absent"

(* A path that is pending and that nobody else changed is on its way: its     *)
(* phase says how far it has come, any point of it is possible at rest.       *)
CreationOn(p) ==
  /\ disk[p] \in {"absent", "empty"}
  /\ pc = "creating" => disk[p] = IF p \in todo THEN "absent" ELSE "empty"
  /\ pc \in {"deleting", "renaming", "committing"} => disk[p] = "empty"
  /\ pc = "removing" => p \in todo \/ disk[p] = "absent"
  /\ pc \in {"undeleting", "unrenaming", "cleaning"} => disk[p] = "absent"

DeletionOn(d) ==
  /\ There(d) \/ Gone(d)
  /\ pc = "creating" => There(d)
  /\ pc = "deleting" => IF d \in todo THEN There(d) ELSE Gone(d)
  /\ pc \in {"renaming", "committing"} => Gone(d)
  /\ pc = "undeleting" => d \in todo \/ There(d)
  /\ pc \in {"unrenaming", "cleaning"} => There(d)

RenameOn(r) ==
  /\ InPlace(r) \/ Cleared(r) \/ Moved(r)
  /\ pc \in {"creating", "deleting"} => InPlace(r)
  /\ pc = "renaming" => IF r[1] \in todo THEN InPlace(r) \/ Cleared(r) ELSE Moved(r)
  /\ pc = "committing" => Moved(r)
  /\ pc = "unrenaming" => r[1] \in todo \/ InPlace(r)
  /\ pc = "cleaning" => InPlace(r)

OnItsWay ==
  journal = "prepared" =>
    /\ \A p \in Untouched \ (edit.created \cup edit.deletes \cup AllEnds) : disk[p] = edit.old[p]
    /\ \A p \in edit.created \ touched : CreationOn(p)
    /\ \A d \in edit.deletes \ touched : DeletionOn(d)
    /\ \A r \in Renames : r[1] \notin touched => RenameOn(r)

(* What is not on its way is where the journal wants it.                      *)
Decisive == journal # "prepared" => \A p \in Untouched : disk[p] = Decided(p)

(* What others put there at rest is no path of an edit that is being applied, *)
(* is no state that recovery takes for its own, and what the validation of a  *)
(* recovery has found out about it stays so.                                  *)
KeptApart ==
  \A k \in kept :
    /\ disk[k[1]] = k[2] /\ k[2] \notin {"absent", "empty"}
    /\ pc \in {"preparing", "creating", "deleting", "renaming", "committing"} =>
         k[1] \notin edit.creates \cup edit.created \cup edit.deletes \cup AllEnds
    /\ Pending(k[1]) => \A q \in Partners(k[1]) : k[2] # edit.old[q]
    /\ pc \in {"removing", "undeleting", "unrenaming"} =>
         /\ k[1] \in edit.deletes => backup[k[1]] = "absent"
         /\ \A r \in Renames : k[1] = r[2] =>
              Exists(r[1]) /\ (k[2] = "file" => backup[r[2]] # "file")

IInv ==
  /\ Typed /\ OneRole /\ TouchedTogether /\ Phase
  /\ Found /\ Planned /\ OnItsWay /\ Decisive /\ KeptApart

-----------------------------------------------------------------------------
(* What the paths and the operations of an edit are.                         *)

(* The contents are apart, and a leaf is nobody's parent. *)
LEMMA Ground ==
  /\ "absent" \notin Trees /\ "empty" \notin Trees /\ "file" \notin Trees
  /\ {"absent", "empty", "file"} \subseteq Contents /\ Trees \subseteq Contents
  /\ IsDir("empty") /\ ~IsDir("absent") /\ ~IsDir("file")
  /\ \A c \in Contents : IsDir(c) <=> c \notin {"absent", "file"}
  /\ \A p \in Dirs : Parent[p] = Root \/ Parent[p] \in Dirs
  /\ \A p \in Leaves : p \in Dirs /\ \A q \in Dirs : Parent[q] # p
  /\ \A q \in Dirs : Parent[q] # Root => Parent[Parent[q]] = Root /\ Parent[q] # q
<1>1. /\ Parent \in [Dirs -> Dirs \cup {Root}] /\ Root \notin Dirs
      /\ \A p \in Dirs : Parent[p] # Root => Parent[Parent[p]] = Root
      /\ Trees \cap {"absent", "empty", "file"} = {}
  BY DirectoryAssumption
<1>2. /\ "absent" \notin Trees /\ "empty" \notin Trees /\ "file" \notin Trees
  BY <1>1
<1>3. \A p \in Leaves : p \in Dirs /\ \A q \in Dirs : Parent[q] # p
  BY DEF Leaves, Children
<1>4. \A c \in Contents : IsDir(c) <=> c \notin {"absent", "file"}
  BY <1>2 DEF Contents, IsDir
<1>5. \A q \in Dirs : Parent[q] # Root => Parent[Parent[q]] = Root /\ Parent[q] # q
  BY <1>1
<1>6. QED
  BY <1>1, <1>2, <1>3, <1>4, <1>5 DEF Contents, IsDir

(* A source has one target. *)
LEMMA TheTarget ==
  ASSUME Typed, OneRole
  PROVE  /\ \A r \in Renames : /\ r[1] \in Leaves /\ r[2] \in Leaves /\ r = <<r[1], r[2]>>
                               /\ r[1] \in Sources /\ Target(r[1]) = r[2]
         /\ \A o \in Sources : \E r \in Renames : o = r[1] /\ Target(o) = r[2]
<1>1. \A r \in Renames : r[1] \in Leaves /\ r[2] \in Leaves /\ r = <<r[1], r[2]>>
  BY DEF Typed, Edits, Renames
<1>2. ASSUME NEW r \in Renames
      PROVE  r[1] \in Sources /\ Target(r[1]) = r[2]
  <2>1. r[1] \in Sources
    BY DEF Sources, Renames
  <2>2. \A s \in Renames : s[1] = r[1] => s = r
    BY DEF OneRole, Ends
  <2>3. QED
    BY <2>1, <2>2 DEF Target, Renames
<1>3. \A o \in Sources : \E r \in Renames : o = r[1]
  BY DEF Sources, Renames
<1>4. QED
  BY <1>1, <1>2, <1>3

(* The paths of an edit, by their roles. *)
LEMMA RolesAre ==
  ASSUME Typed
  PROVE  /\ Roles(edit.created, edit.deletes, edit.renames) = edit.created \cup edit.deletes \cup AllEnds
         /\ edit.created \subseteq Dirs /\ edit.creates \subseteq Dirs
         /\ edit.deletes \subseteq Leaves /\ AllEnds \subseteq Leaves
         /\ edit.overwrites \subseteq Dirs
         /\ edit.old \in [Dirs -> Contents] /\ edit.new \in [Dirs -> Contents]
         /\ disk \in [Dirs -> Contents] /\ backup \in [Dirs -> Contents]
         /\ \A r \in Renames : r[1] \in AllEnds /\ r[2] \in AllEnds
BY DEF Typed, TypeOK, Edits, Roles, AllEnds, Ends, Renames

(* The partners of a path are the other end of its rename. *)
LEMMA PartnersAre ==
  ASSUME Typed, OneRole
  PROVE  /\ \A r \in Renames : Partners(r[1]) = Ends(r) /\ Partners(r[2]) = Ends(r)
         /\ \A p \in Dirs : p \notin AllEnds => Partners(p) = {p}
         /\ \A p \in Dirs : p \in Partners(p) /\ Partners(p) \subseteq Dirs
<1>1. ASSUME NEW r \in Renames
      PROVE  Partners(r[1]) = Ends(r) /\ Partners(r[2]) = Ends(r)
  <2>1. \A s \in Renames : (s[1] \in Ends(r) \/ s[2] \in Ends(r)) => s = r
    BY DEF OneRole, Ends
  <2>2. r[1] # r[2]
    BY DEF OneRole
  <2>3. {s \in edit.renames : s[1] = r[1]} = {r} /\ {s \in edit.renames : s[2] = r[2]} = {r}
    BY <2>1 DEF Ends, Renames
  <2>4. {s \in edit.renames : s[2] = r[1]} = {} /\ {s \in edit.renames : s[1] = r[2]} = {}
    BY <2>1, <2>2 DEF Ends, Renames
  <2>5. QED
    BY <2>3, <2>4 DEF Partners, Ends
<1>2. ASSUME NEW p \in Dirs, p \notin AllEnds
      PROVE  Partners(p) = {p}
  <2>1. {s \in edit.renames : s[1] = p} = {} /\ {s \in edit.renames : s[2] = p} = {}
    BY <1>2 DEF AllEnds, Ends, Renames
  <2>2. QED
    BY <2>1 DEF Partners
<1>3. \A p \in Dirs : p \in Partners(p) /\ Partners(p) \subseteq Dirs
  BY RolesAre DEF Partners, Typed, Edits, Leaves
<1>4. QED
  BY <1>1, <1>2, <1>3

(* What the steps below take from the invariant. *)
LEMMA Known ==
  ASSUME IInv
  PROVE  /\ Typed /\ OneRole /\ TouchedTogether /\ Phase
         /\ Found /\ Planned /\ OnItsWay /\ Decisive /\ KeptApart
BY DEF IInv

-----------------------------------------------------------------------------
(* Steps that change no path.                                                *)

Same == UNCHANGED <<disk, stored, edit, committed, touched, kept>>

(* Where nothing changes but the place of the service, types and roles stay. *)
LEMMA SameKeeps ==
  ASSUME IInv, Same,
         pc' \in Phases \cup {"down", "idle", "recovering", "verifying", "cleaning", "reading",
                              "preparing", "committing"},
         why' \in {"open", "edit", "undo", "commit"},
         answer' \in {"none", "opened", "refused", "applied", "failed"},
         todo' \subseteq Work(pc')
  PROVE  Typed' /\ OneRole' /\ TouchedTogether' /\ Found' /\ Planned' /\ Decisive'
<1> USE Known DEF Same, stored
<1>1. \A phase : Work(phase)' = Work(phase)
  BY DEF Work, Sources
<1>2. Typed'
  BY <1>1 DEF Typed, TypeOK, WellFormed, Edits, Work, Sources
<1>3. OneRole' /\ TouchedTogether'
  BY DEF OneRole, TouchedTogether, Renames, AllEnds, Ends
<1>4. Found' /\ Planned' /\ Decisive'
  BY DEF Found, Planned, Decisive, Decided, Untouched, Renames, AllEnds, Ends
<1>5. QED
  BY <1>2, <1>3, <1>4

(* The service gives up, ends or starts over: any point of an edit is         *)
(* possible at rest.                                                          *)
LEMMA Rests ==
  ASSUME IInv, Same, pc' \in {"idle", "down", "recovering"}, todo' = {},
         why' \in {"open", "edit", "undo", "commit"},
         answer' \in {"none", "opened", "refused", "applied", "failed"}
  PROVE  IInv'
<1> USE Known DEF Same, stored
<1>1. Typed' /\ OneRole' /\ TouchedTogether' /\ Found' /\ Planned' /\ Decisive'
  BY SameKeeps
<1>2. Phase'
  BY DEF Phase
<1>3. OnItsWay'
  <2> SUFFICES ASSUME journal = "prepared"
               PROVE  OnItsWay'
    BY DEF OnItsWay
  <2>1. /\ \A p \in edit.created \ touched : CreationOn(p)'
        /\ \A d \in edit.deletes \ touched : DeletionOn(d)'
        /\ \A r \in Renames : r[1] \notin touched => RenameOn(r)'
    BY DEF OnItsWay, CreationOn, DeletionOn, RenameOn, There, Gone, InPlace, Cleared, Moved
  <2>2. QED
    BY <2>1 DEF OnItsWay, Untouched, Renames, AllEnds, Ends
<1>4. KeptApart'
  BY DEF KeptApart, Pending, Roles, Partners, Renames, AllEnds, Ends, Exists
<1>5. QED
  BY <1>1, <1>2, <1>3, <1>4 DEF IInv

(* Whoever fails gives up or takes the edit back. *)
LEMMA FailsRest ==
  ASSUME IInv, Same, Fails \/ Undo
  PROVE  IInv'
<1>1. why \in {"open", "edit", "undo", "commit"}
      /\ answer \in {"none", "opened", "refused", "applied", "failed"}
  BY Known DEF Typed, TypeOK
<1>2. QED
  BY <1>1, Rests DEF Fails, Undo

(* Steps into a rest: requests, refusals, crashes and restarts. *)
LEMMA RestingSteps ==
  ASSUME IInv, \/ Request \/ RecoveryFails \/ CleaningFails \/ Conflict \/ ApplyFails
               \/ Crash \/ Restart
  PROVE  IInv'
<1>1. /\ why \in {"open", "edit", "undo", "commit"}
      /\ answer \in {"none", "opened", "refused", "applied", "failed"}
      /\ todo \subseteq Work(pc)
  BY Known DEF Typed, TypeOK
<1>2. CASE RecoveryFails \/ CleaningFails \/ ApplyFails
  BY <1>2, FailsRest DEF RecoveryFails, CleaningFails, ApplyFails, Same, history
<1>3. CASE Request \/ Conflict \/ Crash \/ Restart
  <2>1. todo' = {}
    BY <1>1, <1>3 DEF Request, Conflict, Crash, Restart, Work
  <2>2. QED
    BY <1>1, <1>3, <2>1, Rests DEF Request, Conflict, Crash, Restart, Same, history
<1>4. QED
  BY <1>2, <1>3

(* A recovery that succeeds ends its request, or lets the edit begin. *)
LEMMA SucceedsRests ==
  ASSUME IInv, Same, Succeeds, ~folder
  PROVE  IInv'
<1>1. /\ why \in {"open", "edit", "undo", "commit"}
      /\ answer \in {"none", "opened", "refused", "applied", "failed"}
  BY Known DEF Typed, TypeOK
<1>2. CASE pc' = "idle"
  BY <1>1, <1>2, Rests DEF Succeeds
<1>3. CASE pc' = "reading"
  <2> USE Known DEF Same, stored
  <2>1. Typed' /\ OneRole' /\ TouchedTogether' /\ Found' /\ Planned' /\ Decisive'
    BY <1>1, <1>3, SameKeeps DEF Succeeds
  <2>2. Phase'
    BY <1>3 DEF Phase
  <2>3. journal' # "prepared"
    BY DEF Typed, TypeOK
  <2>4. KeptApart'
    BY <1>3 DEF KeptApart, Pending, Roles, Partners, Renames, AllEnds, Ends, Exists
  <2>5. QED
    BY <2>1, <2>2, <2>3, <2>4 DEF IInv, OnItsWay
<1>4. QED
  BY <1>2, <1>3 DEF Succeeds

(* Nothing is pending: what was asked for goes on. *)
LEMMA NothingPendingStep == ASSUME IInv, NothingPending PROVE IInv'
BY SucceedsRests DEF NothingPending, Same, history

(* The journal does not say anything, or says committed: the phase has        *)
(* nothing to be on its way.                                                  *)
LEMMA NotPreparedStep ==
  ASSUME IInv, Discard \/ CheckCommitted \/ Verify
  PROVE  IInv'
<1>1. Same
  BY DEF Discard, CheckCommitted, Verify, Same, history
<1>2. CASE Fails
  BY <1>1, <1>2, FailsRest
<1>3. CASE ~Fails
  <2> USE Known
  <2>1. journal # "prepared"
    BY DEF Discard, CheckCommitted, Verify, Phase, Readable
  <2>2. /\ pc' \in {"cleaning", "redoing"} /\ (pc' = "redoing" => journal = "committed") /\ folder
        /\ why' = why /\ answer' = answer
    BY <1>3, <2>1 DEF Discard, CheckCommitted, Verify, Phase, Typed, TypeOK
  <2>3. todo' \subseteq Work(pc') /\ why \in {"open", "edit", "undo", "commit"}
        /\ answer \in {"none", "opened", "refused", "applied", "failed"}
    BY <1>3 DEF Discard, CheckCommitted, Verify, Typed, TypeOK, Work
  <2>4. Typed' /\ OneRole' /\ TouchedTogether' /\ Found' /\ Planned' /\ Decisive'
    BY <1>1, <2>2, <2>3, SameKeeps DEF Phases
  <2>5. Phase'
    BY <1>1, <2>2 DEF Phase, Same, stored
  <2>6. OnItsWay'
    BY <1>1, <2>1 DEF OnItsWay, Same, stored
  <2>7. KeptApart'
    BY <1>1, <2>2 DEF KeptApart, Pending, Roles, Partners, Renames, AllEnds, Ends, Exists, Same, stored
  <2>8. QED
    BY <2>4, <2>5, <2>6, <2>7 DEF IInv
<1>4. QED
  BY <1>2, <1>3

(* The validation of a recovery finds out what others left of the edit. *)
LEMMA CheckPreparedStep == ASSUME IInv, CheckPrepared PROVE IInv'
<1> USE Known
<1>1. Same
  BY DEF CheckPrepared, Same, history
<1>2. CASE ~Recoverable
  BY <1>1, <1>2, FailsRest DEF CheckPrepared
<1>3. CASE Recoverable
  <2>1. /\ pc' = "removing" /\ todo' = edit.created /\ why' = why /\ answer' = answer
        /\ journal = "prepared" /\ folder
    BY <1>3 DEF CheckPrepared, Work
  <2>2. Typed' /\ OneRole' /\ TouchedTogether' /\ Found' /\ Planned' /\ Decisive'
    BY <1>1, <2>1, SameKeeps DEF Phases, Work, Typed, TypeOK
  <2>3. Phase'
    BY <1>1, <2>1 DEF Phase, Same, stored
  <2>4. OnItsWay'
    <3>1. /\ \A p \in edit.created \ touched : CreationOn(p)'
          /\ \A d \in edit.deletes \ touched : DeletionOn(d)'
          /\ \A r \in Renames : r[1] \notin touched => RenameOn(r)'
      BY <1>1, <2>1 DEF OnItsWay, CreationOn, DeletionOn, RenameOn, There, Gone, InPlace, Cleared,
                        Moved, Same, stored
    <3>2. QED
      BY <1>1, <2>1, <3>1 DEF OnItsWay, Untouched, Renames, AllEnds, Ends, Same, stored
  <2>5. KeptApart'
    <3> SUFFICES ASSUME NEW k \in kept
                 PROVE  /\ k[1] \in edit.deletes => backup[k[1]] = "absent"
                        /\ \A r \in Renames : k[1] = r[2] =>
                             Exists(r[1]) /\ (k[2] = "file" => backup[r[2]] # "file")
      BY <1>1, <2>1 DEF KeptApart, Pending, Roles, Partners, Renames, AllEnds, Ends, Exists, Same, stored
    <3>1. disk[k[1]] = k[2] /\ k[2] \notin {"absent", "empty"} /\ k[1] \in Dirs
      BY DEF KeptApart, Typed, TypeOK
    <3>2. k[1] \in edit.deletes => backup[k[1]] = "absent"
      BY <1>3, <3>1 DEF Recoverable, DeletionKnown, Exists
    <3>3. ASSUME NEW r \in Renames, k[1] = r[2]
          PROVE  Exists(r[1]) /\ (k[2] = "file" => backup[r[2]] # "file")
      <4>1. r[1] \in Sources /\ Target(r[1]) = r[2] /\ r[1] \in Dirs
        BY TheTarget, Ground
      <4>2. RenameKnown(r[1])
        BY <1>3, <4>1 DEF Recoverable
      <4>3. Pending(r[2])
        BY <2>1, RolesAre DEF Pending, Readable
      <4>4. k[2] # edit.old[r[1]]
        BY <3>3, <4>3, PartnersAre DEF KeptApart, Ends
      <4>5. IsDir(disk[r[1]])
        BY <3>1, <3>3, <4>1, <4>2, <4>4 DEF RenameKnown
      <4>6. Exists(r[1])
        BY <4>5, Ground DEF Exists
      <4>7. k[2] = "file" => backup[r[2]] # "file"
        <5> SUFFICES ASSUME k[2] = "file" PROVE backup[r[2]] # "file"
          OBVIOUS
        <5>1. ~IsDir(disk[r[2]])
          BY <3>1, <3>3, Ground
        <5>2. CASE r[2] \notin edit.overwrites
          <6>1. r[2] \notin edit.deletes /\ r[2] \in Dirs
            BY Ground, TheTarget, RolesAre DEF OneRole
          <6>2. backup[r[2]] = "absent"
            BY <5>2, <6>1 DEF OneRole
          <6>3. QED
            BY <6>2
        <5>3. CASE r[2] \in edit.overwrites
          <6>1. IsDir(backup[r[2]])
            BY <4>1, <4>2, <5>1, <5>3 DEF RenameKnown
          <6>2. QED
            BY <6>1, Ground
        <5>4. QED
          BY <5>2, <5>3
      <4>8. QED
        BY <4>6, <4>7
    <3>4. QED
      BY <3>2, <3>3
  <2>6. QED
    BY <2>2, <2>3, <2>4, <2>5 DEF IInv
<1>4. QED
  BY <1>2, <1>3

(* A phase that has treated its paths hands over to the next. *)
LEMMA NextPhaseStep == ASSUME IInv, NextPhase PROVE IInv'
<1> USE Known
<1>1. Same /\ todo = {} /\ pc \in Phases /\ pc' = After(pc) /\ why' = why /\ answer' = answer
  BY DEF NextPhase, Same, history
<1>2. todo' = Work(pc')
  <2>1. \A phase : Work(phase)' = Work(phase)
    BY <1>1 DEF Work, Sources, Same
  <2>2. QED
    BY <2>1 DEF NextPhase
<1>3. pc' \in {"deleting", "renaming", "committing", "undeleting", "unrenaming", "cleaning", "verifying"}
  BY <1>1 DEF Phases, After
<1>4. Typed' /\ OneRole' /\ TouchedTogether' /\ Found' /\ Planned' /\ Decisive'
  BY <1>1, <1>2, <1>3, SameKeeps DEF Phases, Typed, TypeOK
<1>5. (pc \in {"creating", "deleting", "renaming", "removing", "undeleting", "unrenaming"} => journal = "prepared")
      /\ (pc = "redoing" => journal = "committed") /\ (journal # "none" => folder)
  BY DEF Phase, Typed, TypeOK
<1>6. Phase'
  BY <1>1, <1>5 DEF Phase, Same, stored, After, Phases
<1>7. OnItsWay'
  <2> SUFFICES ASSUME journal = "prepared"
               PROVE  OnItsWay'
    BY <1>1 DEF OnItsWay, Same, stored
  <2>0. pc # "redoing"
    BY <1>5
  <2>1. \A p \in edit.created \ touched : CreationOn(p)'
    BY <1>1, <2>0 DEF OnItsWay, CreationOn, Same, stored, After, Phases
  <2>2. \A d \in edit.deletes \ touched : DeletionOn(d)'
    <3> SUFFICES ASSUME NEW d \in edit.deletes \ touched
                 PROVE  DeletionOn(d)'
      OBVIOUS
    <3>1. DeletionOn(d) /\ (There(d)' <=> There(d)) /\ (Gone(d)' <=> Gone(d))
      BY <1>1 DEF OnItsWay, There, Gone, Same, stored
    <3>2. pc' = "deleting" => d \in todo'
      BY <1>2 DEF Work
    <3>3. pc' = "undeleting" => d \in todo'
      BY <1>2 DEF Work
    <3>4. QED
      BY <1>1, <2>0, <3>1, <3>2, <3>3 DEF DeletionOn, After, Phases
  <2>3. \A r \in Renames : r[1] \notin touched => RenameOn(r)'
    <3> SUFFICES ASSUME NEW r \in Renames, r[1] \notin touched
                 PROVE  RenameOn(r)'
      OBVIOUS
    <3>1. RenameOn(r) /\ (InPlace(r)' <=> InPlace(r)) /\ (Cleared(r)' <=> Cleared(r))
          /\ (Moved(r)' <=> Moved(r))
      BY <1>1 DEF OnItsWay, InPlace, Cleared, Moved, There, Gone, Same, stored
    <3>2. pc' = "renaming" => r[1] \in todo'
      BY <1>2, TheTarget DEF Work
    <3>3. pc' = "unrenaming" => r[1] \in todo'
      BY <1>2, TheTarget DEF Work
    <3>4. QED
      BY <1>1, <2>0, <3>1, <3>2, <3>3 DEF RenameOn, After, Phases
  <2>4. QED
    BY <1>1, <2>1, <2>2, <2>3 DEF OnItsWay, Untouched, Renames, AllEnds, Ends, Same, stored
<1>8. KeptApart'
  <2>1. \/ pc' \in {"deleting", "renaming", "committing"} /\ pc \in {"creating", "deleting", "renaming"}
        \/ pc' \in {"undeleting", "unrenaming"} /\ pc \in {"removing", "undeleting"}
        \/ pc' \in {"cleaning", "verifying"}
    BY <1>1 DEF Phases, After
  <2>2. QED
    BY <1>1, <2>1 DEF KeptApart, Pending, Roles, Partners, Renames, AllEnds, Ends, Exists, Same, stored
<1>9. QED
  BY <1>4, <1>6, <1>7, <1>8 DEF IInv

-----------------------------------------------------------------------------
(* Cleaning up, and the decision.                                            *)

(* A path nobody touched has no role, is created or deleted, or is an end of  *)
(* a rename nobody touched. *)
LEMMA ByRole ==
  ASSUME Typed, TouchedTogether, NEW p \in Untouched
  PROVE  \/ p \notin edit.created \cup edit.deletes \cup AllEnds
         \/ p \in edit.created \ touched
         \/ p \in edit.deletes \ touched
         \/ \E r \in Renames : p \in Ends(r) /\ r[1] \notin touched
<1>1. CASE p \in AllEnds
  <2>1. PICK r \in Renames : p \in Ends(r)
    BY <1>1 DEF AllEnds
  <2>2. r[1] \notin touched
    BY <2>1 DEF TouchedTogether, Ends, Untouched
  <2>3. QED
    BY <2>1, <2>2
<1>2. QED
  BY <1>1 DEF Untouched

(* An edit that was taken back shows what it found. *)
LEMMA TakenBack ==
  ASSUME IInv, journal = "prepared", pc = "cleaning", NEW p \in Untouched
  PROVE  disk[p] = edit.old[p]
<1> USE Known
<1>1. CASE p \notin edit.created \cup edit.deletes \cup AllEnds
  BY <1>1 DEF OnItsWay
<1>2. CASE p \in edit.created \ touched
  BY <1>2 DEF OnItsWay, CreationOn, Found
<1>3. CASE p \in edit.deletes \ touched
  BY <1>3 DEF OnItsWay, DeletionOn, There
<1>4. ASSUME NEW r \in Renames, p \in Ends(r), r[1] \notin touched
      PROVE  disk[p] = edit.old[p]
  BY <1>4 DEF OnItsWay, RenameOn, InPlace, There, Ends
<1>5. QED
  BY <1>1, <1>2, <1>3, <1>4, ByRole

(* An edit that has renamed everything shows what it was to leave behind. *)
LEMMA Done ==
  ASSUME IInv, pc = "committing", NEW p \in Untouched
  PROVE  disk[p] = edit.new[p]
<1> USE Known
<1>0. journal = "prepared"
  BY DEF Phase
<1>1. CASE p \notin edit.created \cup edit.deletes \cup AllEnds
  BY <1>0, <1>1 DEF OnItsWay, Planned, Readable
<1>2. CASE p \in edit.created \ touched
  BY <1>0, <1>2 DEF OnItsWay, CreationOn, Planned, Readable
<1>3. CASE p \in edit.deletes \ touched
  BY <1>0, <1>3 DEF OnItsWay, DeletionOn, Gone, Planned, Readable
<1>4. ASSUME NEW r \in Renames, p \in Ends(r), r[1] \notin touched
      PROVE  disk[p] = edit.new[p]
  BY <1>0, <1>4 DEF OnItsWay, RenameOn, Moved, Ends, Planned, Readable
<1>5. QED
  BY <1>1, <1>2, <1>3, <1>4, ByRole

(* One thing more is removed from the folder. *)
LEMMA RemoveOneStep == ASSUME IInv, RemoveOne PROVE IInv'
<1> USE Known
<1>1. /\ UNCHANGED <<disk, folder, edit, pc, why, todo, answer, committed, touched, kept>>
      /\ pc = "cleaning" /\ folder
      /\ backup' \in [Dirs -> Contents]
      /\ \A p \in Dirs : backup'[p] = backup[p] \/ (backup[p] # "absent" /\ backup'[p] = "absent")
      /\ journal' = journal \/ (journal' = "none" /\ backup' = backup)
  BY Ground DEF RemoveOne, history, Typed, TypeOK, Phase
<1>2. Typed'
  BY <1>1 DEF Typed, TypeOK, WellFormed, Edits, Work, Sources
<1>3. OneRole' /\ TouchedTogether'
  BY <1>1 DEF OneRole, TouchedTogether, Renames, AllEnds, Ends
<1>4. Phase'
  BY <1>1 DEF Phase
<1>5. Found' /\ Planned'
  BY <1>1 DEF Found, Planned, Untouched, Renames, AllEnds, Ends, Readable
<1>6. Decisive'
  <2> SUFFICES ASSUME journal' # "prepared", NEW p \in Untouched
               PROVE  disk[p] = Decided(p)
    BY <1>1 DEF Decisive, Untouched, Decided
  <2>1. CASE journal = "prepared"
    BY <1>1, <2>1, TakenBack DEF Decided, Phase
  <2>2. CASE journal # "prepared"
    BY <2>2 DEF Decisive
  <2>3. QED
    BY <2>1, <2>2
<1>7. OnItsWay'
  <2> SUFFICES ASSUME journal' = "prepared"
               PROVE  OnItsWay'
    BY DEF OnItsWay
  <2>0. journal = "prepared"
    BY <1>1
  <2>1. \A p \in edit.created \ touched : CreationOn(p)'
    BY <1>1, <2>0 DEF OnItsWay, CreationOn
  <2>2. \A d \in edit.deletes \ touched : DeletionOn(d)'
    <3> SUFFICES ASSUME NEW d \in edit.deletes \ touched
                 PROVE  DeletionOn(d)'
      OBVIOUS
    <3>1. There(d) /\ d \in Dirs
      BY <1>1, <2>0, RolesAre, Ground DEF OnItsWay, DeletionOn
    <3>2. There(d)'
      BY <1>1, <3>1 DEF There
    <3>3. QED
      BY <1>1, <3>2 DEF DeletionOn
  <2>3. \A r \in Renames : r[1] \notin touched => RenameOn(r)'
    <3> SUFFICES ASSUME NEW r \in Renames, r[1] \notin touched
                 PROVE  RenameOn(r)'
      OBVIOUS
    <3>1. InPlace(r) /\ r[2] \in Dirs
      BY <1>1, <2>0, TheTarget, Ground DEF OnItsWay, RenameOn
    <3>2. InPlace(r)'
      BY <1>1, <3>1 DEF InPlace, There
    <3>3. QED
      BY <1>1, <3>2 DEF RenameOn
  <2>4. QED
    BY <1>1, <2>0, <2>1, <2>2, <2>3 DEF OnItsWay, Untouched, Renames, AllEnds, Ends
<1>8. KeptApart'
  BY <1>1 DEF KeptApart, Pending, Roles, Partners, Renames, AllEnds, Ends, Exists, Readable
<1>9. QED
  BY <1>2, <1>3, <1>4, <1>5, <1>6, <1>7, <1>8 DEF IInv

(* The empty folder goes, and with it the transaction. *)
LEMMA RemoveFolderStep == ASSUME IInv, RemoveFolder PROVE IInv'
<1> USE Known
<1>1. /\ UNCHANGED <<disk, journal, backup, edit, committed, touched, kept>>
      /\ folder' = FALSE /\ journal = "none" /\ \A p \in Dirs : backup[p] = "absent"
      /\ pc' \in {"idle", "reading"} /\ todo' = {} /\ why' = why
      /\ answer' \in {answer, "opened", "applied", "failed"}
  BY DEF RemoveFolder, Succeeds, history
<1>2. Typed'
  <2>1. \A phase : {} \subseteq Work(phase)'
    OBVIOUS
  <2>2. QED
    BY <1>1, <2>1 DEF Typed, TypeOK, WellFormed, Edits
<1>3. OneRole' /\ TouchedTogether'
  BY <1>1 DEF OneRole, TouchedTogether, Renames, AllEnds, Ends
<1>4. Phase'
  BY <1>1 DEF Phase
<1>5. Found' /\ Planned' /\ Decisive' /\ OnItsWay'
  BY <1>1 DEF Found, Planned, Decisive, OnItsWay, Decided, Untouched, Renames, AllEnds, Ends
<1>6. KeptApart'
  BY <1>1 DEF KeptApart, Pending, Roles, Partners, Renames, AllEnds, Ends, Exists, Readable
<1>7. QED
  BY <1>2, <1>3, <1>4, <1>5, <1>6 DEF IInv

(* The journal says committed: from now on the edit is decided, whether or    *)
(* not the service learns that the write went through. *)
LEMMA DecisionKeeps ==
  ASSUME IInv, pc = "committing",
         UNCHANGED <<disk, folder, backup, edit, touched, kept>>,
         journal' = "committed", committed' = TRUE,
         pc' \in {"cleaning", "recovering"}, why' \in {"commit", "undo"}, todo' = {}, answer' = answer
  PROVE  IInv'
<1> USE Known
<1>1. journal = "prepared" /\ folder
  BY DEF Phase, Typed, TypeOK
<1>2. Typed'
  <2>1. \A phase : {} \subseteq Work(phase)'
    OBVIOUS
  <2>2. QED
    BY <1>1, <2>1 DEF Typed, TypeOK, WellFormed, Edits
<1>3. OneRole' /\ TouchedTogether'
  BY DEF OneRole, TouchedTogether, Renames, AllEnds, Ends
<1>4. Phase'
  BY <1>1 DEF Phase
<1>5. Found' /\ Planned' /\ OnItsWay'
  BY <1>1 DEF Found, Planned, OnItsWay, Untouched, Renames, AllEnds, Ends, Readable
<1>6. Decisive'
  BY Done DEF Decisive, Decided, Untouched
<1>7. KeptApart'
  BY <1>1 DEF KeptApart, Pending, Roles, Partners, Renames, AllEnds, Ends, Exists, Readable
<1>8. QED
  BY <1>2, <1>3, <1>4, <1>5, <1>6, <1>7 DEF IInv

(* The edit is committed, though the call that says so may fail. *)
LEMMA CommitStep == ASSUME IInv, Commit \/ CommitFails PROVE IInv'
<1>1. CASE Commit
  <2>1. todo = {}
    BY <1>1, Known DEF Commit, Typed, TypeOK, Work
  <2>2. QED
    BY <1>1, <2>1, DecisionKeeps DEF Commit
<1>2. CASE CommitFails
  <2>1. CASE UNCHANGED <<journal, committed>>
    BY <1>2, <2>1, FailsRest DEF CommitFails, Same, stored
  <2>2. CASE journal' = "committed" /\ committed' = TRUE
    BY <1>2, <2>2, DecisionKeeps DEF CommitFails, Undo
  <2>3. QED
    BY <1>2, <2>1, <2>2 DEF CommitFails
<1>3. QED
  BY <1>1, <1>2

-----------------------------------------------------------------------------
(* An edit is read, and its journal is placed.                               *)

(* A folder without a journal decides nothing. *)
LEMMA PrepareFailsStep == ASSUME IInv, PrepareFails \/ PlaceJournal PROVE IInv'
<1> USE Known
<1>1. /\ UNCHANGED <<disk, backup, edit, why, todo, committed, touched, kept>>
      /\ pc = "preparing" /\ pc' \in {"idle", "preparing"} /\ todo = {}
      /\ journal \in {"none", "empty"} /\ journal' \in {"none", "empty"} /\ ~committed
      /\ folder' \in BOOLEAN /\ (journal' # "none" => folder') /\ (folder => folder')
      /\ answer' \in {answer, "failed"}
  <2>1. /\ pc = "preparing" /\ todo = {} /\ journal \in {"none", "empty"} /\ ~committed
        /\ (journal # "none" => folder) /\ folder \in BOOLEAN
    BY DEF PrepareFails, PlaceJournal, Phase, Typed, TypeOK, Work
  <2>2. CASE PlaceJournal
    BY <2>1, <2>2 DEF PlaceJournal, history
  <2>3. CASE PrepareFails
    <3>1. folder' = folder \/ folder' = TRUE
      BY <2>3 DEF PrepareFails
    <3>2. folder' \in BOOLEAN /\ (folder => folder')
      BY <2>1, <3>1, Zenon
    <3>3. journal' = journal
      BY <2>3 DEF PrepareFails
    <3>4. QED
      BY <2>1, <2>3, <3>2, <3>3 DEF PrepareFails, history
  <2>4. QED
    BY <2>2, <2>3
<1>2. \A p \in Dirs : backup[p] = "absent"
  BY <1>1 DEF Phase
<1>3. Typed'
  <2>1. \A phase : {} \subseteq Work(phase)'
    OBVIOUS
  <2>2. QED
    BY <1>1, <1>2, <2>1 DEF Typed, TypeOK, WellFormed, Edits
<1>4. OneRole' /\ TouchedTogether'
  BY <1>1 DEF OneRole, TouchedTogether, Renames, AllEnds, Ends
<1>5. Phase'
  BY <1>1, <1>2 DEF Phase
<1>6. Found' /\ Planned' /\ Decisive' /\ OnItsWay'
  BY <1>1 DEF Found, Planned, Decisive, OnItsWay, Decided, Untouched, Renames, AllEnds, Ends, Readable
<1>7. KeptApart'
  BY <1>1 DEF KeptApart, Pending, Roles, Partners, Renames, AllEnds, Ends, Exists, Readable
<1>8. QED
  BY <1>3, <1>4, <1>5, <1>6, <1>7 DEF IInv

(* The workspace is validated: every path has one role, and what is deleted   *)
(* or renamed is there. *)
LEMMA ReadStep == ASSUME IInv, Read PROVE IInv'
<1> USE Known
<1>1. PICK creates \in SUBSET {p \in Dirs : ~Exists(p) /\ ParentFits(p)},
           deletes \in SUBSET {p \in Leaves : IsDir(disk[p])},
           renames \in SUBSET {r \in Leaves \X Leaves :
                                 /\ IsDir(disk[r[1]]) /\ r[1] # r[2]
                                 /\ disk[r[2]] # "file" /\ ParentFits(r[2])} :
        /\ Cardinality(creates) + Cardinality(deletes) + Cardinality(renames) \in 1..MaxOperations
        /\ RolesApart(creates, deletes, renames)
        /\ edit' = [NoEdit EXCEPT !.creates = creates, !.deletes = deletes, !.renames = renames]
        /\ kept' = {k \in kept : k[1] \notin Roles(creates, deletes, renames)}
  BY Zenon DEF Read
<1>2. /\ pc = "reading" /\ pc' = "preparing" /\ committed' = FALSE /\ touched' = {}
      /\ UNCHANGED <<disk, folder, journal, backup, why, todo, answer>>
      /\ ~folder /\ journal = "none" /\ (\A p \in Dirs : backup[p] = "absent") /\ todo = {}
  BY DEF Read, stored, Phase, Typed, TypeOK, Work
<1>3. /\ edit'.creates = creates /\ edit'.deletes = deletes /\ edit'.renames = renames
      /\ edit'.created = {} /\ edit'.overwrites = {} /\ edit'.old = disk /\ edit'.new = disk
      /\ edit' \in Edits
  BY <1>1 DEF NoEdit, Edits, Typed, TypeOK
<1>4. Typed'
  <2>1. \A phase : {} \subseteq Work(phase)'
    OBVIOUS
  <2>2. QED
    BY <1>1, <1>2, <1>3, <2>1 DEF Typed, TypeOK, WellFormed
<1>5. OneRole' /\ TouchedTogether'
  <2>1. \A r \in renames : r[1] # r[2]
    OBVIOUS
  <2>2. AllEnds' = UNION {{r[1], r[2]} : r \in renames} /\ Renames' = renames
    BY <1>3 DEF AllEnds, Ends, Renames
  <2>3. (creates \cup deletes) \cap AllEnds' = {} /\ creates \cap deletes = {}
    BY <1>1, <2>2 DEF RolesApart
  <2>4. \A r, s \in renames : r # s => Ends(r) \cap Ends(s) = {}
    BY <1>1 DEF RolesApart, Ends
  <2>5. \A r : Ends(r)' = Ends(r)
    BY DEF Ends
  <2>6. OneRole'
    BY <1>2, <1>3, <2>1, <2>2, <2>3, <2>4, <2>5 DEF OneRole
  <2>7. QED
    BY <1>2, <2>6 DEF TouchedTogether
<1>6. Phase'
  BY <1>2 DEF Phase
<1>7. Found'
  <2>1. \A d \in deletes : Parent[d] # Root => IsDir(disk[Parent[d]])
    <3> SUFFICES ASSUME NEW d \in deletes, Parent[d] # Root
                 PROVE  IsDir(disk[Parent[d]])
      OBVIOUS
    <3>1. d \in Dirs /\ disk[d] # "absent"
      BY Ground
    <3>2. QED
      BY <3>1 DEF Typed, TypeOK, WellFormed
  <2>2. \A r \in renames : IsDir(disk[r[1]]) /\ disk[r[2]] # "file"
    OBVIOUS
  <2>3. QED
    BY <1>2, <1>3, <2>1, <2>2 DEF Found, Renames
<1>8. Planned' /\ Decisive' /\ OnItsWay'
  BY <1>2, <1>3 DEF Planned, Decisive, OnItsWay, Decided, Untouched, Readable
<1>9. KeptApart'
  <2>1. \A k \in kept' : /\ k \in kept /\ disk[k[1]] = k[2] /\ k[2] \notin {"absent", "empty"}
                         /\ k[1] \notin creates \cup deletes \cup UNION {{r[1], r[2]} : r \in renames}
    BY <1>1 DEF KeptApart, Roles
  <2>2. AllEnds' = UNION {{r[1], r[2]} : r \in renames}
    BY <1>3 DEF AllEnds, Ends, Renames
  <2>3. QED
    BY <1>2, <1>3, <2>1, <2>2 DEF KeptApart, Pending
<1>10. QED
  BY <1>4, <1>5, <1>6, <1>7, <1>8, <1>9 DEF IInv

(* What is missing above the creations is created with them. *)
LEMMA MakeFolderStep == ASSUME IInv, MakeFolder PROVE IInv'
<1> USE Known
<1>1. /\ pc = "preparing" /\ folder' = TRUE
      /\ UNCHANGED <<disk, journal, backup, pc, why, todo, answer, committed, touched, kept>>
      /\ journal \in {"none", "empty"} /\ ~committed /\ (\A p \in Dirs : backup[p] = "absent")
      /\ edit' = [edit EXCEPT !.created = MissingAbove] /\ todo = {}
  BY DEF MakeFolder, history, Phase, Typed, TypeOK, Work
<1>2. /\ MissingAbove \subseteq Dirs /\ \A p \in MissingAbove : disk[p] = "absent"
      /\ \A p \in MissingAbove : p \in edit.creates \/ Children(p) # {}
  BY DEF MissingAbove, Exists
<1>3. /\ edit'.created = MissingAbove /\ edit'.creates = edit.creates
      /\ edit'.deletes = edit.deletes /\ edit'.renames = edit.renames
      /\ edit'.overwrites = edit.overwrites /\ edit'.old = edit.old /\ edit'.new = edit.new
      /\ edit' \in Edits
  BY <1>1, <1>2 DEF Typed, Edits
<1>4. Renames' = Renames /\ AllEnds' = AllEnds /\ \A r : Ends(r)' = Ends(r)
  BY <1>3 DEF Renames, AllEnds, Ends
<1>5. Typed'
  <2>1. \A phase : {} \subseteq Work(phase)'
    OBVIOUS
  <2>2. QED
    BY <1>1, <1>3, <2>1 DEF Typed, TypeOK, WellFormed
<1>6. OneRole' /\ TouchedTogether'
  <2>1. MissingAbove \cap (edit.deletes \cup AllEnds) = {}
    BY <1>2, RolesAre DEF Leaves, OneRole
  <2>2. OneRole'
    BY <1>1, <1>3, <1>4, <2>1 DEF OneRole
  <2>3. QED
    BY <1>1, <1>4, <2>2 DEF TouchedTogether
<1>7. Phase'
  BY <1>1 DEF Phase
<1>8. Found'
  <2>1. \A p \in MissingAbove \ touched : edit.old[p] = "absent"
    BY <1>1, <1>2 DEF Decisive, Decided, Untouched
  <2>2. QED
    BY <1>1, <1>3, <1>4, <2>1 DEF Found
<1>9. Planned' /\ Decisive' /\ OnItsWay'
  BY <1>1, <1>3 DEF Planned, Decisive, OnItsWay, Decided, Untouched, Readable
<1>10. KeptApart'
  <2>1. \A k \in kept : k[1] \notin MissingAbove /\ k[1] \in Dirs
    BY <1>2 DEF KeptApart, Typed, TypeOK
  <2>2. QED
    BY <1>1, <1>3, <1>4, <2>1 DEF KeptApart, Pending, Readable
<1>11. QED
  BY <1>5, <1>6, <1>7, <1>8, <1>9, <1>10 DEF IInv

(* The journal is published: the edit may begin, and is pending if that is    *)
(* as far as it comes. *)
LEMMA PublishPreparedStep == ASSUME IInv, PublishPrepared PROVE IInv'
<1> USE Known
<1>1. CASE \E o \in Sources : ~Exists(o)
  <2>1. Same /\ pc' = "idle" /\ todo' = todo /\ why' = why /\ answer' = "failed" /\ pc = "preparing"
    BY <1>1 DEF PublishPrepared, Same, stored, history
  <2>2. todo = {} /\ why \in {"open", "edit", "undo", "commit"}
    BY <2>1 DEF Typed, TypeOK, Work
  <2>3. QED
    BY <2>1, <2>2, Rests
<1>2. CASE ~ \E o \in Sources : ~Exists(o)
  <2> DEFINE over == {Target(o) : o \in {s \in Sources : Exists(Target(s))}}
  <2>1. /\ pc = "preparing" /\ journal = "empty" /\ journal' = "prepared" /\ folder
        /\ UNCHANGED <<disk, folder, backup, why, committed, touched, kept>>
        /\ ~committed /\ (\A p \in Dirs : backup[p] = "absent")
        /\ edit' = [edit EXCEPT !.overwrites = over, !.old = disk, !.new = Outcome]
        /\ \/ pc' = "creating" /\ todo' = edit.created /\ answer' = answer
           \/ pc' = "idle" /\ answer' = "failed" /\ todo' = todo
    BY <1>2 DEF PublishPrepared, history, Phase, Typed, TypeOK
  <2>2. todo = {}
    BY <2>1 DEF Typed, TypeOK, Work
  <2>3. \A r \in Renames : r[2] \in over <=> disk[r[2]] # "absent"
    <3> SUFFICES ASSUME NEW r \in Renames PROVE r[2] \in over <=> disk[r[2]] # "absent"
      OBVIOUS
    <3>1. r[1] \in Sources /\ Target(r[1]) = r[2]
      BY TheTarget
    <3>2. QED
      BY <3>1 DEF Exists
  <2>4. over \subseteq {r[2] : r \in Renames}
    BY TheTarget
  <2>5. {r[2] : r \in Renames} \subseteq Leaves /\ Leaves \subseteq Dirs
    BY TheTarget DEF Leaves
  <2>6. Outcome \in [Dirs -> Contents]
    <3> SUFFICES ASSUME NEW p \in Dirs
                 PROVE  Outcome[p] \in Contents
      BY DEF Outcome
    <3>1. CASE \E o \in Sources : Target(o) = p
      <4>1. (CHOOSE o \in Sources : Target(o) = p) \in Sources
        BY <3>1
      <4>2. Sources \subseteq Dirs
        BY TheTarget, Ground
      <4>3. QED
        BY <3>1, <4>1, <4>2, Ground DEF Outcome, Typed, TypeOK
    <3>2. QED
      BY <3>1, Ground DEF Outcome, Typed, TypeOK
  <2>7. /\ edit'.created = edit.created /\ edit'.creates = edit.creates
        /\ edit'.deletes = edit.deletes /\ edit'.renames = edit.renames
        /\ edit'.overwrites = over /\ edit'.old = disk /\ edit'.new = Outcome
        /\ edit' \in Edits
    <3>1. over \subseteq Dirs /\ disk \in [Dirs -> Contents] /\ edit \in Edits
      BY <2>4, <2>5, RolesAre DEF Typed
    <3> HIDE DEF over
    <3>2. QED
      BY <2>1, <2>6, <3>1 DEF Edits
  <2>8. Renames' = Renames /\ AllEnds' = AllEnds /\ \A r : Ends(r)' = Ends(r)
    BY <2>7 DEF Renames, AllEnds, Ends
  <2> HIDE DEF over
  <2>9. \A p \in Untouched : disk[p] = edit.old[p]
    BY <2>1 DEF Decisive, Decided
  <2>10. Typed'
    <3>1. (todo \subseteq Work(pc))'
      BY <2>1, <2>2, <2>7 DEF Work
    <3>2. QED
      BY <2>1, <2>7, <3>1 DEF Typed, TypeOK, WellFormed, Phases
  <2>11. OneRole' /\ TouchedTogether'
    <3>1. OneRole'
      BY <2>1, <2>4, <2>7, <2>8 DEF OneRole
    <3>2. QED
      BY <2>1, <2>8, <3>1 DEF TouchedTogether
  <2>12. Phase'
    BY <2>1 DEF Phase
  <2>13. Found'
    <3>1. \A d \in edit.deletes : Parent[d] \notin touched \cup {Root} => IsDir(disk[Parent[d]])
      BY <2>9, RolesAre, Ground DEF Found, Untouched
    <3>2. \A r \in Renames : r[1] \notin touched => IsDir(disk[r[1]]) /\ disk[r[2]] # "file"
      BY <2>9, TheTarget, Ground DEF Found, Untouched, TouchedTogether
    <3>3. \A p \in edit.created \ touched : disk[p] = "absent"
      BY <2>9, RolesAre DEF Found, Untouched
    <3>4. \A d \in edit.deletes \ touched : IsDir(disk[d])
      BY <2>9, RolesAre, Ground DEF Found, Untouched
    <3>5. QED
      BY <2>1, <2>7, <2>8, <3>1, <3>2, <3>3, <3>4 DEF Found
  <2>14. Planned'
    <3>1. \A p \in Untouched \ (edit.created \cup edit.deletes \cup AllEnds) : Outcome[p] = disk[p]
      <4> SUFFICES ASSUME NEW p \in Untouched \ (edit.created \cup edit.deletes \cup AllEnds)
                   PROVE  Outcome[p] = disk[p]
        OBVIOUS
      <4>1. p \in Dirs /\ p \notin Sources /\ ~ \E o \in Sources : Target(o) = p
        BY TheTarget, RolesAre DEF Untouched
      <4>2. QED
        BY <4>1 DEF Outcome
    <3>2. \A p \in edit.created : Outcome[p] = "empty"
      BY RolesAre DEF Outcome
    <3>3. \A d \in edit.deletes : Outcome[d] = "absent"
      BY RolesAre, Ground DEF Outcome, OneRole
    <3>4. ASSUME NEW r \in Renames
          PROVE  Outcome[r[1]] = "absent" /\ Outcome[r[2]] = disk[r[1]]
      <4>1. r[1] \in Sources /\ Target(r[1]) = r[2] /\ r[1] \in Dirs /\ r[2] \in Dirs
        BY TheTarget, Ground
      <4>2. r[1] \notin edit.created \cup edit.deletes /\ r[2] \notin edit.created \cup edit.deletes
        BY RolesAre DEF OneRole
      <4>3. r[2] \notin Sources
        <5> SUFFICES ASSUME r[2] \in Sources PROVE FALSE
          OBVIOUS
        <5>1. PICK s \in Renames : r[2] = s[1]
          BY TheTarget
        <5>2. s = r
          BY <5>1 DEF OneRole, Ends
        <5>3. QED
          BY <5>1, <5>2 DEF OneRole
      <4>4. \A o \in Sources : Target(o) = r[2] => o = r[1]
        <5> SUFFICES ASSUME NEW o \in Sources, Target(o) = r[2] PROVE o = r[1]
          OBVIOUS
        <5>1. PICK s \in Renames : o = s[1] /\ Target(o) = s[2]
          BY TheTarget
        <5>2. s = r
          BY <5>1 DEF OneRole, Ends
        <5>3. QED
          BY <5>1, <5>2
      <4>5. (CHOOSE o \in Sources : Target(o) = r[2]) = r[1]
        BY <4>1, <4>4
      <4>6. QED
        BY <4>1, <4>2, <4>3, <4>5 DEF Outcome
    <3>5. QED
      BY <2>1, <2>3, <2>7, <2>8, <3>1, <3>2, <3>3, <3>4 DEF Planned, Untouched
  <2>15. OnItsWay'
    <3>1. \A p \in edit.created \ touched : disk[p] = "absent"
      BY <2>9, RolesAre DEF Found, Untouched
    <3>2. \A p \in edit.created \ touched : CreationOn(p)'
      BY <2>1, <2>2, <3>1 DEF CreationOn
    <3>3. \A d \in edit.deletes \ touched : DeletionOn(d)'
      <4> SUFFICES ASSUME NEW d \in edit.deletes \ touched PROVE DeletionOn(d)'
        OBVIOUS
      <4>1. There(d)'
        BY <2>1, <2>7, RolesAre, Ground DEF There
      <4>2. QED
        BY <2>1, <4>1 DEF DeletionOn
    <3>4. \A r \in Renames : RenameOn(r)'
      <4> SUFFICES ASSUME NEW r \in Renames PROVE RenameOn(r)'
        OBVIOUS
      <4>1. InPlace(r)'
        BY <2>1, <2>7, TheTarget, Ground DEF InPlace, There
      <4>2. QED
        BY <2>1, <4>1 DEF RenameOn
    <3>5. QED
      BY <2>1, <2>7, <2>8, <3>2, <3>3, <3>4 DEF OnItsWay, Untouched
  <2>16. Decisive'
    BY <2>1 DEF Decisive
  <2>17. KeptApart'
    <3>1. ASSUME NEW k \in kept
          PROVE  /\ disk[k[1]] = k[2] /\ k[2] \notin {"absent", "empty"}
                 /\ k[1] \notin edit.creates \cup edit.created \cup edit.deletes \cup AllEnds
      BY <2>1 DEF KeptApart
    <3>2. Roles(edit.created, edit.deletes, edit.renames)' = edit.created \cup edit.deletes \cup AllEnds
      BY <2>7, RolesAre DEF Roles
    <3>3. \A k \in kept : ~Pending(k[1])'
      BY <3>1, <3>2 DEF Pending
    <3>4. QED
      BY <2>1, <2>7, <2>8, <3>1, <3>3 DEF KeptApart
  <2>18. QED
    BY <2>10, <2>11, <2>12, <2>13, <2>14, <2>15, <2>16, <2>17 DEF IInv
<1>3. QED
  BY <1>1, <1>2

-----------------------------------------------------------------------------
(* Steps that change paths.                                                  *)

(* A step on paths of the edit: it changes what they hold, in the workspace   *)
(* and in the folder, and which of them are left to treat. *)
OnPaths == /\ UNCHANGED <<folder, journal, edit, pc, why, answer, committed, touched, kept>>
           /\ pc \in Phases /\ todo' \subseteq todo

(* A leaf is emptied or filled below a directory. *)
LEMMA LeavesFit ==
  ASSUME Typed, NEW P \in SUBSET Leaves, disk' \in [Dirs -> Contents],
         \A p \in Dirs \ P : disk'[p] = disk[p],
         \A p \in P : disk'[p] = "absent" \/ Holds(Parent[p])
  PROVE  WellFormed(disk')
<1> SUFFICES ASSUME NEW q \in Dirs, Parent[q] # Root, disk'[q] # "absent"
             PROVE  IsDir(disk'[Parent[q]])
  BY DEF WellFormed
<1>1. Parent[q] \in Dirs \ P
  BY Ground
<1>2. CASE q \in P
  BY <1>1, <1>2 DEF Holds
<1>3. CASE q \notin P
  BY <1>1, <1>3 DEF Typed, TypeOK, WellFormed
<1>4. QED
  BY <1>2, <1>3

(* A directory without children goes, or an empty one comes below another. *)
LEMMA DirectoryFits ==
  ASSUME Typed, NEW p \in Dirs,
         \/ (Exists(p) => Bare(p)) /\ disk' = [disk EXCEPT ![p] = "absent"]
         \/ ~Exists(p) /\ Holds(Parent[p]) /\ disk' = [disk EXCEPT ![p] = "empty"]
  PROVE  disk' \in [Dirs -> Contents] /\ WellFormed(disk')
<1>1. disk' \in [Dirs -> Contents]
  BY Ground DEF Typed, TypeOK
<1>2. \A q \in Dirs : q # p => disk'[q] = disk[q]
  BY DEF Typed, TypeOK
<1>3. ASSUME NEW q \in Dirs, Parent[q] # Root, disk'[q] # "absent"
      PROVE  IsDir(disk'[Parent[q]])
  <2>1. Parent[q] \in Dirs /\ Parent[q] # q
    BY <1>3, Ground
  <2>2. CASE (Exists(p) => Bare(p)) /\ disk' = [disk EXCEPT ![p] = "absent"]
    <3>1. q # p /\ disk[q] # "absent"
      BY <1>2, <1>3, <2>2 DEF Typed, TypeOK
    <3>2. IsDir(disk[Parent[q]])
      BY <1>3, <3>1 DEF Typed, TypeOK, WellFormed
    <3>3. Parent[q] # p
      <4> SUFFICES ASSUME Parent[q] = p PROVE FALSE
        OBVIOUS
      <4>1. Exists(p)
        BY <3>2, Ground DEF Exists
      <4>2. QED
        BY <2>2, <3>1, <4>1 DEF Bare, Children, Exists
    <3>4. QED
      BY <1>2, <2>1, <3>2, <3>3
  <2>3. CASE ~Exists(p) /\ Holds(Parent[p]) /\ disk' = [disk EXCEPT ![p] = "empty"]
    <3>1. CASE q = p
      <4>1. IsDir(disk[Parent[p]])
        BY <1>3, <2>3, <3>1 DEF Holds
      <4>2. QED
        BY <1>2, <2>1, <3>1, <4>1
    <3>2. CASE q # p
      <4>1. IsDir(disk[Parent[q]])
        BY <1>2, <1>3, <3>2 DEF Typed, TypeOK, WellFormed
      <4>2. CASE Parent[q] = p
        BY <2>3, <4>2, Ground DEF Typed, TypeOK
      <4>3. CASE Parent[q] # p
        BY <1>2, <2>1, <4>1, <4>3
      <4>4. QED
        BY <4>2, <4>3
    <3>3. QED
      BY <3>1, <3>2
  <2>4. QED
    BY <2>2, <2>3
<1>4. QED
  BY <1>1, <1>3 DEF WellFormed

(* What such a step leaves alone. *)
LEMMA OnPathsKeeps ==
  ASSUME IInv, OnPaths,
         disk' \in [Dirs -> Contents], WellFormed(disk'), backup' \in [Dirs -> Contents],
         \A p \in Dirs : backup'[p] # "absent" =>
           backup[p] # "absent" \/ p \in edit.deletes \cup edit.overwrites
  PROVE  Typed' /\ OneRole' /\ TouchedTogether' /\ Phase' /\ Found' /\ Planned'
<1> USE Known DEF OnPaths
<1>1. folder
  BY DEF Phase, Phases, Typed, TypeOK
<1>2. Typed'
  BY <1>1 DEF Typed, TypeOK, WellFormed, Edits, Work, Sources
<1>3. OneRole' /\ TouchedTogether'
  BY DEF OneRole, TouchedTogether, Renames, AllEnds, Ends
<1>4. Phase'
  BY DEF Phase, Phases
<1>5. Found' /\ Planned'
  BY DEF Found, Planned, Untouched, Renames, AllEnds, Ends
<1>6. QED
  BY <1>2, <1>3, <1>4, <1>5

(* A creation that is not the path of the step is as far as it was ... *)
LEMMA CreationStays ==
  ASSUME UNCHANGED <<edit, pc>>, NEW p, CreationOn(p), disk'[p] = disk[p], p \in todo' <=> p \in todo
  PROVE  CreationOn(p)'
BY DEF CreationOn

(* ... and so is a deletion ... *)
LEMMA DeletionStays ==
  ASSUME UNCHANGED <<edit, pc>>, NEW d, DeletionOn(d), disk'[d] = disk[d], backup'[d] = backup[d],
         d \in todo' <=> d \in todo
  PROVE  DeletionOn(d)'
<1>1. (There(d)' <=> There(d)) /\ (Gone(d)' <=> Gone(d))
  BY DEF There, Gone
<1>2. QED
  BY <1>1 DEF DeletionOn

(* ... or a rename. *)
LEMMA RenameStays ==
  ASSUME UNCHANGED <<edit, pc>>, NEW r, RenameOn(r), disk'[r[1]] = disk[r[1]], disk'[r[2]] = disk[r[2]],
         backup'[r[2]] = backup[r[2]], r[1] \in todo' <=> r[1] \in todo
  PROVE  RenameOn(r)'
<1>1. /\ InPlace(r)' <=> InPlace(r)
      /\ Cleared(r)' <=> Cleared(r)
      /\ Moved(r)' <=> Moved(r)
  BY DEF InPlace, Cleared, Moved, There, Gone
<1>2. QED
  BY <1>1 DEF RenameOn

(* Where a path has one role, the others stay as they are. *)
LEMMA OthersStay ==
  ASSUME IInv, OnPaths, journal = "prepared", NEW P \in SUBSET Dirs,
         \A p \in Dirs \ P : /\ disk'[p] = disk[p] /\ backup'[p] = backup[p]
                             /\ p \in todo' <=> p \in todo,
         \A p \in P \ touched : p \in edit.created \cup edit.deletes \cup AllEnds,
         \A p \in P \cap (edit.created \ touched) : CreationOn(p)',
         \A d \in P \cap (edit.deletes \ touched) : DeletionOn(d)',
         \A r \in Renames : r[1] \notin touched /\ P \cap Ends(r) # {} => RenameOn(r)'
  PROVE  OnItsWay'
<1> USE Known
<1>1. UNCHANGED <<journal, edit, pc, touched>>
  BY DEF OnPaths
<1>2. \A p \in Untouched \ (edit.created \cup edit.deletes \cup AllEnds) : disk'[p] = edit.old[p]
  BY DEF OnItsWay, Untouched
<1>3. \A p \in edit.created \ touched : CreationOn(p)'
  BY <1>1, CreationStays, RolesAre DEF OnItsWay
<1>4. \A d \in edit.deletes \ touched : DeletionOn(d)'
  BY <1>1, DeletionStays, RolesAre, Ground DEF OnItsWay
<1>5. ASSUME NEW r \in Renames, r[1] \notin touched
      PROVE  RenameOn(r)'
  <2>1. CASE P \cap Ends(r) # {}
    BY <1>5, <2>1
  <2>2. CASE P \cap Ends(r) = {}
    <3>1. r[1] \in Dirs \ P /\ r[2] \in Dirs \ P
      BY <2>2, TheTarget, Ground DEF Ends
    <3>2. RenameOn(r)
      BY <1>5 DEF OnItsWay
    <3>3. QED
      BY <1>1, <3>1, <3>2, RenameStays
  <2>3. QED
    BY <2>1, <2>2
<1>6. QED
  BY <1>1, <1>2, <1>3, <1>4, <1>5 DEF OnItsWay, Untouched, Renames, AllEnds, Ends

(* What others put there is kept by a step that neither moves nor replaces it.*)
LEMMA KeptStays ==
  ASSUME IInv, OnPaths,
         \A k \in kept : disk'[k[1]] = disk[k[1]],
         pc \in {"removing", "undeleting", "unrenaming"} =>
           \A k \in kept :
             /\ k[1] \in edit.deletes => backup'[k[1]] = "absent"
             /\ \A r \in Renames : k[1] = r[2] =>
                  disk'[r[1]] # "absent" /\ (k[2] = "file" => backup'[r[2]] # "file")
  PROVE  KeptApart'
<1> USE Known
<1>1. UNCHANGED <<folder, journal, edit, pc, touched, kept>>
  BY DEF OnPaths
<1>2. \A k \in kept : disk[k[1]] = k[2] /\ k[2] \notin {"absent", "empty"}
  BY DEF KeptApart
<1>3. QED
  BY <1>1, <1>2 DEF KeptApart, Pending, Roles, Partners, Renames, AllEnds, Ends, Exists

-----------------------------------------------------------------------------
(* Directories are created, created again and removed.                       *)

(* A directory is created, or removed again, where the edit wants one. *)
LEMMA CreationStep == ASSUME IInv, Create \/ RemoveCreated PROVE IInv'
<1> USE Known
<1>1. PICK p \in todo :
        \/ (Fails \/ Undo) /\ Same
        \/ /\ \/ pc = "removing" /\ (Exists(p) => Bare(p)) /\ disk' = [disk EXCEPT ![p] = "absent"]
              \/ pc = "creating" /\ ~Exists(p) /\ Holds(Parent[p]) /\ disk' = [disk EXCEPT ![p] = "empty"]
           /\ todo' = todo \ {p}
           /\ UNCHANGED <<stored, edit, pc, why, answer, history>>
  BY DEF Create, RemoveCreated, Same, stored, history
<1>2. CASE (Fails \/ Undo) /\ Same
  BY <1>2, FailsRest
<1>3. CASE ~((Fails \/ Undo) /\ Same)
  <2>1. /\ pc \in {"removing", "creating"} /\ journal = "prepared"
        /\ p \in edit.created /\ p \in Dirs /\ p \notin edit.deletes \cup AllEnds
    BY <1>1, <1>3, RolesAre DEF Phase, Typed, TypeOK, Work, OneRole
  <2>2. disk' \in [Dirs -> Contents] /\ WellFormed(disk')
    BY <1>1, <1>3, <2>1, DirectoryFits
  <2>3. OnPaths /\ backup' = backup
    BY <1>1, <1>3, <2>1 DEF OnPaths, stored, history, Phases
  <2>4. Typed' /\ OneRole' /\ TouchedTogether' /\ Phase' /\ Found' /\ Planned'
    BY <2>2, <2>3, OnPathsKeeps, RolesAre
  <2>5. \A q \in Dirs : q # p => disk'[q] = disk[q]
    BY <1>1, <1>3 DEF Typed, TypeOK
  <2>6. disk'[p] = IF pc = "creating" THEN "empty" ELSE "absent"
    BY <1>1, <1>3, <2>1 DEF Typed, TypeOK
  <2>7. OnItsWay'
    <3>1. CreationOn(p)'
      BY <1>1, <1>3, <2>1, <2>3, <2>6 DEF CreationOn, OnPaths
    <3>2. \A r \in Renames : {p} \cap Ends(r) = {}
      BY <2>1 DEF AllEnds
    <3>3. QED
      BY <1>1, <1>3, <2>1, <2>3, <2>5, <3>1, <3>2, OthersStay
  <2>8. Decisive'
    BY <2>1, <2>3 DEF Decisive, OnPaths
  <2>9. KeptApart'
    <3>1. \A k \in kept : k[1] \in Dirs /\ k[1] # p
      <4> SUFFICES ASSUME NEW k \in kept PROVE k[1] \in Dirs /\ k[1] # p
        OBVIOUS
      <4>1. k[1] \in Dirs /\ disk[k[1]] \notin {"absent", "empty"}
        BY DEF KeptApart, Typed, TypeOK
      <4>2. disk[p] \in {"absent", "empty"}
        BY <1>1, <1>3 DEF Exists, Bare
      <4>3. QED
        BY <4>1, <4>2
    <3>2. \A r \in Renames : disk'[r[1]] = disk[r[1]]
      BY <2>1, <2>5, RolesAre, TheTarget, Ground
    <3>3. QED
      BY <2>3, <2>5, <3>1, <3>2, KeptStays DEF KeptApart, Exists
  <2>10. QED
    BY <2>4, <2>7, <2>8, <2>9 DEF IInv
<1>4. QED
  BY <1>2, <1>3

(* Of a committed edit only what others removed is created again. *)
LEMMA RecreateStep == ASSUME IInv, Recreate PROVE IInv'
<1> USE Known
<1>1. PICK p \in todo :
        IF disk[p] = "file" \/ (~Exists(p) /\ ~Holds(Parent[p])) THEN Fails /\ UNCHANGED disk
        ELSE /\ disk' = [disk EXCEPT ![p] = IF @ = "absent" THEN "empty" ELSE @]
             /\ todo' = todo \ {p}
             /\ UNCHANGED <<pc, why, answer>>
  BY DEF Recreate
<1>2. pc = "redoing" /\ UNCHANGED <<stored, edit, history>>
  BY DEF Recreate
<1>3. CASE disk[p] = "file" \/ (~Exists(p) /\ ~Holds(Parent[p]))
  BY <1>1, <1>2, <1>3, FailsRest DEF Same, history
<1>4. CASE ~(disk[p] = "file" \/ (~Exists(p) /\ ~Holds(Parent[p])))
  <2>1. journal = "committed" /\ committed /\ p \in edit.created /\ p \in Dirs
    BY <1>2, RolesAre DEF Phase, Typed, TypeOK, Work
  <2>2. disk' \in [Dirs -> Contents] /\ WellFormed(disk')
    <3>1. CASE disk[p] = "absent"
      BY <1>1, <1>4, <2>1, <3>1, DirectoryFits DEF Exists
    <3>2. CASE disk[p] # "absent"
      BY <1>1, <1>4, <3>2 DEF Typed, TypeOK, WellFormed
    <3>3. QED
      BY <3>1, <3>2
  <2>3. OnPaths /\ backup' = backup
    BY <1>1, <1>2, <1>4 DEF OnPaths, stored, history, Phases
  <2>4. Typed' /\ OneRole' /\ TouchedTogether' /\ Phase' /\ Found' /\ Planned'
    BY <2>2, <2>3, OnPathsKeeps, RolesAre
  <2>5. \A q \in Dirs : disk[q] # "absent" \/ q # p => disk'[q] = disk[q]
    BY <1>1, <1>4 DEF Typed, TypeOK
  <2>6. OnItsWay'
    BY <2>1, <2>3 DEF OnItsWay, OnPaths
  <2>7. Decisive'
    <3>1. p \notin touched => disk[p] = "empty"
      BY <2>1 DEF Decisive, Decided, Planned, Readable, Untouched
    <3>2. \A q \in Untouched : disk'[q] = disk[q]
      BY <2>5, <3>1 DEF Untouched
    <3>3. QED
      BY <2>1, <2>3, <3>2 DEF Decisive, Decided, Untouched, OnPaths
  <2>8. KeptApart'
    <3>1. \A k \in kept : k[1] \in Dirs /\ disk[k[1]] # "absent"
      BY DEF KeptApart, Typed, TypeOK
    <3>2. QED
      BY <1>2, <2>3, <2>5, <3>1, KeptStays
  <2>9. QED
    BY <2>4, <2>6, <2>7, <2>8 DEF IInv
<1>5. QED
  BY <1>3, <1>4

-----------------------------------------------------------------------------
(* Trees are moved into the folder and back.                                 *)

(* A directory to delete is moved into the folder. *)
LEMMA DeleteStep == ASSUME IInv, Delete PROVE IInv'
<1> USE Known
<1>1. PICK d \in todo :
        IF ~Exists(d) THEN Undo /\ UNCHANGED <<disk, backup>>
        ELSE /\ disk' = [disk EXCEPT ![d] = "absent"]
             /\ backup' = [backup EXCEPT ![d] = disk[d]]
             /\ todo' = todo \ {d}
             /\ UNCHANGED <<pc, why, answer>>
  BY DEF Delete
<1>2. pc = "deleting" /\ UNCHANGED <<folder, journal, edit, history>>
  BY DEF Delete
<1>3. CASE ~Exists(d)
  BY <1>1, <1>2, <1>3, FailsRest DEF Same, stored, history
<1>4. CASE Exists(d)
  <2>1. journal = "prepared" /\ d \in edit.deletes /\ d \in Leaves /\ d \in Dirs
    BY <1>2, RolesAre, Ground DEF Phase, Typed, TypeOK, Work
  <2>2. OnPaths
    BY <1>1, <1>2, <1>4 DEF OnPaths, history, Phases
  <2>3. /\ disk' \in [Dirs -> Contents] /\ backup' \in [Dirs -> Contents]
        /\ disk'[d] = "absent" /\ backup'[d] = disk[d]
        /\ \A q \in Dirs : q # d => disk'[q] = disk[q] /\ backup'[q] = backup[q]
    BY <1>1, <1>4, <2>1, Ground DEF Typed, TypeOK
  <2>4. WellFormed(disk')
    <3>1. {d} \in SUBSET Leaves /\ \A q \in Dirs \ {d} : disk'[q] = disk[q]
      BY <2>1, <2>3
    <3>2. \A q \in {d} : disk'[q] = "absent"
      BY <2>3
    <3>3. QED
      BY <2>3, <3>1, <3>2, LeavesFit
  <2>5. Typed' /\ OneRole' /\ TouchedTogether' /\ Phase' /\ Found' /\ Planned'
    BY <2>1, <2>2, <2>3, <2>4, OnPathsKeeps
  <2>6. OnItsWay'
    <3>1. d \notin touched => DeletionOn(d)'
      BY <1>1, <1>2, <1>4, <2>1, <2>2, <2>3 DEF OnItsWay, DeletionOn, There, Gone, OnPaths
    <3>2. d \notin edit.created /\ d \notin AllEnds
      BY <2>1 DEF OneRole
    <3>3. \A r \in Renames : {d} \cap Ends(r) = {}
      BY <3>2 DEF AllEnds
    <3>4. QED
      BY <1>1, <1>4, <2>1, <2>2, <2>3, <3>1, <3>2, <3>3, OthersStay
  <2>7. Decisive'
    BY <2>1, <2>2 DEF Decisive, OnPaths
  <2>8. KeptApart'
    <3>1. \A k \in kept : k[1] \in Dirs /\ k[1] # d
      BY <1>2, <2>1 DEF KeptApart, Typed, TypeOK
    <3>2. QED
      BY <1>2, <2>2, <2>3, <3>1, KeptStays
  <2>9. QED
    BY <2>5, <2>6, <2>7, <2>8 DEF IInv
<1>5. QED
  BY <1>3, <1>4

(* The directory above a deleted one is missing only if others removed it;    *)
(* it is made again. *)
LEMMA ParentAgain ==
  ASSUME IInv, NEW d \in edit.deletes, pc = "undeleting",
         ~Holds(Parent[d]), disk[Parent[d]] = "absent",
         disk' = [disk EXCEPT ![Parent[d]] = "empty"],
         UNCHANGED <<stored, edit, pc, why, todo, answer, history>>
  PROVE  IInv'
<1> USE Known
<1> DEFINE p == Parent[d]
<1>1. /\ journal = "prepared" /\ d \in Leaves /\ d \in Dirs
      /\ p # Root /\ p \in Dirs /\ p \notin Leaves /\ Parent[p] = Root
  BY RolesAre, Ground DEF Phase, Holds
<1>2. p \notin edit.deletes \cup AllEnds
  BY <1>1, RolesAre
<1>3. p \in touched
  <2> SUFFICES ASSUME p \notin touched PROVE FALSE
    OBVIOUS
  <2>1. IsDir(edit.old[p])
    BY <1>1 DEF Found
  <2>2. p \notin edit.created
    BY <2>1, Ground DEF Found
  <2>3. disk[p] = edit.old[p]
    BY <1>1, <1>2, <2>2 DEF OnItsWay, Untouched
  <2>4. QED
    BY <2>1, <2>3, Ground
<1>4. OnPaths /\ backup' = backup
  BY DEF OnPaths, stored, history, Phases
<1>5. disk' \in [Dirs -> Contents] /\ WellFormed(disk')
  BY <1>1, DirectoryFits DEF Exists, Holds
<1>6. \A q \in Dirs : q # p => disk'[q] = disk[q]
  BY DEF Typed, TypeOK
<1>7. Typed' /\ OneRole' /\ TouchedTogether' /\ Phase' /\ Found' /\ Planned'
  BY <1>4, <1>5, OnPathsKeeps, RolesAre
<1>8. OnItsWay'
  <2>1. \A r \in Renames : {p} \cap Ends(r) = {}
    BY <1>2 DEF AllEnds
  <2>2. QED
    BY <1>1, <1>3, <1>4, <1>6, <2>1, OthersStay
<1>9. Decisive'
  BY <1>1, <1>4 DEF Decisive, OnPaths
<1>10. KeptApart'
  <2>1. \A k \in kept : k[1] \in Dirs /\ k[1] # p
    BY DEF KeptApart, Typed, TypeOK
  <2>2. \A r \in Renames : disk'[r[1]] = disk[r[1]]
    BY <1>1, <1>6, TheTarget, Ground
  <2>3. QED
    BY <1>4, <1>6, <2>1, <2>2, KeptStays DEF KeptApart, Exists
<1>11. QED
  BY <1>7, <1>8, <1>9, <1>10 DEF IInv

(* A deleted directory is moved back, unless it is there already. *)
LEMMA DeletedAgain ==
  ASSUME IInv, NEW d \in todo, pc = "undeleting",
         \/ backup[d] = "absent" /\ UNCHANGED <<disk, backup>>
         \/ /\ backup[d] # "absent" /\ CanMove(backup[d], d)
            /\ disk' = [disk EXCEPT ![d] = backup[d]]
            /\ backup' = [backup EXCEPT ![d] = "absent"],
         todo' = todo \ {d},
         UNCHANGED <<folder, journal, edit, pc, why, answer, history>>
  PROVE  IInv'
<1> USE Known
<1>1. journal = "prepared" /\ d \in edit.deletes /\ d \in Leaves /\ d \in Dirs
  BY RolesAre, Ground DEF Phase, Typed, TypeOK, Work
<1>2. OnPaths
  BY DEF OnPaths, history, Phases
<1>3. /\ disk' \in [Dirs -> Contents] /\ backup' \in [Dirs -> Contents]
      /\ backup'[d] = "absent"
      /\ disk'[d] = IF backup[d] = "absent" THEN disk[d] ELSE backup[d]
      /\ \A q \in Dirs : q # d => disk'[q] = disk[q] /\ backup'[q] = backup[q]
  BY <1>1, Ground DEF Typed, TypeOK
<1>4. WellFormed(disk')
  <2>1. CASE backup[d] = "absent"
    BY <2>1 DEF Typed, TypeOK
  <2>2. CASE backup[d] # "absent"
    <3>1. {d} \in SUBSET Leaves /\ \A q \in Dirs \ {d} : disk'[q] = disk[q]
      BY <1>1, <1>3
    <3>2. \A q \in {d} : Holds(Parent[q])
      BY <2>2 DEF CanMove
    <3>3. QED
      BY <1>3, <3>1, <3>2, LeavesFit
  <2>3. QED
    BY <2>1, <2>2
<1>5. Typed' /\ OneRole' /\ TouchedTogether' /\ Phase' /\ Found' /\ Planned'
  BY <1>2, <1>3, <1>4, OnPathsKeeps
<1>6. OnItsWay'
  <2>1. ASSUME d \notin touched
        PROVE  DeletionOn(d)'
    <3>1. edit.old[d] # "absent" /\ (There(d) \/ Gone(d))
      BY <1>1, <2>1, Ground DEF Found, OnItsWay, DeletionOn
    <3>2. There(d)'
      BY <1>2, <1>3, <3>1 DEF There, Gone, OnPaths
    <3>3. QED
      BY <1>2, <3>2 DEF DeletionOn, OnPaths
  <2>2. d \notin edit.created /\ d \notin AllEnds
    BY <1>1 DEF OneRole
  <2>3. \A r \in Renames : {d} \cap Ends(r) = {}
    BY <2>2 DEF AllEnds
  <2>4. QED
    BY <1>1, <1>2, <1>3, <2>1, <2>2, <2>3, OthersStay
<1>7. Decisive'
  BY <1>1, <1>2 DEF Decisive, OnPaths
<1>8. KeptApart'
  <2>1. ASSUME NEW k \in kept
        PROVE  disk'[k[1]] = disk[k[1]] /\ (k[1] \in edit.deletes => backup'[k[1]] = "absent")
    <3>1. k[1] \in Dirs /\ (k[1] \in edit.deletes => backup[k[1]] = "absent")
      BY DEF KeptApart, Typed, TypeOK
    <3>2. QED
      BY <1>1, <1>3, <3>1
  <2>2. \A r \in Renames : r[1] \in Dirs /\ r[2] \in Dirs /\ r[1] # d /\ r[2] # d
    BY <1>1, RolesAre, TheTarget, Ground DEF OneRole
  <2>3. QED
    BY <1>2, <1>3, <2>1, <2>2, KeptStays DEF KeptApart, Exists
<1>9. QED
  BY <1>5, <1>6, <1>7, <1>8 DEF IInv

(* The deletions are taken back. *)
LEMMA RestoreDeletedStep == ASSUME IInv, RestoreDeleted PROVE IInv'
<1>1. PICK d \in todo :
       \/ /\ backup[d] = "absent"
          /\ todo' = todo \ {d} /\ UNCHANGED <<disk, backup, pc, why, answer>>
       \/ /\ backup[d] # "absent"
          /\ \/ /\ ~Holds(Parent[d]) /\ disk[Parent[d]] = "absent"
                /\ disk' = [disk EXCEPT ![Parent[d]] = "empty"]
                /\ UNCHANGED <<backup, todo, pc, why, answer>>
             \/ /\ CanMove(backup[d], d)
                /\ disk' = [disk EXCEPT ![d] = backup[d]]
                /\ backup' = [backup EXCEPT ![d] = "absent"]
                /\ todo' = todo \ {d}
                /\ UNCHANGED <<pc, why, answer>>
             \/ /\ ~CanMove(backup[d], d)
                /\ ~Holds(Parent[d]) => disk[Parent[d]] = "file"
                /\ Fails
                /\ UNCHANGED <<disk, backup>>
  BY DEF RestoreDeleted
<1>2. pc = "undeleting" /\ UNCHANGED <<folder, journal, edit, history>>
  BY DEF RestoreDeleted
<1>3. d \in edit.deletes
  BY <1>2, Known DEF Typed, TypeOK, Work
<1>4. CASE ~Holds(Parent[d]) /\ disk[Parent[d]] = "absent"
           /\ disk' = [disk EXCEPT ![Parent[d]] = "empty"]
           /\ UNCHANGED <<backup, todo, pc, why, answer>>
  BY <1>2, <1>3, <1>4, ParentAgain DEF stored
<1>5. CASE Fails /\ UNCHANGED <<disk, backup>>
  BY <1>2, <1>5, FailsRest DEF Same, stored, history
<1>6. QED
  BY <1>1, <1>2, <1>4, <1>5, DeletedAgain

-----------------------------------------------------------------------------
(* Renames are made and taken back.                                          *)

(* What a step on one rename has to show. *)
LEMMA OneRename ==
  ASSUME IInv, OnPaths, journal = "prepared", NEW r \in Renames,
         disk' \in [Dirs -> Contents], backup' \in [Dirs -> Contents],
         \A q \in Dirs : q # r[1] /\ q # r[2] => disk'[q] = disk[q],
         \A q \in Dirs : q # r[2] => backup'[q] = backup[q],
         \A q \in todo : q # r[1] => q \in todo',
         \A q \in Ends(r) : disk'[q] = "absent" \/ Holds(Parent[q]),
         backup'[r[2]] # "absent" => backup[r[2]] # "absent" \/ r[2] \in edit.overwrites,
         r[1] \notin touched => RenameOn(r)'
  PROVE  Typed' /\ OneRole' /\ TouchedTogether' /\ Phase' /\ Found' /\ Planned' /\ OnItsWay' /\ Decisive'
<1> USE Known
<1>1. Ends(r) \in SUBSET Leaves /\ r[1] \in Dirs /\ r[2] \in Dirs /\ Ends(r) \in SUBSET Dirs
  BY TheTarget, Ground DEF Ends
<1>2. \A q \in Dirs \ Ends(r) : /\ disk'[q] = disk[q] /\ backup'[q] = backup[q]
                                /\ q \in todo' <=> q \in todo
  BY DEF Ends, OnPaths
<1>3. WellFormed(disk')
  BY <1>1, <1>2, LeavesFit
<1>4. Typed' /\ OneRole' /\ TouchedTogether' /\ Phase' /\ Found' /\ Planned'
  BY <1>1, <1>3, OnPathsKeeps
<1>5. OnItsWay'
  <2>1. Ends(r) \subseteq AllEnds
    BY DEF AllEnds
  <2>2. Ends(r) \cap edit.created = {} /\ Ends(r) \cap edit.deletes = {}
    BY <2>1 DEF OneRole
  <2>3. \A s \in Renames : Ends(r) \cap Ends(s) # {} => s = r
    BY DEF OneRole
  <2>4. QED
    BY <1>1, <1>2, <2>1, <2>2, <2>3, OthersStay
<1>6. Decisive'
  BY DEF Decisive, OnPaths
<1>7. QED
  BY <1>4, <1>5, <1>6

(* What is put at neither end of the rename is kept. *)
LEMMA KeptBesides ==
  ASSUME IInv, OnPaths, NEW r \in Renames,
         \A q \in Dirs : q # r[1] /\ q # r[2] => disk'[q] = disk[q],
         \A q \in Dirs : q # r[2] => backup'[q] = backup[q],
         \A k \in kept : k[1] \notin Ends(r)
  PROVE  KeptApart'
<1> USE Known
<1>1. \A k \in kept : k[1] \in Dirs /\ k[1] # r[1] /\ k[1] # r[2]
  BY DEF Ends, Typed, TypeOK
<1>2. ASSUME NEW k \in kept, NEW s \in Renames, k[1] = s[2]
      PROVE  disk'[s[1]] = disk[s[1]] /\ backup'[s[2]] = backup[s[2]]
  <2>1. s # r
    BY <1>1, <1>2
  <2>2. s[1] \notin Ends(r) /\ s[2] \notin Ends(r)
    BY <2>1 DEF OneRole, Ends
  <2>3. s[1] \in Dirs /\ s[2] \in Dirs
    BY TheTarget, Ground
  <2>4. QED
    BY <2>2, <2>3 DEF Ends
<1>3. \A k \in kept : disk'[k[1]] = disk[k[1]] /\ backup'[k[1]] = backup[k[1]]
  BY <1>1
<1>4. QED
  BY <1>2, <1>3, KeptStays DEF KeptApart, Exists

(* A directory in the way of a rename is moved into the folder ... *)
LEMMA MoveTargetStep == ASSUME IInv, MoveTarget PROVE IInv'
<1> USE Known
<1>1. PICK o \in todo :
        /\ Target(o) \in edit.overwrites /\ backup[Target(o)] = "absent"
        /\ IF ~Exists(Target(o)) THEN Undo /\ UNCHANGED <<disk, backup>>
           ELSE /\ disk' = [disk EXCEPT ![Target(o)] = "absent"]
                /\ backup' = [backup EXCEPT ![Target(o)] = disk[Target(o)]]
                /\ UNCHANGED <<todo, pc, why, answer>>
  BY DEF MoveTarget
<1>2. pc = "renaming" /\ UNCHANGED <<folder, journal, edit, history>>
  BY DEF MoveTarget
<1>3. o \in Sources
  BY <1>2 DEF Typed, TypeOK, Work
<1>4. PICK r \in Renames : o = r[1] /\ Target(o) = r[2]
  BY <1>3, TheTarget
<1>5. CASE ~Exists(r[2])
  BY <1>1, <1>2, <1>4, <1>5, FailsRest DEF Same, stored, history
<1>6. CASE Exists(r[2])
  <2>1. journal = "prepared" /\ r[1] \in Dirs /\ r[2] \in Dirs /\ r[1] # r[2]
    BY <1>2, TheTarget, Ground DEF Phase, OneRole
  <2>2. OnPaths /\ todo' = todo
    BY <1>1, <1>2, <1>4, <1>6 DEF OnPaths, history, Phases
  <2>3. /\ disk' \in [Dirs -> Contents] /\ backup' \in [Dirs -> Contents]
        /\ disk'[r[2]] = "absent" /\ backup'[r[2]] = disk[r[2]]
        /\ \A q \in Dirs : q # r[2] => disk'[q] = disk[q] /\ backup'[q] = backup[q]
    BY <1>1, <1>4, <1>6, <2>1, Ground DEF Typed, TypeOK
  <2>4. ASSUME r[1] \notin touched
        PROVE  RenameOn(r)'
    <3>1. RenameOn(r) /\ edit.old[r[2]] # "absent" /\ r[2] \in edit.overwrites
      BY <1>1, <1>4, <2>1, <2>4 DEF OnItsWay, Planned, Readable
    <3>2. InPlace(r)
      BY <1>1, <1>2, <1>4, <3>1 DEF RenameOn, Cleared, Gone
    <3>3. Cleared(r)'
      BY <2>1, <2>2, <2>3, <3>1, <3>2 DEF InPlace, There, Cleared, Gone, OnPaths
    <3>4. QED
      BY <1>1, <1>2, <1>4, <2>2, <3>3 DEF RenameOn, OnPaths
  <2>5. \A q \in Ends(r) : disk'[q] = "absent" \/ Holds(Parent[q])
    <3>1. disk[r[1]] = "absent" \/ Holds(Parent[r[1]])
      BY <2>1, Ground DEF Typed, TypeOK, WellFormed, Holds
    <3>2. QED
      BY <2>1, <2>3, <3>1 DEF Ends
  <2>6. Typed' /\ OneRole' /\ TouchedTogether' /\ Phase' /\ Found' /\ Planned' /\ OnItsWay' /\ Decisive'
    BY <1>1, <1>4, <2>1, <2>2, <2>3, <2>4, <2>5, OneRename
  <2>7. KeptApart'
    <3>1. \A k \in kept : k[1] \notin Ends(r)
      BY <1>2 DEF KeptApart, AllEnds
    <3>2. QED
      BY <2>2, <2>3, <3>1, KeptBesides
  <2>8. QED
    BY <2>6, <2>7 DEF IInv
<1>7. QED
  BY <1>5, <1>6

(* ... and the renamed one to its place. *)
LEMMA MoveSourceStep == ASSUME IInv, MoveSource PROVE IInv'
<1> USE Known
<1>1. PICK o \in todo :
        /\ Target(o) \in edit.overwrites => backup[Target(o)] # "absent"
        /\ IF CanMove(disk[o], Target(o))
           THEN /\ disk' = [disk EXCEPT ![o] = "absent", ![Target(o)] = disk[o]]
                /\ todo' = todo \ {o}
                /\ UNCHANGED <<pc, why, answer>>
           ELSE Undo /\ UNCHANGED disk
  BY DEF MoveSource
<1>2. pc = "renaming" /\ UNCHANGED <<stored, edit, history>>
  BY DEF MoveSource
<1>3. o \in Sources
  BY <1>2 DEF Typed, TypeOK, Work
<1>4. PICK r \in Renames : o = r[1] /\ Target(o) = r[2]
  BY <1>3, TheTarget
<1>5. CASE ~CanMove(disk[r[1]], r[2])
  BY <1>1, <1>2, <1>4, <1>5, FailsRest DEF Same, history
<1>6. CASE CanMove(disk[r[1]], r[2])
  <2>1. journal = "prepared" /\ r[1] \in Dirs /\ r[2] \in Dirs /\ r[1] # r[2]
    BY <1>2, TheTarget, Ground DEF Phase, OneRole
  <2>2. OnPaths /\ todo' = todo \ {r[1]} /\ backup' = backup /\ Holds(Parent[r[2]])
    BY <1>1, <1>2, <1>4, <1>6 DEF OnPaths, stored, history, Phases, CanMove
  <2>3. /\ disk' \in [Dirs -> Contents] /\ backup' \in [Dirs -> Contents]
        /\ disk'[r[1]] = "absent" /\ disk'[r[2]] = disk[r[1]]
        /\ \A q \in Dirs : q # r[1] /\ q # r[2] => disk'[q] = disk[q]
    BY <1>1, <1>4, <1>6, <2>1, <2>2, Ground DEF Typed, TypeOK
  <2>4. ASSUME r[1] \notin touched
        PROVE  RenameOn(r)'
    <3>1. RenameOn(r) /\ (r[2] \notin edit.overwrites => edit.old[r[2]] = "absent")
      BY <2>1, <2>4 DEF OnItsWay, Planned, Readable
    <3>2. InPlace(r) \/ Cleared(r)
      BY <1>2, <1>4, <3>1 DEF RenameOn
    <3>3. Moved(r)'
      <4>1. disk[r[1]] = edit.old[r[1]]
        BY <3>2 DEF InPlace, Cleared
      <4>2. backup[r[2]] = IF r[2] \in edit.overwrites THEN edit.old[r[2]] ELSE "absent"
        BY <1>1, <1>4, <3>2 DEF InPlace, There, Cleared, Gone
      <4>3. QED
        BY <2>2, <2>3, <4>1, <4>2 DEF Moved, OnPaths
    <3>4. QED
      BY <1>2, <2>2, <3>3 DEF RenameOn, OnPaths
  <2>5. \A q \in Ends(r) : disk'[q] = "absent" \/ Holds(Parent[q])
    BY <2>2, <2>3 DEF Ends
  <2>6. Typed' /\ OneRole' /\ TouchedTogether' /\ Phase' /\ Found' /\ Planned' /\ OnItsWay' /\ Decisive'
    BY <2>1, <2>2, <2>3, <2>4, <2>5, OneRename
  <2>7. KeptApart'
    <3>1. \A k \in kept : k[1] \notin Ends(r)
      BY <1>2 DEF KeptApart, AllEnds
    <3>2. QED
      BY <2>2, <2>3, <3>1, KeptBesides
  <2>8. QED
    BY <2>6, <2>7 DEF IInv
<1>7. QED
  BY <1>5, <1>6

(* A renamed directory is moved back ... *)
LEMMA RestoreSourceStep == ASSUME IInv, RestoreSource PROVE IInv'
<1> USE Known
<1>1. PICK o \in todo :
        /\ ~Exists(o)
        /\ IF CanMove(disk[Target(o)], o)
           THEN /\ disk' = [disk EXCEPT ![o] = disk[Target(o)], ![Target(o)] = "absent"]
                /\ UNCHANGED <<todo, pc, why, answer>>
           ELSE Fails /\ UNCHANGED disk
  BY DEF RestoreSource
<1>2. pc = "unrenaming" /\ UNCHANGED <<stored, edit, history>>
  BY DEF RestoreSource
<1>3. o \in Sources
  BY <1>2 DEF Typed, TypeOK, Work
<1>4. PICK r \in Renames : o = r[1] /\ Target(o) = r[2]
  BY <1>3, TheTarget
<1>5. CASE ~CanMove(disk[r[2]], r[1])
  BY <1>1, <1>2, <1>4, <1>5, FailsRest DEF Same, history
<1>6. CASE CanMove(disk[r[2]], r[1])
  <2>1. journal = "prepared" /\ r[1] \in Dirs /\ r[2] \in Dirs /\ r[1] # r[2]
    BY <1>2, TheTarget, Ground DEF Phase, OneRole
  <2>2. OnPaths /\ todo' = todo /\ backup' = backup /\ Holds(Parent[r[1]])
    BY <1>1, <1>2, <1>4, <1>6 DEF OnPaths, stored, history, Phases, CanMove
  <2>3. /\ disk' \in [Dirs -> Contents] /\ backup' \in [Dirs -> Contents]
        /\ disk'[r[2]] = "absent" /\ disk'[r[1]] = disk[r[2]]
        /\ \A q \in Dirs : q # r[1] /\ q # r[2] => disk'[q] = disk[q]
    BY <1>1, <1>4, <1>6, <2>1, <2>2, Ground DEF Typed, TypeOK
  <2>4. ASSUME r[1] \notin touched
        PROVE  RenameOn(r)'
    <3>1. /\ RenameOn(r) /\ (r[2] \notin edit.overwrites => edit.old[r[2]] = "absent")
          /\ edit.old[r[1]] # "absent"
      BY <2>1, <2>4, Ground DEF OnItsWay, Planned, Readable, Found
    <3>2. Moved(r)
      BY <1>1, <1>4, <3>1 DEF RenameOn, InPlace, Cleared, Exists
    <3>3. InPlace(r)' \/ Cleared(r)'
      BY <2>2, <2>3, <3>1, <3>2 DEF Moved, InPlace, Cleared, There, Gone, OnPaths
    <3>4. QED
      BY <1>1, <1>2, <1>4, <2>2, <3>3 DEF RenameOn, OnPaths
  <2>5. \A q \in Ends(r) : disk'[q] = "absent" \/ Holds(Parent[q])
    BY <2>2, <2>3 DEF Ends
  <2>6. Typed' /\ OneRole' /\ TouchedTogether' /\ Phase' /\ Found' /\ Planned' /\ OnItsWay' /\ Decisive'
    BY <2>1, <2>2, <2>3, <2>4, <2>5, OneRename
  <2>7. KeptApart'
    <3>1. \A k \in kept : k[1] \notin Ends(r)
      <4> SUFFICES ASSUME NEW k \in kept PROVE k[1] # r[1] /\ k[1] # r[2]
        BY DEF Ends
      <4>1. k[1] # r[1]
        BY <1>1, <1>4 DEF KeptApart, Exists
      <4>2. k[1] # r[2]
        BY <1>1, <1>2, <1>4 DEF KeptApart, Exists
      <4>3. QED
        BY <4>1, <4>2
    <3>2. QED
      BY <2>2, <2>3, <3>1, KeptBesides
  <2>8. QED
    BY <2>6, <2>7 DEF IInv
<1>7. QED
  BY <1>5, <1>6

(* ... and then the directory that was in its way. *)
LEMMA TargetAgain ==
  ASSUME IInv, NEW r \in Renames, r[1] \in todo, pc = "unrenaming", Exists(r[1]),
         \/ backup[r[2]] = "absent" /\ UNCHANGED <<disk, backup>>
         \/ /\ backup[r[2]] # "absent" /\ CanMove(backup[r[2]], r[2])
            /\ disk' = [disk EXCEPT ![r[2]] = backup[r[2]]]
            /\ backup' = [backup EXCEPT ![r[2]] = "absent"],
         todo' = todo \ {r[1]},
         UNCHANGED <<folder, journal, edit, pc, why, answer, history>>
  PROVE  IInv'
<1> USE Known
<1>1. /\ journal = "prepared" /\ r[1] \in Dirs /\ r[2] \in Dirs /\ r[1] # r[2]
      /\ r[1] \in AllEnds /\ r[2] \in AllEnds
  BY TheTarget, RolesAre, Ground DEF Phase, OneRole
<1>2. OnPaths
  BY DEF OnPaths, history, Phases
<1>3. /\ disk' \in [Dirs -> Contents] /\ backup' \in [Dirs -> Contents]
      /\ backup'[r[2]] = "absent"
      /\ disk'[r[2]] = IF backup[r[2]] = "absent" THEN disk[r[2]] ELSE backup[r[2]]
      /\ \A q \in Dirs : q # r[2] => disk'[q] = disk[q] /\ backup'[q] = backup[q]
  BY <1>1, Ground DEF Typed, TypeOK
<1>4. ASSUME r[1] \notin touched
      PROVE  RenameOn(r)'
  <2>1. /\ RenameOn(r) /\ (r[2] \in edit.overwrites <=> edit.old[r[2]] # "absent")
    BY <1>1, <1>4, Ground DEF OnItsWay, Planned, Readable
  <2>2. InPlace(r) \/ Cleared(r)
    BY <2>1 DEF RenameOn, Moved, Exists
  <2>3. InPlace(r)'
    BY <1>1, <1>2, <1>3, <2>1, <2>2 DEF InPlace, Cleared, There, Gone, OnPaths
  <2>4. QED
    BY <1>2, <2>3 DEF RenameOn, OnPaths
<1>5. \A q \in Ends(r) : disk'[q] = "absent" \/ Holds(Parent[q])
  <2>1. disk[r[1]] = "absent" \/ Holds(Parent[r[1]])
    BY <1>1, Ground DEF Typed, TypeOK, WellFormed, Holds
  <2>2. disk'[r[2]] = "absent" \/ Holds(Parent[r[2]])
    BY <1>1, <1>3, Ground DEF Typed, TypeOK, WellFormed, Holds, CanMove
  <2>3. QED
    BY <1>1, <1>3, <2>1, <2>2 DEF Ends
<1>6. Typed' /\ OneRole' /\ TouchedTogether' /\ Phase' /\ Found' /\ Planned' /\ OnItsWay' /\ Decisive'
  BY <1>1, <1>2, <1>3, <1>4, <1>5, OneRename
<1>7. KeptApart'
  <2>1. ASSUME NEW k \in kept
        PROVE  disk'[k[1]] = disk[k[1]]
    <3>1. /\ k[1] \in Dirs /\ disk[k[1]] = k[2] /\ k[2] \notin {"absent", "empty"}
          /\ k[1] = r[2] => (k[2] = "file" => backup[r[2]] # "file")
      BY DEF KeptApart, Typed, TypeOK
    <3>2. k[1] = r[2] => backup[r[2]] = "absent"
      BY <3>1 DEF CanMove, Bare, Exists
    <3>3. QED
      BY <1>3, <3>1, <3>2
  <2>2. ASSUME NEW k \in kept, k[1] \in edit.deletes
        PROVE  backup'[k[1]] = "absent"
    <3>1. k[1] \in Dirs /\ k[1] # r[2]
      BY <1>1, <2>2 DEF OneRole, Typed, TypeOK
    <3>2. QED
      BY <1>3, <2>2, <3>1 DEF KeptApart
  <2>3. ASSUME NEW k \in kept, NEW s \in Renames, k[1] = s[2]
        PROVE  disk'[s[1]] # "absent" /\ (k[2] = "file" => backup'[s[2]] # "file")
    <3>1. disk[s[1]] # "absent" /\ (k[2] = "file" => backup[s[2]] # "file")
      BY <2>3 DEF KeptApart, Exists
    <3>2. s[1] \in Dirs /\ s[2] \in Dirs /\ s[1] # r[2]
      <4>1. s = r \/ s[1] # r[2]
        BY DEF OneRole, Ends
      <4>2. QED
        BY <1>1, <4>1, TheTarget, Ground
    <3>3. QED
      BY <1>3, <3>1, <3>2
  <2>4. QED
    BY <1>2, <2>1, <2>2, <2>3, KeptStays
<1>8. QED
  BY <1>6, <1>7 DEF IInv

(* The renames are taken back. *)
LEMMA RestoreTargetStep == ASSUME IInv, RestoreTarget PROVE IInv'
<1> USE Known
<1>1. PICK o \in todo :
        /\ Exists(o)
        /\ IF backup[Target(o)] = "absent"
           THEN todo' = todo \ {o} /\ UNCHANGED <<disk, backup, pc, why, answer>>
           ELSE IF CanMove(backup[Target(o)], Target(o))
                THEN /\ disk' = [disk EXCEPT ![Target(o)] = backup[Target(o)]]
                     /\ backup' = [backup EXCEPT ![Target(o)] = "absent"]
                     /\ todo' = todo \ {o}
                     /\ UNCHANGED <<pc, why, answer>>
                ELSE Fails /\ UNCHANGED <<disk, backup>>
  BY DEF RestoreTarget
<1>2. pc = "unrenaming" /\ UNCHANGED <<folder, journal, edit, history>>
  BY DEF RestoreTarget
<1>3. o \in Sources
  BY <1>2 DEF Typed, TypeOK, Work
<1>4. PICK r \in Renames : o = r[1] /\ Target(o) = r[2]
  BY <1>3, TheTarget
<1>5. CASE Fails /\ UNCHANGED <<disk, backup>>
  BY <1>2, <1>5, FailsRest DEF Same, stored, history
<1>6. CASE ~(Fails /\ UNCHANGED <<disk, backup>>)
  BY <1>1, <1>2, <1>4, <1>6, TargetAgain
<1>7. QED
  BY <1>5, <1>6

-----------------------------------------------------------------------------
(* Others change the workspace.                                              *)

(* What they change is theirs: the edit answers for it no more. *)
LEMMA ForeignWriteStep == ASSUME IInv, ForeignWrite PROVE IInv'
<1> USE Known
<1>1. PICK p \in Dirs : \E c \in Contents \ {disk[p]} :
        /\ c # "absent" => Holds(Parent[p])
        /\ ~IsDir(c) => \A q \in Children(p) : ~Exists(q)
        /\ disk' = [disk EXCEPT ![p] = c]
        /\ touched' = touched \cup Partners(p)
        /\ kept' = {k \in kept : k[1] # p /\ (AtRest \/ k[1] \notin Partners(p))} \cup
                     IF /\ AtRest /\ c \notin {"absent", "empty"}
                        /\ ~(Pending(p) /\ c \in {edit.old[q] : q \in Partners(p)})
                     THEN {<<p, c>>} ELSE {}
  BY Zenon DEF ForeignWrite
<1>2. PICK c \in Contents \ {disk[p]} :
        /\ c # "absent" => Holds(Parent[p])
        /\ ~IsDir(c) => \A q \in Children(p) : ~Exists(q)
        /\ disk' = [disk EXCEPT ![p] = c]
        /\ touched' = touched \cup Partners(p)
        /\ kept' = {k \in kept : k[1] # p /\ (AtRest \/ k[1] \notin Partners(p))} \cup
                     IF /\ AtRest /\ c \notin {"absent", "empty"}
                        /\ ~(Pending(p) /\ c \in {edit.old[q] : q \in Partners(p)})
                     THEN {<<p, c>>} ELSE {}
  BY <1>1
<1>3. UNCHANGED <<folder, journal, backup, edit, pc, why, todo, answer, committed>>
  BY DEF ForeignWrite, stored
<1>4. /\ disk' \in [Dirs -> Contents] /\ disk'[p] = c
      /\ \A q \in Dirs : q # p => disk'[q] = disk[q]
  BY <1>2 DEF Typed, TypeOK
<1>5. WellFormed(disk')
  <2> SUFFICES ASSUME NEW q \in Dirs, Parent[q] # Root, disk'[q] # "absent"
               PROVE  IsDir(disk'[Parent[q]])
    BY DEF WellFormed
  <2>1. Parent[q] \in Dirs /\ Parent[q] # q
    BY Ground
  <2>2. CASE q = p
    BY <1>2, <1>4, <2>1, <2>2 DEF Holds
  <2>3. CASE q # p
    <3>1. disk[q] # "absent" /\ IsDir(disk[Parent[q]])
      BY <1>4, <2>3 DEF Typed, TypeOK, WellFormed
    <3>2. Parent[q] = p => IsDir(c)
      BY <1>2, <3>1 DEF Children, Exists
    <3>3. QED
      BY <1>4, <2>1, <3>1, <3>2
  <2>4. QED
    BY <2>2, <2>3
<1>6. p \in touched' /\ touched \subseteq touched' /\ touched' \subseteq Dirs
  BY <1>2, PartnersAre DEF Typed, TypeOK
<1>7. Renames' = Renames /\ AllEnds' = AllEnds /\ \A r : Ends(r)' = Ends(r)
  BY <1>3 DEF Renames, AllEnds, Ends
<1>8. Typed'
  <2>1. kept' \subseteq Dirs \X Contents
    BY <1>2 DEF Typed, TypeOK
  <2>2. \A phase : Work(phase)' = Work(phase)
    BY <1>3 DEF Work, Sources
  <2>3. QED
    BY <1>3, <1>4, <1>5, <1>6, <2>1, <2>2 DEF Typed, TypeOK
<1>9. OneRole' /\ Phase'
  BY <1>3, <1>7 DEF OneRole, Phase
<1>10. TouchedTogether'
  <2> SUFFICES ASSUME NEW r \in Renames
               PROVE  r[1] \in touched' <=> r[2] \in touched'
    BY <1>7 DEF TouchedTogether
  <2>1. r[1] \in Partners(p) <=> r[2] \in Partners(p)
    <3>1. CASE p \in AllEnds
      <4>1. PICK s \in Renames : p \in Ends(s)
        BY <3>1 DEF AllEnds
      <4>2. Partners(p) = Ends(s)
        BY <4>1, PartnersAre DEF Ends
      <4>3. QED
        BY <4>2 DEF OneRole, Ends
    <3>2. CASE p \notin AllEnds
      BY <3>2, PartnersAre, RolesAre
    <3>3. QED
      BY <3>1, <3>2
  <2>2. QED
    BY <1>2, <2>1 DEF TouchedTogether
<1>11. Found' /\ Planned'
  BY <1>3, <1>6, <1>7 DEF Found, Planned, Untouched
<1>12. OnItsWay'
  <2> SUFFICES ASSUME journal = "prepared"
               PROVE  OnItsWay'
    BY <1>3 DEF OnItsWay
  <2>1. \A q \in Untouched' \ (edit.created \cup edit.deletes \cup AllEnds) : disk'[q] = edit.old[q]
    BY <1>4, <1>6 DEF OnItsWay, Untouched
  <2>2. \A q \in edit.created \ touched' : CreationOn(q)'
    BY <1>3, <1>4, <1>6, CreationStays, RolesAre DEF OnItsWay
  <2>3. \A d \in edit.deletes \ touched' : DeletionOn(d)'
    BY <1>3, <1>4, <1>6, DeletionStays, RolesAre, Ground DEF OnItsWay
  <2>4. ASSUME NEW r \in Renames, r[1] \notin touched'
        PROVE  RenameOn(r)'
    <3>1. r[1] # p /\ r[2] # p /\ r[1] \in Dirs /\ r[2] \in Dirs
      BY <1>6, <1>7, <1>10, <2>4, TheTarget, Ground DEF TouchedTogether
    <3>2. RenameOn(r)
      BY <1>6, <2>4 DEF OnItsWay
    <3>3. QED
      BY <1>3, <1>4, <3>1, <3>2, RenameStays
  <2>5. QED
    BY <1>3, <1>7, <2>1, <2>2, <2>3, <2>4 DEF OnItsWay
<1>13. Decisive'
  BY <1>3, <1>4, <1>6 DEF Decisive, Decided, Untouched
<1>14. KeptApart'
  <2>1. /\ \A q : Pending(q)' = Pending(q) /\ Partners(q)' = Partners(q)
        /\ \A q : Exists(q)' <=> disk'[q] # "absent"
    BY <1>3 DEF Pending, Partners, Roles, Exists
  <2>2. \A k \in kept' : \/ k \in kept /\ k[1] # p /\ (AtRest \/ k[1] \notin Partners(p))
                         \/ /\ k = <<p, c>> /\ AtRest /\ c \notin {"absent", "empty"}
                            /\ ~(Pending(p) /\ c \in {edit.old[q] : q \in Partners(p)})
    BY <1>2
  <2>3. ASSUME NEW k \in kept, k[1] # p, AtRest \/ k[1] \notin Partners(p)
        PROVE  /\ disk'[k[1]] = k[2] /\ k[2] \notin {"absent", "empty"}
               /\ pc \in {"removing", "undeleting", "unrenaming"} =>
                    \A r \in Renames : k[1] = r[2] => disk'[r[1]] # "absent"
    <3>1. k[1] \in Dirs /\ disk[k[1]] = k[2] /\ k[2] \notin {"absent", "empty"}
      BY DEF KeptApart, Typed, TypeOK
    <3>2. ASSUME NEW r \in Renames, k[1] = r[2], pc \in {"removing", "undeleting", "unrenaming"}
          PROVE  disk'[r[1]] # "absent"
      <4>1. r[1] # p
        BY <2>3, <3>2, PartnersAre DEF AtRest, Ends
      <4>2. disk[r[1]] # "absent" /\ r[1] \in Dirs
        BY <3>2, TheTarget, Ground DEF KeptApart, Exists
      <4>3. QED
        BY <1>4, <4>1, <4>2
    <3>3. QED
      BY <1>4, <2>3, <3>1, <3>2
  <2>4. ASSUME NEW k \in kept', k \in kept, k[1] # p, AtRest \/ k[1] \notin Partners(p)
        PROVE  /\ disk'[k[1]] = k[2] /\ k[2] \notin {"absent", "empty"}
               /\ pc \in {"preparing", "creating", "deleting", "renaming", "committing"} =>
                    k[1] \notin edit.creates \cup edit.created \cup edit.deletes \cup AllEnds
               /\ Pending(k[1]) => \A q \in Partners(k[1]) : k[2] # edit.old[q]
               /\ pc \in {"removing", "undeleting", "unrenaming"} =>
                    /\ k[1] \in edit.deletes => backup[k[1]] = "absent"
                    /\ \A r \in Renames : k[1] = r[2] =>
                         disk'[r[1]] # "absent" /\ (k[2] = "file" => backup[r[2]] # "file")
    BY <2>3, <2>4 DEF KeptApart
  <2>5. ASSUME NEW k \in kept', k = <<p, c>>, AtRest, c \notin {"absent", "empty"},
               ~(Pending(p) /\ c \in {edit.old[q] : q \in Partners(p)})
        PROVE  /\ disk'[k[1]] = k[2] /\ k[2] \notin {"absent", "empty"} /\ pc \in {"idle", "down"}
               /\ Pending(k[1]) => \A q \in Partners(k[1]) : k[2] # edit.old[q]
    BY <1>4, <2>5 DEF AtRest
  <2>6. QED
    BY <1>3, <1>7, <2>1, <2>2, <2>4, <2>5 DEF KeptApart
<1>15. QED
  BY <1>8, <1>9, <1>10, <1>11, <1>12, <1>13, <1>14 DEF IInv

-----------------------------------------------------------------------------
(* The theorems.                                                             *)

(* Nothing is pending at first. *)
LEMMA Initial == Init => IInv
<1> SUFFICES ASSUME Init PROVE IInv
  OBVIOUS
<1>1. /\ disk \in [Dirs -> Contents] /\ WellFormed(disk)
      /\ folder = FALSE /\ journal = "none" /\ backup = [p \in Dirs |-> "absent"]
      /\ pc = "idle" /\ why = "open" /\ todo = {} /\ answer = "none"
      /\ committed = FALSE /\ touched = {} /\ kept = {}
  BY DirectoryAssumption DEF Init
<1>2. /\ edit.creates = {} /\ edit.deletes = {} /\ edit.renames = {} /\ edit.created = {}
      /\ edit.overwrites = {} /\ edit.old = disk /\ edit.new = disk /\ edit \in Edits
  BY <1>1 DEF Init, NoEdit, Edits
<1>3. Typed
  <2>1. backup \in [Dirs -> Contents]
    BY <1>1, Ground
  <2>2. QED
    BY <1>1, <1>2, <2>1 DEF Typed, TypeOK
<1>4. OneRole /\ TouchedTogether
  BY <1>1, <1>2 DEF OneRole, TouchedTogether, AllEnds, Ends, Renames
<1>5. Phase
  BY <1>1 DEF Phase
<1>6. Found /\ Planned /\ OnItsWay /\ Decisive
  BY <1>1, <1>2 DEF Found, Planned, OnItsWay, Decisive, Decided, Untouched, Renames, Readable
<1>7. KeptApart
  BY <1>1 DEF KeptApart
<1>8. QED
  BY <1>3, <1>4, <1>5, <1>6, <1>7 DEF IInv

(* One fact per action, each shown above. *)
LEMMA Inductive == IInv /\ [Next]_vars => IInv'
<1> SUFFICES ASSUME IInv, [Next]_vars PROVE IInv'
  OBVIOUS
<1>1. CASE Recovery
  BY <1>1, NothingPendingStep, NotPreparedStep, CheckPreparedStep, CreationStep, RestoreDeletedStep,
     RestoreSourceStep, RestoreTargetStep, RecreateStep, RestingSteps, RemoveOneStep,
     RemoveFolderStep DEF Recovery
<1>2. CASE Apply
  BY <1>2, RestingSteps, ReadStep, MakeFolderStep, PrepareFailsStep, PublishPreparedStep,
     CreationStep, DeleteStep, MoveTargetStep, MoveSourceStep, CommitStep DEF Apply
<1>3. CASE Request \/ Crash \/ Restart
  BY <1>3, RestingSteps
<1>4. CASE UNCHANGED vars
  <2>1. /\ Same /\ UNCHANGED <<pc, why, todo, answer, count>>
    BY <1>4 DEF vars, Same, stored
  <2>2. Typed' /\ OneRole' /\ TouchedTogether' /\ Phase'
    BY <2>1, Known DEF Same, stored, Typed, TypeOK, WellFormed, Edits, Work, Sources, OneRole,
       TouchedTogether, Phase, Renames, AllEnds, Ends
  <2>3. Found' /\ Planned' /\ OnItsWay' /\ Decisive'
    BY <2>1, Known DEF Same, stored, Found, Planned, OnItsWay, Decisive, Decided, CreationOn,
       DeletionOn, RenameOn, There, Gone, InPlace, Cleared, Moved, Untouched, Renames, AllEnds, Ends
  <2>4. KeptApart'
    BY <2>1, Known DEF Same, stored, KeptApart, Pending, Roles, Partners, Renames, AllEnds, Ends, Exists
  <2>5. QED
    BY <2>2, <2>3, <2>4 DEF IInv
<1>5. QED
  BY <1>1, <1>2, <1>3, <1>4, NextPhaseStep, ForeignWriteStep DEF Next

(* In every state each path of a pending edit that nobody else changed is on  *)
(* its way, and every other path is as the journal decides.                   *)
THEOREM Invariance == Spec => []IInv
BY Initial, Inductive, PTL DEF Spec

(* What every variable holds; the workspace stays a tree, and nothing is in a *)
(* transaction folder that is not there. *)
THEOREM TypeCorrect == Spec => []TypeOK
<1>1. IInv => TypeOK
  BY DEF IInv, Typed
<1>2. QED
  BY <1>1, Invariance, PTL

(* As long as an edit is not committed, every tree it deletes, overwrites or  *)
(* renames is where it was, where it is renamed to, or in the folder ... *)
LEMMA TreesAreSomewhere == IInv => NoTreeLost
<1> SUFFICES ASSUME IInv, ~committed, journal \in Readable,
                    NEW p \in Dirs \ touched, p \in edit.deletes \cup Sources \cup edit.overwrites
             PROVE  edit.old[p] \in {disk[p], backup[p]} \cup {disk[Target(o)] : o \in Sources \cap {p}}
  BY DEF NoTreeLost
<1> USE Known
<1>1. journal = "prepared"
  BY DEF Phase, Readable
<1>2. CASE p \in edit.deletes
  BY <1>1, <1>2 DEF OnItsWay, DeletionOn, There, Gone
<1>3. CASE p \in Sources
  <2>1. PICK r \in Renames : p = r[1] /\ Target(p) = r[2]
    BY <1>3, TheTarget
  <2>2. InPlace(r) \/ Cleared(r) \/ Moved(r)
    BY <1>1, <2>1 DEF OnItsWay, RenameOn
  <2>3. edit.old[p] = disk[p] \/ edit.old[p] = disk[Target(p)]
    BY <2>1, <2>2 DEF InPlace, Cleared, Moved
  <2>4. QED
    BY <1>3, <2>3
<1>4. CASE p \in edit.overwrites
  <2>1. PICK r \in Renames : p = r[2]
    BY <1>4 DEF OneRole
  <2>2. InPlace(r) \/ Cleared(r) \/ Moved(r)
    BY <1>1, <2>1 DEF OnItsWay, RenameOn, TouchedTogether
  <2>3. QED
    BY <1>4, <2>1, <2>2 DEF InPlace, Cleared, Moved, There, Gone
<1>5. QED
  BY <1>2, <1>3, <1>4

(* ... and what others put into the workspace while no operation ran survives *)
(* every recovery (restore_deleted_paths, restore_renamed_paths): no tree is  *)
(* lost, by no crash, error or race. *)
THEOREM TreesAreKept == Spec => []TreesKept
<1>1. IInv => TreesKept
  BY TreesAreSomewhere DEF IInv, KeptApart, ForeignTreesKept, TreesKept
<1>2. QED
  BY <1>1, Invariance, PTL

-----------------------------------------------------------------------------
(* The refinement: what every step looks like from the workspace.            *)

(* While the journal decides nothing else, the workspace shows what is in     *)
(* force. *)
LEMMA ShownInForce ==
  ASSUME IInv, \A p \in Untouched : disk[p] = Decided(p)
  PROVE  InForce = disk
BY DEF IInv, Typed, TypeOK, InForce, Untouched

(* A step on the disk while the folder is there is a move of the abstract     *)
(* edit. *)
LEMMA AtomicMove ==
  ASSUME Typed', folder, UNCHANGED <<folder, edit, committed, touched>>
  PROVE  Atomic!Move
<1>1. disk' \in [Dirs -> Contents]
  BY DEF Typed, TypeOK
<1>2. InForce' = [p \in Dirs |-> IF p \in touched THEN disk'[p] ELSE InForce[p]]
  BY DEF InForce, Decided
<1>3. QED
  BY <1>1, <1>2 DEF Atomic!Move

(* A step that leaves the workspace and the decision alone is a stutter. *)
LEMMA AtomicStutter ==
  ASSUME UNCHANGED <<disk, folder, committed, touched>>, edit'.old = edit.old, edit'.new = edit.new
  PROVE  UNCHANGED Atomic!vars
BY DEF Atomic!vars, InForce, Decided

(* The journal's decision is that of the abstract edit. *)
LEMMA AtomicDecision ==
  ASSUME IInv, pc = "committing", UNCHANGED <<disk, folder, edit, touched>>, committed' = TRUE
  PROVE  Atomic!Decide
<1>1. folder
  BY Known DEF Phase, Typed, TypeOK
<1>2. \A p \in Dirs \ touched : disk[p] = edit.new[p]
  BY Done DEF Untouched
<1>3. InForce' = disk
  BY <1>2, Known DEF InForce, Decided, Typed, TypeOK
<1>4. QED
  BY <1>1, <1>3 DEF Atomic!Decide

(* The steps of a recovery: moves, and the end of the edit. *)
LEMMA AtomicRecovery == ASSUME IInv, Typed', Recovery PROVE Atomic!Next \/ UNCHANGED Atomic!vars
<1>1. CASE NothingPending \/ Discard \/ CheckPrepared \/ CheckCommitted \/ Verify
           \/ RecoveryFails \/ RemoveOne \/ CleaningFails
  BY <1>1, AtomicStutter DEF NothingPending, Discard, CheckPrepared, CheckCommitted, Verify,
     RecoveryFails, RemoveOne, CleaningFails, stored, history
<1>2. CASE RemoveCreated \/ RestoreDeleted \/ RestoreSource \/ RestoreTarget \/ Recreate
  <2>1. pc \in {"removing", "undeleting", "unrenaming", "redoing"}
        /\ UNCHANGED <<folder, edit, committed, touched>>
    BY <1>2 DEF RemoveCreated, RestoreDeleted, RestoreSource, RestoreTarget, Recreate, stored, history
  <2>2. folder
    BY <2>1, Known DEF Phase, Typed, TypeOK
  <2>3. QED
    BY <2>1, <2>2, AtomicMove DEF Atomic!Next
<1>3. CASE RemoveFolder
  <2>1. folder /\ journal = "none"
    BY <1>3, Known DEF RemoveFolder, Phase
  <2>2. InForce = disk
    BY <2>1, Known, ShownInForce DEF Decisive
  <2>3. UNCHANGED <<disk, InForce, touched>> /\ folder' = FALSE
    BY <1>3 DEF RemoveFolder, history, InForce, Decided
  <2>4. QED
    BY <2>1, <2>2, <2>3 DEF Atomic!Settle, Atomic!Next
<1>4. QED
  BY <1>1, <1>2, <1>3 DEF Recovery

(* The steps of an edit: it is read and begun, moves, and is decided. *)
LEMMA AtomicApply == ASSUME IInv, Typed', Apply PROVE Atomic!Next \/ UNCHANGED Atomic!vars
<1>1. CASE Conflict \/ PlaceJournal \/ ApplyFails
  BY <1>1, AtomicStutter DEF Conflict, PlaceJournal, ApplyFails, stored, history
<1>2. CASE Read
  <2>1. /\ ~folder /\ UNCHANGED <<disk, folder>> /\ touched' = {} /\ journal = "none"
        /\ committed' = FALSE
    BY <1>2, Known DEF Read, stored, Phase, Typed, TypeOK
  <2>2. InForce = disk
    BY <2>1, Known, ShownInForce DEF Decisive
  <2>3. edit'.old = disk
    <3>1. PICK creates, deletes, renames :
            edit' = [NoEdit EXCEPT !.creates = creates, !.deletes = deletes, !.renames = renames]
      BY <1>2, Zenon DEF Read
    <3>2. QED
      BY <3>1 DEF NoEdit
  <2>4. InForce' = disk
    BY <2>1, <2>3, Known DEF InForce, Decided, Typed, TypeOK
  <2>5. QED
    BY <2>1, <2>2, <2>4 DEF Atomic!Look, Atomic!Next
<1>3. CASE MakeFolder \/ PrepareFails
  <2>1. UNCHANGED <<disk, committed, touched>> /\ edit'.old = edit.old /\ edit'.new = edit.new
    BY <1>3, Known DEF MakeFolder, PrepareFails, history, Typed, Edits
  <2>2. UNCHANGED <<disk, InForce, touched>>
    BY <2>1 DEF InForce, Decided
  <2>3. folder' = folder \/ (~folder /\ folder' = TRUE)
    <3>1. folder \in BOOLEAN /\ (folder' = folder \/ folder' = TRUE)
      BY <1>3, Known DEF MakeFolder, PrepareFails, Typed, TypeOK
    <3>2. QED
      BY <3>1
  <2>4. QED
    BY <2>2, <2>3 DEF Atomic!Begin, Atomic!Next, Atomic!vars
<1>4. CASE PublishPrepared
  <2>1. UNCHANGED <<disk, folder, committed, touched>> /\ ~committed /\ journal = "empty"
    BY <1>4, Known DEF PublishPrepared, history, Phase
  <2>2. InForce = disk
    BY <2>1, Known, ShownInForce DEF Decisive
  <2>3. edit' = edit \/ edit'.old = disk
    BY <1>4, Known DEF PublishPrepared, Typed, Edits
  <2>4. InForce' = disk
    <3>1. CASE edit' = edit
      BY <2>1, <2>2, <3>1 DEF InForce, Decided
    <3>2. CASE edit'.old = disk
      BY <2>1, <3>2, Known DEF InForce, Decided, Typed, TypeOK
    <3>3. QED
      BY <2>3, <3>1, <3>2
  <2>5. QED
    BY <2>1, <2>2, <2>4 DEF Atomic!vars
<1>5. CASE Create \/ Delete \/ MoveTarget \/ MoveSource
  <2>1. pc \in {"creating", "deleting", "renaming"} /\ UNCHANGED <<folder, edit, committed, touched>>
    BY <1>5 DEF Create, Delete, MoveTarget, MoveSource, stored, history
  <2>2. folder
    BY <2>1, Known DEF Phase, Typed, TypeOK
  <2>3. QED
    BY <2>1, <2>2, AtomicMove DEF Atomic!Next
<1>6. CASE Commit \/ CommitFails
  <2>1. pc = "committing" /\ UNCHANGED <<disk, folder, edit, touched>>
        /\ (UNCHANGED committed \/ committed' = TRUE)
    BY <1>6 DEF Commit, CommitFails
  <2>2. CASE UNCHANGED committed
    BY <2>1, <2>2, AtomicStutter
  <2>3. CASE committed' = TRUE
    BY <2>1, <2>3, AtomicDecision DEF Atomic!Next
  <2>4. QED
    BY <2>1, <2>2, <2>3
<1>7. QED
  BY <1>1, <1>2, <1>3, <1>4, <1>5, <1>6 DEF Apply

(* Every step is a step of the atomic edit or a stutter. *)
LEMMA AtomicStep == IInv /\ [Next]_vars => [Atomic!Next]_(Atomic!vars)
<1> SUFFICES ASSUME IInv, [Next]_vars PROVE Atomic!Next \/ UNCHANGED Atomic!vars
  OBVIOUS
<1>0. Typed'
  BY Inductive DEF IInv
<1>1. CASE Recovery
  BY <1>0, <1>1, AtomicRecovery
<1>2. CASE Apply
  BY <1>0, <1>2, AtomicApply
<1>3. CASE Request \/ NextPhase \/ Crash \/ Restart \/ UNCHANGED vars
  BY <1>3, AtomicStutter DEF Request, NextPhase, Crash, Restart, vars, stored, history
<1>4. CASE ForeignWrite
  <2>1. PICK p \in Dirs : \E c \in Contents \ {disk[p]} :
          disk' = [disk EXCEPT ![p] = c] /\ touched' = touched \cup Partners(p)
    BY <1>4, Zenon DEF ForeignWrite
  <2>2. UNCHANGED <<folder, edit, committed>>
    BY <1>4 DEF ForeignWrite, stored
  <2>3. touched' \in SUBSET Dirs /\ touched \subseteq touched' /\ disk' \in [Dirs -> Contents]
    BY <1>0, <2>1 DEF Typed, TypeOK
  <2>4. \A q \in Dirs \ touched' : disk'[q] = disk[q]
    BY <2>1, Known DEF Partners, Typed, TypeOK
  <2>5. InForce' = [q \in Dirs |-> IF q \in touched' THEN disk'[q] ELSE InForce[q]]
    BY <2>2, <2>3 DEF InForce, Decided
  <2>6. QED
    BY <2>2, <2>3, <2>4, <2>5 DEF Atomic!Others, Atomic!Next
<1>5. QED
  BY <1>1, <1>2, <1>3, <1>4 DEF Next

(* An edit of directories is one step for whoever looks at the workspace,     *)
(* through every crash, error and recovery: DirectoryTransaction implements   *)
(* AtomicEdit. *)
THEOREM Refinement == Spec => DirectoriesAtomic
<1>1. Init => Atomic!Init
  <2> SUFFICES ASSUME Init PROVE Atomic!Init
    OBVIOUS
  <2>1. IInv /\ journal = "none"
    BY Initial DEF Init
  <2>2. InForce = disk
    BY <2>1, ShownInForce DEF IInv, Decisive
  <2>3. QED
    BY <2>1, <2>2 DEF Init, IInv, Typed, TypeOK, Atomic!Init
<1>2. IInv /\ [Next]_vars => [Atomic!Next]_(Atomic!vars)
  BY AtomicStep
<1>3. QED
  BY <1>1, <1>2, Invariance, PTL DEF Spec, DirectoriesAtomic, Atomic!Spec

-----------------------------------------------------------------------------
(* The log of a device: its queue of batches.                                 *)

\* A set of naturals that has an element has a least one.
LEMMA LeastNatural ==
    ASSUME NEW S \in SUBSET Nat, S # {}
    PROVE  \E x \in S : \A y \in S : x <= y
<1> DEFINE R == {ss \in Nat \X Nat : ss[1] < ss[2]}
<1>1. IsWellFoundedOn(R, Nat)
  BY NatLessThanWellFounded DEF OpToRel
<1> HIDE DEF R
<1>2. PICK x \in S : \A y \in S : ~ (<<y, x>> \in R)
  BY <1>1, WFMin
<1>3. ASSUME NEW y \in S PROVE x <= y
  <2>1. ~ (<<y, x>> \in R)
    BY <1>2
  <2>2. ~ (y < x)
    BY <2>1 DEF R
  <2> QED BY <2>2
<1> QED BY <1>3

\* What holds of 0 and of the successor of whatever it holds of holds of every natural.
LEMMA AllNaturals ==
    ASSUME NEW S \in SUBSET Nat, 0 \in S, \A n \in S : n + 1 \in S
    PROVE  S = Nat
<1> SUFFICES ASSUME Nat \ S # {} PROVE FALSE
  OBVIOUS
<1>1. PICK x \in Nat \ S : \A y \in Nat \ S : x <= y
  BY LeastNatural
<1>2. x # 0 /\ x - 1 \in Nat
  BY <1>1
<1>3. x - 1 \in S
  BY <1>1, <1>2
<1> QED BY <1>1, <1>2, <1>3

\* The sums of FlattenSeq, up to the n-th sequence.
Sums(f, q, n) == f = [i \in 1..n |-> IF i = 1 THEN q[i] ELSE f[i - 1] \o q[i]]

\* There are such sums.
LEMMA SumsExist ==
    ASSUME NEW q, NEW n \in Nat
    PROVE  \E f : Sums(f, q, n)
<1> DEFINE S == {m \in Nat : \E f : Sums(f, q, m)}
<1>1. 0 \in S
  <2> DEFINE f == [i \in 1..0 |-> <<>>]
  <2>1. 1..0 = {}
    OBVIOUS
  <2>2. f = [i \in 1..0 |-> IF i = 1 THEN q[i] ELSE f[i - 1] \o q[i]]
    BY <2>1
  <2> QED BY <2>2 DEF Sums
<1>2. ASSUME NEW m \in S PROVE m + 1 \in S
  <2>1. PICK f : Sums(f, q, m)
    OBVIOUS
  <2> DEFINE g == [i \in 1..(m + 1) |-> IF i = m + 1 THEN (IF i = 1 THEN q[i] ELSE f[i - 1] \o q[i])
                                         ELSE f[i]]
  <2>2. ASSUME NEW i \in 1..(m + 1)
        PROVE  g[i] = IF i = 1 THEN q[i] ELSE g[i - 1] \o q[i]
    <3>1. CASE i = m + 1
      <4>1. i # 1 => i - 1 \in 1..(m + 1) /\ i - 1 # m + 1
        BY <3>1
      <4>2. i # 1 => g[i - 1] = f[i - 1]
        BY <4>1
      <4> QED BY <3>1, <4>2
    <3>2. CASE i # m + 1
      <4>1. i \in 1..m /\ g[i] = f[i]
        BY <3>2
      <4>2. f[i] = IF i = 1 THEN q[i] ELSE f[i - 1] \o q[i]
        BY <2>1, <4>1 DEF Sums
      <4>3. i # 1 => i - 1 \in 1..(m + 1) /\ i - 1 # m + 1
        BY <4>1
      <4>4. i # 1 => g[i - 1] = f[i - 1]
        BY <4>3
      <4> QED BY <4>1, <4>2, <4>4
    <3> QED BY <3>1, <3>2
  <2>3. g = [i \in 1..(m + 1) |-> IF i = 1 THEN q[i] ELSE g[i - 1] \o q[i]]
    <3> DEFINE h == [i \in 1..(m + 1) |-> IF i = 1 THEN q[i] ELSE g[i - 1] \o q[i]]
    <3>1. \A i \in 1..(m + 1) : g[i] = h[i]
      BY <2>2
    <3>2. DOMAIN g = 1..(m + 1) /\ DOMAIN h = 1..(m + 1)
      OBVIOUS
    <3>3. g = [i \in 1..(m + 1) |-> g[i]] /\ h = [i \in 1..(m + 1) |-> h[i]]
      OBVIOUS
    <3> HIDE DEF g, h
    <3>4. [i \in 1..(m + 1) |-> g[i]] = [i \in 1..(m + 1) |-> h[i]]
      BY <3>1
    <3>5. g = h
      BY <3>3, <3>4
    <3> QED BY <3>5 DEF h
  <2> HIDE DEF g
  <2>4. Sums(g, q, m + 1)
    BY <2>3 DEF Sums
  <2>5. m + 1 \in Nat
    OBVIOUS
  <2> QED BY <2>4, <2>5
<1> HIDE DEF S
<1>3. S = Nat
  <2>1. S \in SUBSET Nat
    BY DEF S
  <2> QED BY <1>1, <1>2, <2>1, AllNaturals
<1> QED BY <1>3 DEF S

\* p begins as q does, as far as n.
Alike(p, q, n) == \A i \in 1..n : p[i] = q[i]

\* The sums of sequences that begin alike are alike.
LEMMA SumsAgree ==
    ASSUME NEW p, NEW q, NEW f, NEW g, NEW m \in Nat, NEW n \in Nat,
           n <= m, Alike(p, q, n), Sums(f, p, m), Sums(g, q, n), NEW j \in 1..n
    PROVE  f[j] = g[j]
<1> DEFINE S == {k \in Nat : k + 1 \in 1..n => f[k + 1] = g[k + 1]}
<1>1. 0 \in S
  <2>1. 1 \in 1..n => f[1] = p[1] /\ g[1] = q[1]
    BY DEF Sums
  <2>2. 1 \in 1..n => p[1] = q[1]
    BY DEF Alike
  <2> QED BY <2>1, <2>2
<1>2. ASSUME NEW k \in S PROVE k + 1 \in S
  <2> DEFINE i == (k + 1) + 1
  <2> SUFFICES ASSUME i \in 1..n PROVE f[i] = g[i]
    OBVIOUS
  <2>1. i - 1 = k + 1 /\ k + 1 \in 1..n /\ i # 1 /\ i \in 1..m
    OBVIOUS
  <2>2. f[k + 1] = g[k + 1]
    BY <2>1
  <2> HIDE DEF i
  <2>3. f[i] = f[i - 1] \o p[i] /\ g[i] = g[i - 1] \o q[i] /\ p[i] = q[i]
    BY <2>1 DEF Sums, Alike
  <2> QED BY <2>1, <2>2, <2>3
<1> HIDE DEF S
<1>3. S = Nat
  <2>1. S \in SUBSET Nat
    BY DEF S
  <2> QED BY <1>1, <1>2, <2>1, AllNaturals
<1>4. j - 1 \in S /\ (j - 1) + 1 = j
  BY <1>3
<1> QED BY <1>4 DEF S

\* FlattenSeq is the last of the sums.
LEMMA FlattenIs ==
    ASSUME NEW q, Len(q) \in Nat, Len(q) # 0, NEW f, Sums(f, q, Len(q))
    PROVE  Log!FlattenSeq(q) = f[Len(q)]
<1> DEFINE n == Len(q)
           g == CHOOSE g : Sums(g, q, n)
<1>1. Sums(g, q, n)
  OBVIOUS
<1>2. Log!FlattenSeq(q) = g[n]
  BY DEF Log!FlattenSeq, Sums
<1>3. n \in Nat /\ n <= n /\ n \in 1..n /\ Sums(f, q, n)
  OBVIOUS
<1> HIDE DEF g, n
<1>4. g[n] = f[n]
  <2>1. Alike(q, q, n)
    BY DEF Alike
  <2> QED BY <1>1, <1>3, <2>1, SumsAgree
<1> QED BY <1>2, <1>3, <1>4 DEF n

\* Nothing is flattened to nothing.
LEMMA FlattenEmpty == Log!FlattenSeq(<<>>) = <<>>
BY DEF Log!FlattenSeq

\* What is added at the end comes at the end.
LEMMA FlattenAppend ==
    ASSUME NEW S, NEW q \in Seq(Seq(S)), NEW x \in Seq(S)
    PROVE  Log!FlattenSeq(Append(q, x)) = Log!FlattenSeq(q) \o x
<1> DEFINE n == Len(q)
           m == n + 1
           p == Append(q, x)
<1>1. /\ n \in Nat /\ m \in Nat /\ n <= m /\ Len(p) = m /\ m # 0 /\ m - 1 = n /\ m \in 1..m
      /\ Alike(p, q, n) /\ p[m] = x
  BY DEF Alike
<1>2. n = 0 => q = <<>>
  BY EmptySeq
<1> HIDE DEF p, m
<1>3. PICK f : Sums(f, p, m)
  BY <1>1, SumsExist, Zenon
<1>4. Log!FlattenSeq(p) = f[m]
  <2>1. Sums(f, p, Len(p)) /\ Len(p) \in Nat /\ Len(p) # 0
    BY <1>1, <1>3
  <2>2. Log!FlattenSeq(p) = f[Len(p)]
    BY <2>1, FlattenIs, Zenon
  <2> QED BY <1>1, <2>2
<1>5. f[m] = IF m = 1 THEN p[m] ELSE f[n] \o p[m]
  BY <1>1, <1>3 DEF Sums
<1>6. CASE n = 0
  <2>1. m = 1
    BY <1>6 DEF m
  <2>2. Log!FlattenSeq(q) \o x = x
    BY <1>2, <1>6, FlattenEmpty
  <2> QED BY <1>1, <1>4, <1>5, <2>1, <2>2 DEF p
<1>7. CASE n # 0
  <2>1. PICK g : Sums(g, q, n)
    BY <1>1, SumsExist, Zenon
  <2>2. Log!FlattenSeq(q) = g[n]
    BY <1>1, <1>7, <2>1, FlattenIs, Zenon
  <2>4. n \in 1..n /\ m # 1
    BY <1>1, <1>7 DEF m
  <2>5. f[n] = g[n]
    <3> HIDE DEF n
    <3> QED BY <1>1, <1>3, <2>1, <2>4, SumsAgree
  <2> QED BY <1>1, <1>4, <1>5, <2>2, <2>4, <2>5 DEF p
<1> QED BY <1>6, <1>7

\* A sequence that is not empty ends in its last element.
LEMMA LastOfSeq ==
    ASSUME NEW S, NEW q \in Seq(S), q # <<>>
    PROVE  \E r \in Seq(S), x \in S : q = Append(r, x) /\ Len(r) = Len(q) - 1
<1> DEFINE n == Len(q)
           r == [i \in 1..(n - 1) |-> q[i]]
<1>1. n \in Nat /\ n # 0 /\ n - 1 \in Nat /\ q \in [1..n -> S]
  BY EmptySeq
<1>2. r \in Seq(S) /\ Len(r) = n - 1 /\ \A i \in 1..(n - 1) : r[i] = q[i]
  BY <1>1
<1>3. q[n] \in S
  BY <1>1
<1>4. q = Append(r, q[n])
  <2>1. Append(r, q[n]) \in Seq(S) /\ Len(Append(r, q[n])) = n
    BY <1>1, <1>2, <1>3
  <2>2. ASSUME NEW i \in 1..n PROVE Append(r, q[n])[i] = q[i]
    <3>1. CASE i = n
      BY <1>1, <1>2, <1>3, <3>1
    <3>2. CASE i # n
      <4> HIDE DEF r
      <4>1. i \in 1..(n - 1)
        <5> HIDE DEF n
        <5> QED BY <1>1, <3>2
      <4>2. r[i] = q[i]
        BY <1>2, <4>1
      <4> QED BY <1>1, <1>2, <1>3, <4>1, <4>2
    <3> QED BY <3>1, <3>2
  <2> QED BY <2>1, <2>2, SeqEqual
<1> QED BY <1>2, <1>3, <1>4

\* The same of sequences of sequences.
LEMMA LastPart ==
    ASSUME NEW S, NEW q \in Seq(Seq(S)), NEW n \in Nat, Len(q) = n + 1
    PROVE  \E r \in Seq(Seq(S)), x \in Seq(S) : q = Append(r, x) /\ Len(r) = n
<1> DEFINE T == Seq(S)
<1>1. q # <<>> /\ Len(q) - 1 = n
  BY EmptySeq
<1> HIDE DEF T
<1>2. q \in Seq(T)
  BY DEF T
<1>3. \E r \in Seq(T), x \in T : q = Append(r, x) /\ Len(r) = Len(q) - 1
  BY <1>1, <1>2, LastOfSeq, Zenon
<1> QED BY <1>1, <1>3 DEF T

\* What is flattened is a sequence of the same elements,
LEMMA FlattenType ==
    ASSUME NEW S
    PROVE  \A q \in Seq(Seq(S)) : Log!FlattenSeq(q) \in Seq(S)
<1> DEFINE K == {n \in Nat : \A q \in Seq(Seq(S)) : Len(q) = n => Log!FlattenSeq(q) \in Seq(S)}
<1>1. 0 \in K
  <2>1. \A q \in Seq(Seq(S)) : Len(q) = 0 => q = <<>>
    BY EmptySeq
  <2>2. <<>> \in Seq(S)
    OBVIOUS
  <2> QED BY <2>1, <2>2, FlattenEmpty
<1>2. ASSUME NEW n \in K PROVE n + 1 \in K
  <2> SUFFICES ASSUME NEW q \in Seq(Seq(S)), Len(q) = n + 1 PROVE Log!FlattenSeq(q) \in Seq(S)
    OBVIOUS
  <2>1. n \in Nat
    OBVIOUS
  <2>2. PICK r \in Seq(Seq(S)), x \in Seq(S) : q = Append(r, x) /\ Len(r) = n
    BY <2>1, LastPart
  <2>3. Log!FlattenSeq(r) \in Seq(S)
    BY <2>2
  <2>4. Log!FlattenSeq(q) = Log!FlattenSeq(r) \o x
    BY <2>2, FlattenAppend
  <2> QED BY <2>3, <2>4
<1> HIDE DEF K
<1>3. K = Nat
  <2>1. K \in SUBSET Nat
    BY DEF K
  <2> QED BY <1>1, <1>2, <2>1, AllNaturals
<1> QED BY <1>3 DEF K

\* and begins with the first of its parts.
LEMMA FlattenHead ==
    ASSUME NEW S
    PROVE  \A q \in Seq(Seq(S)) :
             q # <<>> => Log!FlattenSeq(q) = Head(q) \o Log!FlattenSeq(Tail(q))
<1> DEFINE Splits(q) == Log!FlattenSeq(q) = Head(q) \o Log!FlattenSeq(Tail(q))
           K == {n \in Nat : \A q \in Seq(Seq(S)) : Len(q) = n + 1 => Splits(q)}
<1>1. ASSUME NEW r \in Seq(Seq(S)), NEW x \in Seq(S), r # <<>> => Splits(r)
      PROVE  Splits(Append(r, x))
  <2>1. CASE r = <<>>
    <3>1. Head(Append(r, x)) = x /\ Tail(Append(r, x)) = <<>> /\ x \o <<>> = x /\ <<>> \o x = x
      BY <2>1
    <3>2. Log!FlattenSeq(Append(r, x)) = Log!FlattenSeq(r) \o x
      BY FlattenAppend
    <3> QED BY <2>1, <3>1, <3>2, FlattenEmpty
  <2>2. CASE r # <<>>
    <3>1. /\ Head(Append(r, x)) = Head(r) /\ Tail(Append(r, x)) = Append(Tail(r), x)
          /\ Head(r) \in Seq(S) /\ Tail(r) \in Seq(Seq(S))
      <4> DEFINE T == Seq(S)
      <4> HIDE DEF T
      <4>1. r \in Seq(T) /\ x \in T
        BY DEF T
      <4>2. Head(r) \in T /\ Tail(r) \in Seq(T) /\ Head(Append(r, x)) = Head(r)
        BY <2>2, <4>1
      <4>3. Tail(Append(r, x)) = Append(Tail(r), x)
        BY <2>2, <4>1
      <4> QED BY <4>2, <4>3 DEF T
    <3>2. /\ Log!FlattenSeq(Append(r, x)) = Log!FlattenSeq(r) \o x
          /\ Log!FlattenSeq(Append(Tail(r), x)) = Log!FlattenSeq(Tail(r)) \o x
      BY <3>1, FlattenAppend
    <3>3. Log!FlattenSeq(Tail(r)) \in Seq(S)
      BY <3>1, FlattenType
    <3>4. Log!FlattenSeq(r) \o x = Head(r) \o (Log!FlattenSeq(Tail(r)) \o x)
      <4>1. Log!FlattenSeq(r) = Head(r) \o Log!FlattenSeq(Tail(r))
        BY <1>1, <2>2
      <4> DEFINE a == Head(r)
                 b == Log!FlattenSeq(Tail(r))
      <4>2. a \in Seq(S) /\ b \in Seq(S)
        BY <3>1, <3>3
      <4> HIDE DEF a, b
      <4>3. (a \o b) \o x = a \o (b \o x)
        BY <4>2, ConcatAssociative
      <4> QED BY <4>1, <4>3 DEF a, b
    <3> QED BY <3>1, <3>2, <3>4
  <2> QED BY <2>1, <2>2
<1> HIDE DEF Splits
<1>2. 0 \in K
  <2> SUFFICES ASSUME NEW q \in Seq(Seq(S)), Len(q) = 0 + 1 PROVE Splits(q)
    OBVIOUS
  <2>1. PICK r \in Seq(Seq(S)), x \in Seq(S) : q = Append(r, x) /\ Len(r) = 0
    BY LastPart
  <2>2. r = <<>>
    BY <2>1, EmptySeq
  <2> QED BY <1>1, <2>1, <2>2
<1>3. ASSUME NEW n \in K PROVE n + 1 \in K
  <2> SUFFICES ASSUME NEW q \in Seq(Seq(S)), Len(q) = (n + 1) + 1 PROVE Splits(q)
    OBVIOUS
  <2>1. n \in Nat /\ n + 1 \in Nat
    OBVIOUS
  <2>2. PICK r \in Seq(Seq(S)), x \in Seq(S) : q = Append(r, x) /\ Len(r) = n + 1
    BY <2>1, LastPart
  <2>3. Splits(r)
    BY <2>2
  <2> QED BY <1>1, <2>2, <2>3
<1> HIDE DEF K
<1>4. K = Nat
  <2>1. K \in SUBSET Nat
    BY DEF K
  <2> QED BY <1>2, <1>3, <2>1, AllNaturals
<1>5. ASSUME NEW q \in Seq(Seq(S)), q # <<>> PROVE Splits(q)
  <2>1. Len(q) - 1 \in K /\ (Len(q) - 1) + 1 = Len(q)
    BY <1>4, <1>5, EmptySeq
  <2> QED BY <2>1 DEF K
<1> QED BY <1>5 DEF Splits

-----------------------------------------------------------------------------
(* Its counters.                                                              *)

\* What the reader and the writer of a stream keep.
Printed == Nat \ {0}
Batches == Seq(Printed) \ {<<>>}
Jobs    == [lines : Seq(Printed), off : Nat, first : Nat]
Writers == [linked : BOOLEAN, off : Nat, seq : Nat, entered : BOOLEAN]
Counters == [ingested : Nat, persisted : Nat, dropped : Nat, pending : Nat]

WriterTyped ==
    /\ printed \in Nat
    /\ pipe \in [Log!Streams -> Seq(Printed)] /\ handing \in [Log!Streams -> Seq(Printed)]
    /\ queue \in [Log!Streams -> Seq(Batches)]
    /\ job \in [Log!Streams -> Jobs] /\ writer \in [Log!Streams -> Writers]
    /\ \A s \in Log!Streams : job[s] # Log!NoJob => job[s].lines # <<>>
    /\ segment \in [Log!Streams -> Seq(Nat)]
    /\ stats \in [Log!Streams -> Counters]

\* The lines of a stream on their way, and its batches.
Flying(s)  == Len(handing[s]) + Len(Log!FlattenSeq(queue[s])) + Len(job[s].lines)
Batched(s) == Len(queue[s]) + (IF handing[s] = <<>> THEN 0 ELSE 1)
                            + (IF job[s] = Log!NoJob THEN 0 ELSE 1)
Counted(s) == /\ stats[s].ingested = stats[s].persisted + stats[s].dropped + Flying(s)
              /\ stats[s].pending = Batched(s)

\* The inductive invariant.
CountInv == WriterTyped /\ \A s \in Log!Streams : Counted(s)

\* The number of lines in the batches of a queue.
LEMMA QueueLength ==
    ASSUME NEW q \in Seq(Batches)
    PROVE  /\ Log!FlattenSeq(q) \in Seq(Printed)
           /\ \A x \in Batches : Len(Log!FlattenSeq(Append(q, x))) = Len(Log!FlattenSeq(q)) + Len(x)
           /\ q # <<>> => /\ Head(q) \in Batches /\ Tail(q) \in Seq(Batches)
                          /\ Len(Tail(q)) = Len(q) - 1
                          /\ Len(Log!FlattenSeq(q)) = Len(Head(q)) + Len(Log!FlattenSeq(Tail(q)))
<1>1. q \in Seq(Seq(Printed)) /\ Batches \subseteq Seq(Printed)
  BY SeqMonotonic DEF Batches
<1>2. Log!FlattenSeq(q) \in Seq(Printed)
  BY <1>1, FlattenType
<1>3. ASSUME NEW x \in Batches
      PROVE  Len(Log!FlattenSeq(Append(q, x))) = Len(Log!FlattenSeq(q)) + Len(x)
  <2>1. Log!FlattenSeq(Append(q, x)) = Log!FlattenSeq(q) \o x /\ x \in Seq(Printed)
    BY <1>1, FlattenAppend
  <2> QED BY <1>2, <2>1
<1>4. ASSUME q # <<>>
      PROVE  /\ Head(q) \in Batches /\ Tail(q) \in Seq(Batches)
             /\ Len(Tail(q)) = Len(q) - 1
             /\ Len(Log!FlattenSeq(q)) = Len(Head(q)) + Len(Log!FlattenSeq(Tail(q)))
  <2>1. Head(q) \in Batches /\ Tail(q) \in Seq(Batches) /\ Len(Tail(q)) = Len(q) - 1
    BY <1>4, HeadTailProperties
  <2>2. Tail(q) \in Seq(Seq(Printed)) /\ Head(q) \in Seq(Printed)
    BY <2>1, <1>1, SeqMonotonic
  <2>3. Log!FlattenSeq(Tail(q)) \in Seq(Printed)
    BY <2>2, FlattenType
  <2>4. Log!FlattenSeq(q) = Head(q) \o Log!FlattenSeq(Tail(q))
    BY <1>1, <1>4, FlattenHead
  <2> QED BY <2>1, <2>2, <2>3, <2>4
<1> QED BY <1>2, <1>3, <1>4

\* Flying counts the lines in flight.
LEMMA FlyingType ==
    ASSUME WriterTyped, NEW s \in Log!Streams
    PROVE  /\ Len(handing[s]) \in Nat /\ Len(Log!FlattenSeq(queue[s])) \in Nat
           /\ Len(job[s].lines) \in Nat /\ Len(queue[s]) \in Nat
           /\ Flying(s) \in Nat /\ Batched(s) \in Nat /\ Flying(s) = Len(Log!InFlight(s))
<1>1. handing[s] \in Seq(Printed) /\ queue[s] \in Seq(Batches) /\ job[s].lines \in Seq(Printed)
  BY DEF WriterTyped, Jobs
<1>2. Log!FlattenSeq(queue[s]) \in Seq(Printed)
  BY <1>1, QueueLength
<1> DEFINE a == handing[s]
           b == Log!FlattenSeq(queue[s])
           c == job[s].lines
<1>3. a \in Seq(Printed) /\ b \in Seq(Printed) /\ c \in Seq(Printed) /\ Len(queue[s]) \in Nat
  BY <1>1, <1>2
<1> HIDE DEF a, b, c
<1>4. /\ Len(a) \in Nat /\ Len(b) \in Nat /\ Len(c) \in Nat
      /\ Len((a \o b) \o c) = Len(a) + Len(b) + Len(c)
  BY <1>3
<1>5. Flying(s) = Len(a) + Len(b) + Len(c) /\ Log!InFlight(s) = (a \o b) \o c
  BY DEF a, b, c, Flying, Log!InFlight
<1>6. Flying(s) \in Nat /\ Flying(s) = Len(Log!InFlight(s))
  BY <1>4, <1>5
<1>7. Batched(s) \in Nat
  <2> DEFINE d == IF handing[s] = <<>> THEN 0 ELSE 1
             e == IF job[s] = Log!NoJob THEN 0 ELSE 1
  <2>2. d \in Nat /\ e \in Nat
    OBVIOUS
  <2> HIDE DEF d, e
  <2>3. Len(queue[s]) + d + e \in Nat
    BY <1>3, <2>2
  <2> QED BY <2>3 DEF Batched, d, e
<1> QED BY <1>3, <1>4, <1>6, <1>7 DEF a, b, c

\* It holds initially.
LEMMA CountInitial == Log!Init => CountInv
<1> SUFFICES ASSUME Log!Init PROVE CountInv
  OBVIOUS
<1>1. WriterTyped
  BY DEF WriterTyped, Jobs, Writers, Counters, Batches, Log!Init, Log!NoJob, Log!Closed,
     Log!NoStats, Log!Gone
<1>2. ASSUME NEW s \in Log!Streams PROVE Counted(s)
  BY FlattenEmpty DEF Counted, Flying, Batched, Log!Init, Log!NoJob, Log!NoStats
<1> QED BY <1>1, <1>2 DEF CountInv

\* A step that leaves the ways of the lines and the counters alone.
LEMMA CountKept ==
    ASSUME CountInv, UNCHANGED <<handing, queue, job, stats>>, pipe' \in [Log!Streams -> Seq(Printed)],
           printed' \in Nat, writer' \in [Log!Streams -> Writers],
           segment' \in [Log!Streams -> Seq(Nat)]
    PROVE  CountInv'
<1>1. WriterTyped'
  BY DEF CountInv, WriterTyped, Log!Streams
<1>2. ASSUME NEW s \in Log!Streams PROVE Counted(s)'
  BY DEF CountInv, Counted, Flying, Batched
<1> QED BY <1>1, <1>2 DEF CountInv, Log!Streams

\* A step on the way of one stream.
LEMMA CountChanged ==
    ASSUME CountInv, NEW s \in Log!Streams, WriterTyped', Counted(s)',
           \A u \in Log!Streams \ {s} :
              /\ handing'[u] = handing[u] /\ queue'[u] = queue[u] /\ job'[u] = job[u]
              /\ stats'[u] = stats[u]
    PROVE  CountInv'
<1>1. ASSUME NEW u \in Log!Streams PROVE Counted(u)'
  <2>1. CASE u = s
    BY <2>1
  <2>2. CASE u # s
    BY <2>2 DEF CountInv, Counted, Flying, Batched
  <2> QED BY <2>1, <2>2
<1> QED BY <1>1 DEF CountInv, Log!Streams

\* The reader counts the lines of a batch as it hands it over,
LEMMA FlushCounted ==
    ASSUME CountInv, NEW s \in Log!Streams, Log!Flush(s)
    PROVE  CountInv'
<1> USE DEF CountInv
<1>1. PICK n \in 1..MaxBatch :
        /\ n <= Len(pipe[s])
        /\ handing' = [handing EXCEPT ![s] = SubSeq(pipe[s], 1, n)]
        /\ pipe' = [pipe EXCEPT ![s] = SubSeq(@, n + 1, Len(@))]
        /\ stats' = [stats EXCEPT ![s].ingested = @ + n, ![s].pending = @ + 1]
  BY DEF Log!Flush
<1>2. n \in Nat \ {0} /\ pipe[s] \in Seq(Printed)
  BY DEF WriterTyped
<1>3. /\ SubSeq(pipe[s], 1, n) \in Seq(Printed) /\ Len(SubSeq(pipe[s], 1, n)) = n
      /\ SubSeq(pipe[s], n + 1, Len(pipe[s])) \in Seq(Printed) /\ SubSeq(pipe[s], 1, n) # <<>>
  <2> DEFINE p == pipe[s]
  <2>1. p \in Seq(Printed) /\ n \in Nat /\ n # 0 /\ n <= Len(p)
    BY <1>1, <1>2
  <2> HIDE DEF p
  <2>2. SubSeq(p, 1, n) \in Seq(Printed) /\ Len(SubSeq(p, 1, n)) = n
    BY <2>1
  <2>3. SubSeq(p, n + 1, Len(p)) \in Seq(Printed)
    BY <2>1
  <2>4. SubSeq(p, 1, n) # <<>>
    BY <2>1, <2>2
  <2> QED BY <2>2, <2>3, <2>4 DEF p
<1>4. /\ UNCHANGED <<queue, job, writer, segment, printed>> /\ handing[s] = <<>>
  BY DEF Log!Flush, Log!counts, Log!stored
<1>5. stats'[s] \in Counters /\ stats'[s].ingested = stats[s].ingested + n
      /\ stats'[s].pending = stats[s].pending + 1
      /\ stats'[s].persisted = stats[s].persisted /\ stats'[s].dropped = stats[s].dropped
  <2>1. stats[s] \in Counters
    BY DEF WriterTyped
  <2>2. stats'[s] = [stats[s] EXCEPT !.ingested = @ + n, !.pending = @ + 1]
    BY <1>1 DEF WriterTyped
  <2> DEFINE r == stats[s]
  <2>3. stats'[s] = [ingested |-> r.ingested + n, persisted |-> r.persisted,
                     dropped |-> r.dropped, pending |-> r.pending + 1]
    BY <2>1, <2>2 DEF Counters
  <2>4. r.ingested + n \in Nat /\ r.pending + 1 \in Nat /\ r.persisted \in Nat /\ r.dropped \in Nat
    BY <1>2, <2>1 DEF Counters
  <2> QED BY <2>3, <2>4 DEF Counters
<1>6. \A u \in Log!Streams \ {s} : stats'[u] = stats[u] /\ handing'[u] = handing[u]
  BY <1>1 DEF WriterTyped
<1>7. stats' \in [Log!Streams -> Counters]
  BY <1>1, <1>5, <1>6 DEF WriterTyped
<1>8. handing' \in [Log!Streams -> Seq(Printed)] /\ pipe' \in [Log!Streams -> Seq(Printed)]
  BY <1>1, <1>3 DEF WriterTyped
<1>9. WriterTyped'
  BY <1>4, <1>7, <1>8 DEF WriterTyped, Log!Streams
<1>10. Counted(s)'
  <2>1. handing'[s] = SubSeq(pipe[s], 1, n)
    BY <1>1 DEF WriterTyped
  <2>2. Len(handing'[s]) = n /\ Len(handing[s]) = 0 /\ handing'[s] # <<>>
    BY <1>3, <1>4, <2>1
  <2>3. Flying(s)' = Flying(s) + n
    <3> DEFINE b == Len(Log!FlattenSeq(queue[s]))
               c == Len(job[s].lines)
    <3>1. Flying(s) = 0 + b + c /\ Flying(s)' = n + b + c
      BY <1>4, <2>2 DEF Flying
    <3>2. b \in Nat /\ c \in Nat
      BY FlyingType
    <3> HIDE DEF b, c
    <3> QED BY <1>2, <3>1, <3>2
  <2>4. Batched(s)' = Batched(s) + 1
    <3> DEFINE e == IF job[s] = Log!NoJob THEN 0 ELSE 1
    <3>1. Batched(s) = Len(queue[s]) + 0 + e /\ Batched(s)' = Len(queue[s]) + 1 + e /\ e \in Nat
      BY <1>4, <2>2 DEF Batched
    <3> HIDE DEF e
    <3> QED BY <3>1, FlyingType
  <2>5. stats[s] \in Counters /\ Flying(s) \in Nat /\ Counted(s)
    BY FlyingType DEF WriterTyped
  <2> HIDE DEF CountInv
  <2> QED BY <1>2, <1>5, <2>3, <2>4, <2>5 DEF Counted, Counters
<1> QED BY <1>4, <1>6, <1>9, <1>10, CountChanged

\* which the queue then takes.
LEMMA SendCounted ==
    ASSUME CountInv, NEW s \in Log!Streams, Log!Send(s)
    PROVE  CountInv'
<1> USE DEF CountInv
<1> DEFINE x == handing[s]
<1>1. x \in Batches /\ queue[s] \in Seq(Batches)
  BY DEF Log!Send, WriterTyped, Batches
<1>2. /\ queue' = [queue EXCEPT ![s] = Append(@, x)] /\ handing' = [handing EXCEPT ![s] = <<>>]
      /\ UNCHANGED <<pipe, job, writer, segment, stats, printed>>
  BY DEF Log!Send, Log!counts, Log!stored
<1>3. queue'[s] = Append(queue[s], x) /\ handing'[s] = <<>>
  BY <1>2 DEF WriterTyped
<1>4. \A u \in Log!Streams \ {s} : queue'[u] = queue[u] /\ handing'[u] = handing[u]
  BY <1>2 DEF WriterTyped
<1>5. Append(queue[s], x) \in Seq(Batches) /\ Len(Append(queue[s], x)) = Len(queue[s]) + 1
  <2> HIDE DEF x
  <2> QED BY <1>1
<1>6. WriterTyped'
  <2>1. queue' \in [Log!Streams -> Seq(Batches)]
    BY <1>2, <1>5 DEF WriterTyped
  <2>2. handing' \in [Log!Streams -> Seq(Printed)]
    BY <1>2 DEF WriterTyped
  <2> QED BY <1>2, <2>1, <2>2 DEF WriterTyped, Log!Streams
<1>7. Counted(s)'
  <2>1. Len(Log!FlattenSeq(queue'[s])) = Len(Log!FlattenSeq(queue[s])) + Len(x)
    BY <1>1, <1>3, QueueLength
  <2>2. Len(handing'[s]) = 0 /\ x # <<>> /\ x = handing[s]
    BY <1>1, <1>3 DEF Batches
  <2>3. Flying(s)' = Flying(s) /\ Batched(s)' = Batched(s)
    <3> DEFINE b == Len(Log!FlattenSeq(queue[s]))
               c == Len(job[s].lines)
    <3>1. Flying(s)' = 0 + (b + Len(x)) + c
      BY <1>2, <2>1, <2>2 DEF Flying
    <3>2. Flying(s)' = Flying(s)
      <4>1. Flying(s) = Len(x) + b + c
        BY DEF Flying
      <4> HIDE DEF x
      <4>2. Len(x) \in Nat
        BY <1>1 DEF Batches
      <4>3. b \in Nat /\ c \in Nat
        BY FlyingType
      <4> HIDE DEF b, c
      <4> QED BY <3>1, <4>1, <4>2, <4>3
    <3>3. Len(queue'[s]) = Len(queue[s]) + 1
      BY <1>3, <1>5
    <3>4. Batched(s)' = Batched(s)
      <4> DEFINE e == IF job[s] = Log!NoJob THEN 0 ELSE 1
      <4>1. Batched(s) = Len(queue[s]) + 1 + e /\ e \in Nat
        BY <2>2 DEF Batched
      <4>2. Batched(s)' = (Len(queue[s]) + 1) + 0 + e
        BY <1>2, <1>3, <3>3 DEF Batched
      <4> HIDE DEF e
      <4> QED BY <4>1, <4>2, FlyingType
    <3> QED BY <3>2, <3>4
  <2> QED BY <1>2, <2>3 DEF Counted
<1> QED BY <1>2, <1>4, <1>6, <1>7, CountChanged

\* A batch is counted as written or as dropped.
LEMMA SettledCounters ==
    ASSUME WriterTyped, NEW s \in Log!Streams, NEW n \in Nat, NEW outcome \in {"persisted", "dropped"},
           Log!Settled(s, n, outcome), stats[s].pending # 0
    PROVE  /\ stats' \in [Log!Streams -> Counters]
           /\ \A u \in Log!Streams \ {s} : stats'[u] = stats[u]
           /\ stats'[s].ingested = stats[s].ingested
           /\ stats'[s].persisted + stats'[s].dropped = stats[s].persisted + stats[s].dropped + n
           /\ stats'[s].pending = stats[s].pending - 1
<1> DEFINE r == stats[s]
<1>1. /\ r \in Counters /\ r.ingested \in Nat /\ r.persisted \in Nat /\ r.dropped \in Nat
      /\ r.pending \in Nat /\ r.pending - 1 \in Nat
  BY DEF WriterTyped, Counters
<1>2. /\ stats'[s] = [[r EXCEPT ![outcome] = @ + n] EXCEPT !.pending = IF @ = 0 THEN 0 ELSE @ - 1]
      /\ \A u \in Log!Streams \ {s} : stats'[u] = stats[u]
      /\ stats' = [stats EXCEPT ![s] = stats'[s]]
  BY DEF Log!Settled, WriterTyped
<1>3. CASE outcome = "persisted"
  <2>1. stats'[s] = [ingested |-> r.ingested, persisted |-> r.persisted + n, dropped |-> r.dropped,
                     pending |-> r.pending - 1]
    BY <1>1, <1>2, <1>3 DEF Counters
  <2>2. stats'[s] \in Counters
    BY <1>1, <2>1 DEF Counters
  <2>3. stats' \in [Log!Streams -> Counters]
    BY <1>2, <2>2 DEF WriterTyped
  <2>4. /\ stats'[s].ingested = r.ingested /\ stats'[s].pending = r.pending - 1
        /\ stats'[s].persisted = r.persisted + n /\ stats'[s].dropped = r.dropped
    BY <2>1
  <2>5. stats'[s].persisted + stats'[s].dropped = r.persisted + r.dropped + n
    BY <1>1, <2>4
  <2> QED BY <1>2, <2>3, <2>4, <2>5
<1>4. CASE outcome = "dropped"
  <2>1. stats'[s] = [ingested |-> r.ingested, persisted |-> r.persisted, dropped |-> r.dropped + n,
                     pending |-> r.pending - 1]
    BY <1>1, <1>2, <1>4 DEF Counters
  <2>2. stats'[s] \in Counters
    BY <1>1, <2>1 DEF Counters
  <2>3. stats' \in [Log!Streams -> Counters]
    BY <1>2, <2>2 DEF WriterTyped
  <2>4. /\ stats'[s].ingested = r.ingested /\ stats'[s].pending = r.pending - 1
        /\ stats'[s].persisted = r.persisted /\ stats'[s].dropped = r.dropped + n
    BY <2>1
  <2>5. stats'[s].persisted + stats'[s].dropped = r.persisted + r.dropped + n
    BY <1>1, <2>4
  <2> QED BY <1>2, <2>3, <2>4, <2>5
<1> QED BY <1>3, <1>4

\* What is settled is one batch less on its way.
LEMMA SettledCounted ==
    ASSUME CountInv, NEW s \in Log!Streams, NEW n \in Nat, NEW outcome \in {"persisted", "dropped"},
           Log!Settled(s, n, outcome),
           Flying(s) = Flying(s)' + n, Batched(s) = Batched(s)' + 1, Flying(s)' \in Nat, Batched(s)' \in Nat
    PROVE  Counted(s)' /\ stats' \in [Log!Streams -> Counters]
           /\ \A u \in Log!Streams \ {s} : stats'[u] = stats[u]
<1>1. WriterTyped /\ Counted(s)
  BY DEF CountInv
<1>2. stats[s].pending # 0
  BY <1>1 DEF Counted
<1>3. /\ stats' \in [Log!Streams -> Counters]
      /\ \A u \in Log!Streams \ {s} : stats'[u] = stats[u]
      /\ stats'[s].ingested = stats[s].ingested
      /\ stats'[s].persisted + stats'[s].dropped = stats[s].persisted + stats[s].dropped + n
      /\ stats'[s].pending = stats[s].pending - 1
  BY <1>1, <1>2, SettledCounters
<1>4. /\ stats[s].persisted \in Nat /\ stats[s].dropped \in Nat
      /\ stats'[s].persisted \in Nat /\ stats'[s].dropped \in Nat
  BY <1>1, <1>3 DEF WriterTyped, Counters
<1>5. Counted(s)'
  BY <1>1, <1>3, <1>4 DEF Counted
<1> QED BY <1>3, <1>5

\* The file of a stream grows by lines.
LEMMA GrownType ==
    ASSUME WriterTyped, NEW s \in Log!Streams, NEW lines \in Seq(Printed), Log!Grown(s, lines)
    PROVE  segment' \in [Log!Streams -> Seq(Nat)]
<1>1. segment[s] \in Seq(Nat) /\ segment[s] \o lines \in Seq(Nat)
  <2>1. segment[s] \in Seq(Nat)
    BY DEF WriterTyped
  <2>2. lines \in Seq(Nat)
    BY SeqMonotonic DEF Printed
  <2> QED BY <2>1, <2>2
<1>2. segment' = [segment EXCEPT ![s] = segment[s] \o lines] \/ segment' = segment
  BY DEF Log!Grown
<1> DEFINE x == segment[s] \o lines
<1> HIDE DEF x
<1>3. segment' = [segment EXCEPT ![s] = x] \/ segment' = segment
  BY <1>2 DEF x
<1>4. x \in Seq(Nat)
  BY <1>1 DEF x
<1> QED BY <1>3, <1>4 DEF WriterTyped

\* The writer takes a batch from the queue,
LEMMA AppendCounted ==
    ASSUME CountInv, NEW s \in Log!Streams, Log!AppendLines(s)
    PROVE  CountInv'
<1>1. WriterTyped /\ queue[s] \in Seq(Batches) /\ writer[s] \in Writers
  BY DEF CountInv, WriterTyped
<1> DEFINE x == Head(queue[s])
           j == [lines |-> x, off |-> writer[s].off, first |-> writer[s].seq]
<1>2. /\ job[s] = Log!NoJob /\ queue[s] # <<>>
      /\ job' = [job EXCEPT ![s] = j] /\ queue' = [queue EXCEPT ![s] = Tail(@)]
      /\ writer' = [writer EXCEPT ![s].off = @ + Len(x), ![s].seq = @ + Len(x)]
      /\ UNCHANGED <<pipe, handing, stats, printed>> /\ Log!Grown(s, x)
  BY DEF Log!AppendLines, Log!counts
<1>3. /\ x \in Batches /\ Tail(queue[s]) \in Seq(Batches)
      /\ Len(Tail(queue[s])) = Len(queue[s]) - 1
      /\ Len(Log!FlattenSeq(queue[s])) = Len(x) + Len(Log!FlattenSeq(Tail(queue[s])))
  BY <1>1, <1>2, QueueLength
<1>4. Len(x) \in Nat /\ x \in Seq(Printed) /\ x # <<>>
  <2> HIDE DEF x
  <2> QED BY <1>3 DEF Batches
<1>5. j \in Jobs /\ j # Log!NoJob /\ Log!NoJob.lines = <<>>
  <2> HIDE DEF x
  <2> QED BY <1>1, <1>4 DEF Jobs, Writers, Log!NoJob
<1>6. /\ job'[s] = j /\ queue'[s] = Tail(queue[s])
      /\ \A u \in Log!Streams \ {s} : job'[u] = job[u] /\ queue'[u] = queue[u]
  BY <1>1, <1>2 DEF WriterTyped
<1>7. WriterTyped'
  <2> HIDE DEF x, j
  <2>1. job' \in [Log!Streams -> Jobs]
    BY <1>1, <1>2, <1>5 DEF WriterTyped
  <2>2. queue' \in [Log!Streams -> Seq(Batches)]
    BY <1>1, <1>2, <1>3 DEF WriterTyped
  <2>3. writer' \in [Log!Streams -> Writers]
    <3>1. writer'[s] = [writer[s] EXCEPT !.off = @ + Len(x), !.seq = @ + Len(x)]
          /\ writer' = [writer EXCEPT ![s] = writer'[s]]
      BY <1>1, <1>2 DEF WriterTyped
    <3>2. writer'[s] \in Writers
      <4> DEFINE w == writer[s]
      <4>1. writer'[s] = [linked |-> w.linked, off |-> w.off + Len(x), seq |-> w.seq + Len(x),
                          entered |-> w.entered]
        BY <1>1, <3>1 DEF Writers
      <4>2. /\ w.linked \in BOOLEAN /\ w.entered \in BOOLEAN
            /\ w.off + Len(x) \in Nat /\ w.seq + Len(x) \in Nat
        BY <1>1, <1>4 DEF Writers
      <4> HIDE DEF w
      <4> QED BY <4>1, <4>2 DEF Writers
    <3> QED BY <1>1, <3>1, <3>2 DEF WriterTyped
  <2>4. ASSUME NEW u \in Log!Streams, job'[u] # Log!NoJob PROVE job'[u].lines # <<>>
    <3>1. CASE u = s
      <4>1. job'[u].lines = x
        BY <1>6, <3>1 DEF j
      <4> QED BY <1>4, <4>1
    <3>2. CASE u # s
      BY <1>1, <1>6, <2>4, <3>2 DEF WriterTyped
    <3> QED BY <3>1, <3>2
  <2>5. segment' \in [Log!Streams -> Seq(Nat)]
    BY <1>1, <1>2, <1>4, GrownType
  <2> QED BY <1>1, <1>2, <2>1, <2>2, <2>3, <2>4, <2>5 DEF WriterTyped, Log!Streams
<1>8. Counted(s)'
  <2> DEFINE a == Len(handing[s])
             b == Len(Log!FlattenSeq(Tail(queue[s])))
             n == Len(queue[s])
             d == IF handing[s] = <<>> THEN 0 ELSE 1
  <2>1. a \in Nat /\ n \in Nat /\ d \in Nat
    BY <1>1, FlyingType
  <2>2. b \in Nat
    BY <1>3, QueueLength
  <2>3. Flying(s) = a + (Len(x) + b) + 0 /\ Flying(s)' = a + b + Len(x)
    <3>1. Len(job[s].lines) = 0 /\ job'[s].lines = x
      BY <1>2, <1>5, <1>6
    <3>2. Flying(s) = a + (Len(x) + b) + 0
      BY <1>3, <3>1 DEF Flying
    <3>3. handing'[s] = handing[s] /\ queue'[s] = Tail(queue[s])
      BY <1>2, <1>6
    <3> QED BY <3>1, <3>2, <3>3 DEF Flying
  <2>4. Batched(s) = n + d + 0 /\ Batched(s)' = (n - 1) + d + 1
    BY <1>2, <1>3, <1>5, <1>6 DEF Batched
  <2> HIDE DEF a, b, n, d, x
  <2>5. Flying(s)' = Flying(s) /\ Batched(s)' = Batched(s)
    BY <1>4, <2>1, <2>2, <2>3, <2>4
  <2> QED BY <1>2, <2>5 DEF CountInv, Counted
<1> HIDE DEF j
<1> QED BY <1>2, <1>6, <1>7, <1>8, CountChanged

\* or drops it, and counts its lines as dropped.
LEMMA AppendFailsCounted ==
    ASSUME CountInv, NEW s \in Log!Streams, Log!AppendFails(s)
    PROVE  CountInv'
<1>1. WriterTyped /\ queue[s] \in Seq(Batches)
  BY DEF CountInv, WriterTyped
<1> DEFINE x == Head(queue[s])
<1>2. /\ job[s] = Log!NoJob /\ queue[s] # <<>>
      /\ queue' = [queue EXCEPT ![s] = Tail(@)] /\ Log!Settled(s, Len(x), "dropped")
      /\ UNCHANGED <<pipe, handing, job, writer, printed>>
  BY DEF Log!AppendFails, Log!counts
<1>3. /\ x \in Batches /\ Tail(queue[s]) \in Seq(Batches)
      /\ Len(Tail(queue[s])) = Len(queue[s]) - 1
      /\ Len(Log!FlattenSeq(queue[s])) = Len(x) + Len(Log!FlattenSeq(Tail(queue[s])))
  BY <1>1, <1>2, QueueLength
<1>4. Len(x) \in Nat
  <2> HIDE DEF x
  <2> QED BY <1>3 DEF Batches
<1>5. /\ queue'[s] = Tail(queue[s]) /\ queue' \in [Log!Streams -> Seq(Batches)]
      /\ \A u \in Log!Streams \ {s} : queue'[u] = queue[u]
  BY <1>1, <1>2, <1>3 DEF WriterTyped
<1>6. /\ Flying(s) = Flying(s)' + Len(x) /\ Batched(s) = Batched(s)' + 1
      /\ Flying(s)' \in Nat /\ Batched(s)' \in Nat
  <2> DEFINE a == Len(handing[s])
             b == Len(Log!FlattenSeq(Tail(queue[s])))
             c == Len(job[s].lines)
             n == Len(queue[s])
             m == Len(Tail(queue[s]))
             d == IF handing[s] = <<>> THEN 0 ELSE 1
  <2>1. a \in Nat /\ c \in Nat /\ d \in Nat /\ m \in Nat /\ n = m + 1
    BY <1>1, <1>3, FlyingType
  <2>2. b \in Nat
    BY <1>3, QueueLength
  <2>3. Flying(s) = a + (Len(x) + b) + c /\ Flying(s)' = a + b + c
    BY <1>2, <1>3, <1>5 DEF Flying
  <2>4. Batched(s) = n + d + 0 /\ Batched(s)' = m + d + 0
    BY <1>2, <1>5 DEF Batched
  <2> HIDE DEF a, b, c, n, m, d, x
  <2> QED BY <1>4, <2>1, <2>2, <2>3, <2>4
<1>7. Counted(s)' /\ stats' \in [Log!Streams -> Counters]
      /\ \A u \in Log!Streams \ {s} : stats'[u] = stats[u]
  <2> HIDE DEF x
  <2> QED BY <1>2, <1>4, <1>6, SettledCounted
<1>8. WriterTyped'
  <2>1. segment' \in [Log!Streams -> Seq(Nat)]
    <3>1. PICK n \in 0..(Len(x) - 1) : Log!Grown(s, SubSeq(x, 1, n))
      BY DEF Log!AppendFails
    <3> HIDE DEF x
    <3>2. SubSeq(x, 1, n) \in Seq(Printed)
      BY <1>3, <1>4 DEF Batches
    <3> QED BY <1>1, <3>1, <3>2, GrownType
  <2> HIDE DEF x
  <2> QED BY <1>1, <1>2, <1>5, <1>7, <2>1 DEF WriterTyped, Log!Streams
<1> QED BY <1>2, <1>5, <1>7, <1>8, CountChanged

\* The table takes the batch, or does not: the job is done.
LEMMA InsertCounted ==
    ASSUME CountInv, NEW s \in Log!Streams, Log!Insert(s) \/ Log!InsertFails(s)
    PROVE  CountInv'
<1>1. WriterTyped /\ job[s] \in Jobs
  BY DEF CountInv, WriterTyped
<1> DEFINE n == Len(job[s].lines)
<1>2. /\ job[s] # Log!NoJob /\ job' = [job EXCEPT ![s] = Log!NoJob]
      /\ \E outcome \in {"persisted", "dropped"} : Log!Settled(s, n, outcome)
      /\ UNCHANGED <<pipe, handing, queue, writer, segment, printed>>
  BY DEF Log!Insert, Log!InsertFails, Log!counts, Log!stored
<1>3. PICK outcome \in {"persisted", "dropped"} : Log!Settled(s, n, outcome)
  BY <1>2
<1>4. /\ job'[s] = Log!NoJob /\ \A u \in Log!Streams \ {s} : job'[u] = job[u]
      /\ Log!NoJob \in Jobs /\ Log!NoJob.lines = <<>>
  BY <1>1, <1>2 DEF WriterTyped, Jobs, Log!NoJob
<1>5. /\ Flying(s) = Flying(s)' + n /\ Batched(s) = Batched(s)' + 1
      /\ Flying(s)' \in Nat /\ Batched(s)' \in Nat /\ n \in Nat
  <2> DEFINE a == Len(handing[s])
             b == Len(Log!FlattenSeq(queue[s]))
             m == Len(queue[s])
             d == IF handing[s] = <<>> THEN 0 ELSE 1
  <2>1. a \in Nat /\ b \in Nat /\ n \in Nat /\ d \in Nat /\ m \in Nat
    BY <1>1, FlyingType
  <2>2. Flying(s) = a + b + n /\ Flying(s)' = a + b + 0
    <3>1. Len(job'[s].lines) = 0 /\ handing'[s] = handing[s] /\ queue'[s] = queue[s]
      BY <1>2, <1>4
    <3> QED BY <3>1 DEF Flying
  <2>3. Batched(s) = m + d + 1 /\ Batched(s)' = m + d + 0
    BY <1>2, <1>4 DEF Batched
  <2> HIDE DEF a, b, m, d, n
  <2> QED BY <2>1, <2>2, <2>3
<1>6. Counted(s)' /\ stats' \in [Log!Streams -> Counters]
      /\ \A u \in Log!Streams \ {s} : stats'[u] = stats[u]
  <2> HIDE DEF n
  <2> QED BY <1>3, <1>5, SettledCounted
<1>7. WriterTyped'
  <2>1. job' \in [Log!Streams -> Jobs]
    BY <1>1, <1>2, <1>4 DEF WriterTyped
  <2>2. \A u \in Log!Streams : job'[u] # Log!NoJob => job'[u].lines # <<>>
    BY <1>1, <1>4 DEF WriterTyped
  <2> QED BY <1>1, <1>2, <1>6, <2>1, <2>2 DEF WriterTyped, Log!Streams
<1> QED BY <1>2, <1>4, <1>6, <1>7, CountChanged

\* Every step keeps the invariant.
LEMMA CountStep == CountInv /\ [Log!Next]_log => CountInv'
<1> SUFFICES ASSUME CountInv, [Log!Next]_log PROVE CountInv'
  OBVIOUS
<1>1. WriterTyped
  BY DEF CountInv
<1>2. ASSUME NEW s \in Log!Streams, Log!Process(s) PROVE CountInv'
  <2>1. CASE Log!Emit(s)
    <3>1. /\ printed' = printed + 1 /\ pipe' = [pipe EXCEPT ![s] = Append(@, printed')]
          /\ UNCHANGED <<handing, queue, job, writer, segment, stats>>
      BY <2>1 DEF Log!Emit, Log!stored
    <3>2. printed' \in Printed /\ printed' \in Nat
      BY <1>1, <3>1 DEF WriterTyped, Printed
    <3>3. pipe' \in [Log!Streams -> Seq(Printed)]
      BY <1>1, <3>1, <3>2 DEF WriterTyped
    <3> QED BY <1>1, <3>1, <3>2, <3>3, CountKept DEF WriterTyped
  <2>2. CASE Log!Exit(s)
    BY <1>1, <2>2, CountKept DEF Log!Exit, Log!inbound, Log!stored, Log!counts, WriterTyped
  <2> QED BY <1>2, <2>1, <2>2 DEF Log!Process
<1>3. ASSUME NEW s \in Log!Streams, Log!Reader(s) \/ Log!Writer(s) PROVE CountInv'
  BY <1>3, FlushCounted, SendCounted, AppendCounted, AppendFailsCounted, InsertCounted
     DEF Log!Reader, Log!Writer
<1>4. CASE Log!Commands
  <2>1. UNCHANGED <<handing, queue, job, stats, pipe, printed>>
    BY <1>4 DEF Log!Commands, Log!Start, Log!StartFails, Log!Refuse, Log!Retain, Log!ForgetRows,
       Log!ForgetFails, Log!Clear, Log!QueryPage, Log!Answered, Log!Stop, Log!Export, Log!inbound,
       Log!counts
  <2>2. writer' \in [Log!Streams -> Writers] /\ segment' \in [Log!Streams -> Seq(Nat)]
    <3>1. ASSUME NEW u PROVE Log!Opened(u) \in [Log!Streams -> Seq(Nat)]
      <4> DEFINE x == IF segment[u] = Log!Gone THEN <<>> ELSE segment[u]
      <4>1. Log!Opened(u) = [segment EXCEPT ![u] = x]
        BY DEF Log!Opened
      <4>2. u \in Log!Streams => x \in Seq(Nat)
        BY <1>1 DEF WriterTyped
      <4> HIDE DEF x
      <4> QED BY <1>1, <4>1, <4>2 DEF WriterTyped
    <3>2. CASE Log!Start
      <4> DEFINE w == [linked |-> TRUE, off |-> Len(segment'[next']), seq |-> 1, entered |-> TRUE]
      <4>1. segment' \in [Log!Streams -> Seq(Nat)]
        BY <3>1, <3>2 DEF Log!Start
      <4>2. writer' = [writer EXCEPT ![next'] = w]
        BY <3>2 DEF Log!Start
      <4>3. next' \in Log!Streams => w \in Writers
        BY <4>1 DEF Writers
      <4> HIDE DEF w
      <4>4. writer' \in [Log!Streams -> Writers]
        BY <1>1, <4>2, <4>3 DEF WriterTyped
      <4> QED BY <4>1, <4>4
    <3>3. CASE Log!StartFails
      BY <1>1, <3>1, <3>3 DEF Log!StartFails, Log!inbound, WriterTyped
    <3>4. CASE Log!Retain \/ Log!Clear
      <4>1. ASSUME NEW u \in Log!Streams PROVE writer[u] \in Writers
        BY <1>1 DEF WriterTyped
      <4>2. \A u \in Log!Streams :
              /\ [writer[u] EXCEPT !.linked = FALSE] \in Writers
              /\ [writer[u] EXCEPT !.linked = FALSE, !.entered = FALSE] \in Writers
        BY <4>1 DEF Writers
      <4>3. Log!Gone \in Seq(Nat)
        BY DEF Log!Gone
      <4>4. CASE Log!Retain
        <5>1. PICK gone \in SUBSET Log!Present :
                /\ segment' = [u \in Log!Streams |-> IF u \in gone THEN Log!Gone ELSE segment[u]]
                /\ writer' = [u \in Log!Streams |-> IF u \in gone
                                                   THEN [writer[u] EXCEPT !.linked = FALSE]
                                                   ELSE writer[u]]
          BY <4>4 DEF Log!Retain
        <5>2. segment' \in [Log!Streams -> Seq(Nat)]
          BY <1>1, <4>3, <5>1 DEF WriterTyped
        <5>3. writer' \in [Log!Streams -> Writers]
          BY <4>1, <4>2, <5>1
        <5> QED BY <5>2, <5>3
      <4>5. CASE Log!Clear
        BY <1>1, <4>1, <4>2, <4>3, <4>5 DEF Log!Clear, WriterTyped
      <4> QED BY <3>4, <4>4, <4>5
    <3>5. CASE ~(Log!Start \/ Log!StartFails \/ Log!Retain \/ Log!Clear)
      BY <1>1, <1>4, <3>5 DEF Log!Commands, Log!Refuse, Log!ForgetRows, Log!ForgetFails,
         Log!QueryPage, Log!Answered, Log!Stop, Log!Export, Log!inbound, Log!stored, WriterTyped
    <3> QED BY <3>2, <3>3, <3>4, <3>5
  <2> QED BY <1>1, <2>1, <2>2, CountKept DEF WriterTyped
<1>5. CASE Log!Restart
  <2>1. WriterTyped'
    BY <1>1, <1>5 DEF Log!Restart, WriterTyped, Jobs, Writers, Counters, Batches, Log!NoJob,
       Log!Closed, Log!NoStats, Log!Streams, Log!stored
  <2>2. ASSUME NEW s \in Log!Streams PROVE Counted(s)'
    BY <1>5, FlattenEmpty DEF Log!Restart, Counted, Flying, Batched, Log!NoJob, Log!NoStats
  <2> QED BY <2>1, <2>2 DEF CountInv, Log!Streams
<1>6. CASE Log!Tick \/ UNCHANGED log
  <2>1. UNCHANGED <<pipe, handing, queue, job, writer, segment, stats, printed>>
    BY <1>6 DEF Log!Tick, Log!inbound, Log!counts, log
  <2> QED BY <1>1, <2>1, CountKept DEF WriterTyped
<1> QED BY <1>2, <1>3, <1>4, <1>5, <1>6 DEF Log!Next

(* What is counted of a stream is what is settled and what is on its way, and *)
(* the batches it says are pending are those on their way.                    *)
THEOREM CountInvariance == Log!Spec => []CountInv
<1>1. CountInv /\ [Log!Next]_(Log!vars) => CountInv'
  BY CountStep DEF log, Log!vars
<1>2. QED
  BY <1>1, CountInitial, PTL DEF Log!Spec

(* The counters of a stream account for every line its reader took, through   *)
(* every write that fails, retention, clearing and end of the program, for    *)
(* any number of streams and lines, any batch size and queue.                 *)
THEOREM LinesAreCounted == Log!Spec => []EveryLineCounted
<1>1. CountInv => EveryLineCounted
  <2> SUFFICES ASSUME CountInv PROVE EveryLineCounted
    OBVIOUS
  <2>1. ASSUME NEW s \in Log!Streams
        PROVE  /\ stats[s].ingested = stats[s].persisted + stats[s].dropped + Len(Log!InFlight(s))
               /\ stats[s].pending = Len(queue[s]) + (IF handing[s] = <<>> THEN 0 ELSE 1)
                                                   + (IF job[s] = Log!NoJob THEN 0 ELSE 1)
    BY FlyingType DEF CountInv, Counted, Batched
  <2> QED BY <2>1 DEF EveryLineCounted, Log!EveryLineCounted
<1> QED BY <1>1, CountInvariance, PTL

-----------------------------------------------------------------------------
(* Its files and its table.                                                  *)

\* The table, and the files that are there.
Rows == [stream : Log!Streams, at : Nat, first : Nat, off : Nat, lines : Batches]

StoreTyped ==
    /\ next \in Nat /\ clock \in Nat /\ restarts \in Nat
    /\ segment \in [Log!Streams -> Seq(Printed) \cup {Log!Gone}]
    /\ \A s \in Log!Streams : writer[s].linked => segment[s] # Log!Gone
    /\ rows \in SUBSET Rows /\ IsFiniteSet(rows)

\* No append failed, and the streams were numbered once.
FirstRun == restarts = 0 /\ ~WritesMayFail

\* Nothing has happened to a stream that was not started.
Fresh(s) ==
    /\ s \notin running /\ pipe[s] = <<>> /\ handing[s] = <<>> /\ queue[s] = <<>>
    /\ job[s] = Log!NoJob /\ ~writer[s].linked /\ ~writer[s].entered /\ segment[s] = Log!Gone
    /\ \A r \in rows : r.stream # s

\* The file has the lines behind the offset.
InFile(s, off, lines) == \A i \in 1..Len(lines) : segment[s][off + i] = lines[i]

\* How far the batches of a stream are entered or about to be.
Entered(s) == IF job[s] = Log!NoJob THEN writer[s].off ELSE job[s].off

\* What a writer knows of its file is so.
FileKnown(s) ==
    /\ s > next => Fresh(s)
    /\ writer[s].seq = writer[s].off + 1
    /\ writer[s].linked => Len(segment[s]) = writer[s].off
    /\ writer[s].entered => writer[s].linked \/ segment[s] = Log!Gone
    /\ job[s] # Log!NoJob =>
          /\ job[s].first = job[s].off + 1
          /\ job[s].off + Len(job[s].lines) = writer[s].off
          /\ writer[s].linked => InFile(s, job[s].off, job[s].lines)

\* A row has the lines it was entered with, or its file is gone.
RowTrue(r) ==
    /\ r.at <= clock
    /\ r.first = r.off + 1
    /\ r.off + Len(r.lines) <= Entered(r.stream)
    /\ \/ segment[r.stream] = Log!Gone
       \/ writer[r.stream].linked /\ InFile(r.stream, r.off, r.lines)

\* The rows of a stream follow each other.
Before(q, r) == q.off + Len(q.lines) <= r.off /\ q.at <= r.at
RowsApart == \A q, r \in rows : q.stream = r.stream => q = r \/ Before(q, r) \/ Before(r, q)

FileInv == /\ \A s \in Log!Streams : FileKnown(s)
           /\ \A r \in rows : RowTrue(r)
           /\ RowsApart

\* A step that leaves a stream alone.
LEMMA FileKept ==
    ASSUME NEW s \in Log!Streams, FileKnown(s), s > next' => s > next, s \in running' => s \in running,
           pipe'[s] = pipe[s], handing'[s] = handing[s], queue'[s] = queue[s], job'[s] = job[s],
           writer'[s] = writer[s], segment'[s] = segment[s],
           \A r \in rows' : r.stream = s => r \in rows
    PROVE  FileKnown(s)'
BY DEF FileKnown, Fresh, InFile

\* A step that leaves the file of a row alone.
LEMMA RowKept ==
    ASSUME NEW r, RowTrue(r), clock <= clock', clock \in Nat, clock' \in Nat, r.at \in Nat,
           job'[r.stream] = job[r.stream], writer'[r.stream] = writer[r.stream],
           segment'[r.stream] = segment[r.stream]
    PROVE  RowTrue(r)'
BY DEF RowTrue, Entered, InFile

\* A step that only takes rows away.
LEMMA RowsKept ==
    ASSUME CountInv, StoreTyped, FileInv, UNCHANGED <<clock, job, writer, segment, next>>,
           rows' \in SUBSET rows, running' \in SUBSET running,
           \A s \in Log!Streams : s > next =>
              pipe'[s] = <<>> /\ handing'[s] = <<>> /\ queue'[s] = <<>>
    PROVE  FileInv'
<1>1. ASSUME NEW s \in Log!Streams PROVE FileKnown(s)'
  <2>1. FileKnown(s)
    BY DEF FileInv
  <2> QED BY <2>1 DEF FileKnown, Fresh, InFile
<1>2. ASSUME NEW r \in rows' PROVE RowTrue(r)'
  <2>1. RowTrue(r) /\ r \in Rows
    BY DEF FileInv, StoreTyped
  <2> QED BY <2>1, RowKept DEF StoreTyped, Rows
<1>3. RowsApart'
  BY DEF FileInv, RowsApart, Before
<1> QED BY <1>1, <1>2, <1>3 DEF FileInv, Log!Streams

\* They hold initially.
LEMMA StoreInitial == Log!Init => StoreTyped /\ FileInv
<1> SUFFICES ASSUME Log!Init PROVE StoreTyped /\ FileInv
  OBVIOUS
<1>1. StoreTyped
  BY FS_EmptySet DEF StoreTyped, Log!Init, Log!Closed
<1>2. ASSUME NEW s \in Log!Streams PROVE FileKnown(s)
  BY DEF FileKnown, Fresh, Log!Init, Log!Closed
<1>3. rows = {}
  BY DEF Log!Init
<1> QED BY <1>1, <1>2, <1>3 DEF FileInv, RowsApart

\* The writer appends a batch to its file, if that is still there.
LEMMA AppendStored ==
    ASSUME CountInv, StoreTyped, NEW s \in Log!Streams, Log!AppendLines(s)
    PROVE  StoreTyped' /\ (FileInv => FileInv')
<1> DEFINE x == Head(queue[s])
           j == [lines |-> x, off |-> writer[s].off, first |-> writer[s].seq]
<1>1. /\ queue[s] \in Seq(Batches) /\ writer[s] \in Writers /\ WriterTyped
      /\ segment[s] \in Seq(Printed) \cup {Log!Gone}
  BY DEF CountInv, WriterTyped, StoreTyped
<1>2. /\ job[s] = Log!NoJob /\ queue[s] # <<>>
      /\ job' = [job EXCEPT ![s] = j] /\ queue' = [queue EXCEPT ![s] = Tail(@)]
      /\ writer' = [writer EXCEPT ![s].off = @ + Len(x), ![s].seq = @ + Len(x)]
      /\ UNCHANGED <<pipe, handing, rows, clock, next, running, restarts>> /\ Log!Grown(s, x)
  BY DEF Log!AppendLines, Log!counts, Log!streams
<1>3. x \in Batches /\ x \in Seq(Printed) /\ Len(x) \in Nat /\ x # <<>>
  <2>1. x \in Batches
    BY <1>1, <1>2, QueueLength
  <2> HIDE DEF x
  <2> QED BY <2>1 DEF Batches
<1> HIDE DEF x
<1>4. /\ writer'[s].linked = writer[s].linked /\ writer'[s].off = writer[s].off + Len(x)
      /\ writer'[s].seq = writer[s].seq + Len(x) /\ writer'[s].entered = writer[s].entered
      /\ writer[s].off \in Nat /\ writer[s].seq \in Nat
  BY <1>1, <1>2 DEF WriterTyped, Writers
<1>5. /\ \A u \in Log!Streams \ {s} : /\ job'[u] = job[u] /\ queue'[u] = queue[u]
                                     /\ writer'[u] = writer[u] /\ segment'[u] = segment[u]
      /\ job'[s] = j
  BY <1>1, <1>2 DEF WriterTyped, StoreTyped, Log!Grown
<1>6. CASE writer[s].linked
  <2>1. /\ segment[s] \in Seq(Printed) /\ segment'[s] = segment[s] \o x
        /\ segment' = [segment EXCEPT ![s] = segment[s] \o x]
    BY <1>1, <1>2, <1>6 DEF Log!Grown, StoreTyped
  <2> DEFINE f == segment[s]
             g == segment[s] \o x
  <2>2. /\ g \in Seq(Printed) /\ Len(f) \in Nat /\ Len(g) = Len(f) + Len(x)
        /\ \A i \in 1..Len(f) : g[i] = f[i]
        /\ \A i \in 1..Len(x) : g[Len(f) + i] = x[i]
    <3> HIDE DEF f
    <3> DEFINE h == f \o x
    <3>1. h \in Seq(Printed) /\ Len(f) \in Nat /\ Len(h) = Len(f) + Len(x)
      BY <1>3, <2>1 DEF f
    <3>2. ASSUME NEW i \in 1..Len(f) PROVE h[i] = f[i]
      BY <1>3, <2>1 DEF f
    <3>3. ASSUME NEW i \in 1..Len(x) PROVE h[Len(f) + i] = x[i]
      BY <1>3, <2>1 DEF f
    <3> QED BY <3>1, <3>2, <3>3 DEF f
  <2>3. g # Log!Gone
    <3> HIDE DEF g
    <3> QED BY <2>2 DEF Log!Gone, Printed
  <2> HIDE DEF f, g
  <2>4. segment'[s] = g /\ segment' = [segment EXCEPT ![s] = g] /\ segment[s] = f
    BY <2>1 DEF f, g
  <2>5. StoreTyped'
    <3>1. segment' \in [Log!Streams -> Seq(Printed) \cup {Log!Gone}]
      BY <2>2, <2>4 DEF StoreTyped
    <3>2. ASSUME NEW u \in Log!Streams, writer'[u].linked PROVE segment'[u] # Log!Gone
      BY <1>5, <2>3, <2>4, <3>2 DEF StoreTyped
    <3> QED BY <1>2, <3>1, <3>2 DEF StoreTyped, Log!Streams, Rows
  <2>6. ASSUME FileInv PROVE FileInv'
    <3>1. FileKnown(s) /\ Len(f) = writer[s].off /\ s <= next /\ next \in Nat
      BY <1>2, <1>6, <2>4, <2>6 DEF FileInv, FileKnown, Fresh, StoreTyped, Log!Streams
    <3>2. FileKnown(s)'
      <4>1. job'[s].first = job'[s].off + 1 /\ job'[s].lines = x /\ job'[s].off = Len(f)
        BY <1>4, <1>5, <3>1 DEF FileKnown
      <4>2. InFile(s, job[s].off, job[s].lines)'
        BY <2>2, <2>4, <4>1 DEF InFile
      <4>3. ~(s > next') /\ writer[s].seq = writer[s].off + 1
        BY <1>2, <3>1 DEF FileKnown, Log!Streams
      <4>4. writer'[s].seq = writer'[s].off + 1
        BY <1>3, <1>4, <4>3
      <4>5. Len(segment'[s]) = writer'[s].off
        BY <1>4, <2>2, <2>4, <3>1
      <4>6. job'[s].off + Len(job'[s].lines) = writer'[s].off
        BY <1>4, <3>1, <4>1
      <4> QED BY <1>4, <1>6, <4>1, <4>2, <4>3, <4>4, <4>5, <4>6 DEF FileKnown
    <3>3. ASSUME NEW u \in Log!Streams PROVE FileKnown(u)'
      <4>1. CASE u # s
        BY <1>2, <1>5, <2>6, <4>1, FileKept DEF FileInv
      <4> QED BY <3>2, <4>1
    <3>4. ASSUME NEW r \in rows PROVE RowTrue(r)'
      <4>1. RowTrue(r) /\ r \in Rows /\ r.stream \in Log!Streams /\ r.at \in Nat
        BY <2>6 DEF FileInv, StoreTyped, Rows
      <4>2. CASE r.stream = s
        <5>1. /\ r.off + Len(r.lines) <= Len(f) /\ InFile(s, r.off, r.lines)
              /\ r.off \in Nat /\ r.lines \in Seq(Printed)
          BY <1>2, <1>6, <3>1, <4>1, <4>2 DEF RowTrue, Entered, StoreTyped, Rows, Batches
        <5>2. ASSUME NEW i \in 1..Len(r.lines) PROVE g[r.off + i] = r.lines[i]
          <6>1. r.off + i \in 1..Len(f)
            BY <2>2, <5>1
          <6> QED BY <2>2, <2>4, <5>1, <6>1 DEF InFile
        <5>3. InFile(r.stream, r.off, r.lines)'
          BY <2>4, <4>2, <5>2 DEF InFile
        <5>4. Entered(r.stream)' = Entered(r.stream)
          <6>1. job'[s] # Log!NoJob /\ job'[s].off = writer[s].off
            BY <1>3, <1>5 DEF Log!NoJob
          <6> QED BY <1>2, <4>2, <6>1 DEF Entered
        <5>5. writer'[r.stream].linked /\ clock' = clock
          BY <1>2, <1>4, <1>6, <4>2
        <5> QED BY <4>1, <5>3, <5>4, <5>5 DEF RowTrue
      <4>3. CASE r.stream # s
        <5>1. /\ job'[r.stream] = job[r.stream] /\ writer'[r.stream] = writer[r.stream]
              /\ segment'[r.stream] = segment[r.stream]
          BY <1>5, <4>1, <4>3
        <5>2. clock' = clock /\ clock \in Nat
          BY <1>2 DEF StoreTyped
        <5> QED BY <4>1, <5>1, <5>2, RowKept
      <4> QED BY <4>2, <4>3
    <3>5. RowsApart'
      BY <1>2, <2>6 DEF FileInv, RowsApart, Before
    <3> QED BY <1>2, <3>3, <3>4, <3>5 DEF FileInv, Log!Streams
  <2> QED BY <2>5, <2>6
<1>7. CASE ~writer[s].linked
  <2>1. segment' = segment
    BY <1>2, <1>7 DEF Log!Grown
  <2>2. StoreTyped'
    <3>2. ASSUME NEW u \in Log!Streams, writer'[u].linked PROVE segment'[u] # Log!Gone
      BY <1>4, <1>5, <1>7, <2>1, <3>2 DEF StoreTyped
    <3> QED BY <1>2, <2>1, <3>2 DEF StoreTyped, Log!Streams, Rows
  <2>3. ASSUME FileInv PROVE FileInv'
    <3>1. FileKnown(s) /\ s <= next /\ next \in Nat
      BY <1>2, <2>3 DEF FileInv, FileKnown, Fresh, StoreTyped, Log!Streams
    <3>2. FileKnown(s)'
      <4>1. job'[s].first = job'[s].off + 1 /\ job'[s].lines = x /\ job'[s].off = writer[s].off
        BY <1>4, <1>5, <3>1 DEF FileKnown
      <4>2. ~(s > next') /\ writer[s].seq = writer[s].off + 1
        BY <1>2, <3>1 DEF FileKnown, Log!Streams
      <4>3. writer'[s].seq = writer'[s].off + 1
        BY <1>3, <1>4, <4>2
      <4>4. job'[s].off + Len(job'[s].lines) = writer'[s].off
        BY <1>4, <4>1
      <4>5. ~writer'[s].linked /\ segment'[s] = segment[s]
        BY <1>4, <1>7, <2>1
      <4> QED BY <1>4, <3>1, <4>1, <4>2, <4>3, <4>4, <4>5 DEF FileKnown
    <3>3. ASSUME NEW u \in Log!Streams PROVE FileKnown(u)'
      <4>1. CASE u # s
        BY <1>2, <1>5, <2>3, <4>1, FileKept DEF FileInv
      <4> QED BY <3>2, <4>1
    <3>4. ASSUME NEW r \in rows PROVE RowTrue(r)'
      <4>1. RowTrue(r) /\ r \in Rows /\ r.stream \in Log!Streams /\ r.at \in Nat
        BY <2>3 DEF FileInv, StoreTyped, Rows
      <4>2. CASE r.stream = s
        <5>4. Entered(r.stream)' = Entered(r.stream)
          <6>1. job'[s] # Log!NoJob /\ job'[s].off = writer[s].off
            BY <1>3, <1>5 DEF Log!NoJob
          <6> QED BY <1>2, <4>2, <6>1 DEF Entered
        <5>5. segment[r.stream] = Log!Gone /\ segment' = segment /\ clock' = clock
          BY <1>2, <1>7, <2>1, <4>1, <4>2 DEF RowTrue
        <5> QED BY <4>1, <5>4, <5>5 DEF RowTrue
      <4>3. CASE r.stream # s
        <5>1. /\ job'[r.stream] = job[r.stream] /\ writer'[r.stream] = writer[r.stream]
              /\ segment'[r.stream] = segment[r.stream]
          BY <1>5, <4>1, <4>3
        <5>2. clock' = clock /\ clock \in Nat
          BY <1>2 DEF StoreTyped
        <5> QED BY <4>1, <5>1, <5>2, RowKept
      <4> QED BY <4>2, <4>3
    <3>5. RowsApart'
      BY <1>2, <2>3 DEF FileInv, RowsApart, Before
    <3> QED BY <1>2, <3>3, <3>4, <3>5 DEF FileInv, Log!Streams
  <2> QED BY <2>2, <2>3
<1> QED BY <1>6, <1>7

\* The table takes a batch of the stream that is done with it, or not.
LEMMA InsertStored ==
    ASSUME CountInv, StoreTyped, NEW s \in Log!Streams, Log!Insert(s) \/ Log!InsertFails(s)
    PROVE  StoreTyped' /\ (FileInv => FileInv')
<1> DEFINE row == [stream |-> s, at |-> clock, first |-> job[s].first, off |-> job[s].off,
                   lines |-> job[s].lines]
<1>1. /\ job[s] \in Jobs /\ writer[s] \in Writers /\ job[s] # Log!NoJob
      /\ job[s].lines \in Batches /\ clock \in Nat /\ next \in Nat
  BY DEF CountInv, WriterTyped, StoreTyped, Log!Insert, Log!InsertFails, Jobs, Batches
<1>2. /\ job' = [job EXCEPT ![s] = Log!NoJob]
      /\ UNCHANGED <<pipe, handing, queue, writer, segment, clock, next, running, restarts>>
  BY DEF Log!Insert, Log!InsertFails, Log!counts, Log!stored, Log!streams
<1>3. rows' = rows \/ (writer[s].entered /\ rows' = rows \cup {row})
  BY DEF Log!Insert, Log!InsertFails, Log!stored
<1>4. clock' = clock /\ clock <= clock
  BY <1>1, <1>2
<1>5. row \in Rows
  BY <1>1 DEF Rows, Jobs
<1>6. PICK x \in Rows :
        /\ x.stream = s /\ x.at = clock /\ x.first = job[s].first /\ x.off = job[s].off
        /\ x.lines = job[s].lines
        /\ rows' = rows \/ (writer[s].entered /\ rows' = rows \cup {x})
  BY <1>3, <1>5
<1> HIDE DEF row
<1>7. x \in Rows /\ (rows' = rows \/ (writer[s].entered /\ rows' = rows \cup {x}))
  BY <1>6
<1>8. StoreTyped'
  <2>1. rows' \in SUBSET Rows
    BY <1>7 DEF StoreTyped
  <2>2. IsFiniteSet(rows')
    BY <1>7, FS_AddElement DEF StoreTyped
  <2> QED BY <1>2, <1>3, <1>4, <2>1, <2>2 DEF StoreTyped, Log!Streams, Rows
<1>9. job'[s] = Log!NoJob /\ \A u \in Log!Streams \ {s} : job'[u] = job[u]
  BY <1>2 DEF CountInv, WriterTyped
<1>10. ASSUME FileInv PROVE FileInv'
  <2>1. /\ FileKnown(s) /\ s <= next /\ next' = next
        /\ job[s].off \in Nat /\ Len(job[s].lines) \in Nat /\ writer[s].off \in Nat
        /\ job[s].first = job[s].off + 1 /\ job[s].off + Len(job[s].lines) = writer[s].off
    BY <1>1, <1>2, <1>10 DEF FileInv, FileKnown, Fresh, Log!Streams, Jobs, Writers, Batches
  <2>2. FileKnown(s)'
    <3>1. ~(s > next') /\ writer'[s] = writer[s] /\ segment'[s] = segment[s]
      BY <1>1, <1>2, <2>1 DEF Log!Streams
    <3> QED BY <1>9, <2>1, <3>1 DEF FileKnown
  <2>3. ASSUME NEW u \in Log!Streams, u # s PROVE FileKnown(u)'
    <3>1. FileKnown(u) /\ job'[u] = job[u]
      BY <1>9, <1>10, <2>3 DEF FileInv
    <3>2. \A r \in rows' : r.stream = u => r \in rows
      BY <1>6, <1>7, <2>3
    <3> QED BY <1>2, <3>1, <3>2, FileKept
  <2>4. Entered(s)' = writer[s].off /\ Entered(s) = job[s].off
    BY <1>1, <1>2, <1>9 DEF Entered
  <2>5. ASSUME NEW r \in rows PROVE RowTrue(r)'
    <3>1. RowTrue(r) /\ r \in Rows /\ r.at \in Nat /\ r.off \in Nat /\ Len(r.lines) \in Nat
      BY <1>10 DEF FileInv, StoreTyped, Rows, Batches
    <3>2. CASE r.stream = s
      <4>1. r.off + Len(r.lines) <= Entered(r.stream)'
        <5>1. Entered(r.stream)' = writer[s].off /\ Entered(r.stream) = job[s].off
          BY <1>1, <1>2, <1>9, <3>2 DEF Entered
        <5>2. r.off + Len(r.lines) <= job[s].off
          BY <3>1, <5>1 DEF RowTrue
        <5>3. \A a, b, c, d \in Nat : a + b <= c /\ c + d = writer[s].off => a + b <= writer[s].off
          BY <2>1
        <5>4. r.off + Len(r.lines) <= writer[s].off
          BY <2>1, <3>1, <5>2, <5>3
        <5> QED BY <5>1, <5>4
      <4>2. r.at <= clock'
        BY <1>1, <1>3, <1>4, <3>1 DEF RowTrue
      <4> QED BY <1>2, <3>1, <4>1, <4>2 DEF RowTrue, InFile
    <3>3. CASE r.stream # s
      <4>1. r.stream \in Log!Streams
        BY <3>1 DEF Rows
      <4>2. job'[r.stream] = job[r.stream]
        BY <1>9, <3>3, <4>1
      <4> QED BY <1>1, <1>2, <1>3, <1>4, <3>1, <4>2, RowKept
    <3> QED BY <3>2, <3>3
  <2>6. ASSUME writer[s].entered PROVE RowTrue(x)'
    <3>1. segment[s] = Log!Gone \/ (writer[s].linked /\ InFile(s, x.off, x.lines))
      BY <1>1, <1>6, <2>1, <2>6 DEF FileKnown
    <3>2. x.off + Len(x.lines) <= Entered(x.stream)'
      <4>1. Entered(x.stream)' = writer[s].off
        BY <1>2, <1>6, <1>9 DEF Entered
      <4> QED BY <1>6, <2>1, <4>1
    <3>3. x.at <= clock' /\ x.first = x.off + 1
      BY <1>3, <1>4, <1>6, <2>1
    <3>4. \/ segment'[x.stream] = Log!Gone
          \/ writer'[x.stream].linked /\ InFile(x.stream, x.off, x.lines)'
      BY <1>2, <1>6, <3>1 DEF InFile
    <3> QED BY <3>2, <3>3, <3>4 DEF RowTrue
  <2>7. ASSUME NEW r \in rows, r.stream = x.stream PROVE Before(r, x)
    <3>1. RowTrue(r) /\ r.at \in Nat
      BY <1>10 DEF FileInv, StoreTyped, Rows
    <3> QED BY <1>1, <1>3, <1>4, <1>6, <2>4, <2>7, <3>1 DEF RowTrue, Before
  <2>8. RowsApart'
    <3> SUFFICES ASSUME NEW q \in rows', NEW r \in rows', q.stream = r.stream
                 PROVE  q = r \/ Before(q, r) \/ Before(r, q)
      BY DEF RowsApart, Before
    <3>1. (q \in rows \/ q = x) /\ (r \in rows \/ r = x)
      BY <1>7
    <3>2. CASE q \in rows /\ r \in rows
      BY <1>10, <3>2 DEF FileInv, RowsApart
    <3>3. CASE q = x \/ r = x
      BY <2>7, <3>1, <3>3
    <3> QED BY <3>1, <3>2, <3>3
  <2>9. \A u \in Log!Streams : FileKnown(u)'
    BY <2>2, <2>3
  <2>10. \A r \in rows' : RowTrue(r)'
    BY <1>7, <2>5, <2>6
  <2> QED BY <2>8, <2>9, <2>10 DEF FileInv, Log!Streams
<1> QED BY <1>8, <1>10

\* A stream is started, or its number is taken.
LEMMA StartStored ==
    ASSUME CountInv, StoreTyped, Log!Start \/ Log!StartFails
    PROVE  StoreTyped' /\ (FileInv => FileInv')
<1> DEFINE s == next + 1
<1>1. /\ next' = s /\ next \in Nat /\ s \in Nat /\ next < MaxStreams
      /\ UNCHANGED <<pipe, handing, queue, job, rows, clock, restarts>>
      /\ writer \in [Log!Streams -> Writers]
  BY DEF Log!Start, Log!StartFails, Log!counts, Log!inbound, StoreTyped, CountInv, WriterTyped
<1>2. \/ segment' = segment /\ writer' = writer
      \/ segment' = Log!Opened(s) /\ writer' = writer
      \/ /\ segment' = Log!Opened(s)
         /\ writer' = [writer EXCEPT ![s] = [linked |-> TRUE, off |-> Len(segment'[s]),
                                             seq |-> 1, entered |-> TRUE]]
  BY <1>1 DEF Log!Start, Log!StartFails, Log!inbound
<1>3. running' \subseteq running \cup {s}
  BY <1>1 DEF Log!Start, Log!StartFails
<1> DEFINE f == IF segment[s] = Log!Gone THEN <<>> ELSE segment[s]
<1>4. Log!Opened(s) = [segment EXCEPT ![s] = f]
  BY DEF Log!Opened
<1>5. segment \in [Log!Streams -> Seq(Printed) \cup {Log!Gone}]
  BY DEF StoreTyped
<1>6. s \in Log!Streams => f \in Seq(Printed) /\ f # Log!Gone
  <2> SUFFICES ASSUME s \in Log!Streams PROVE f \in Seq(Printed) /\ f # Log!Gone
    OBVIOUS
  <2>1. segment[s] \in Seq(Printed) \cup {Log!Gone}
    BY <1>5
  <2>2. <<>> # Log!Gone /\ <<>> \in Seq(Printed)
    BY DEF Log!Gone
  <2> QED BY <2>1, <2>2
<1> HIDE DEF f, s
<1>7. StoreTyped'
  <2>1. segment' \in [Log!Streams -> Seq(Printed) \cup {Log!Gone}]
    BY <1>2, <1>4, <1>5, <1>6
  <2>2. ASSUME NEW u \in Log!Streams, writer'[u].linked PROVE segment'[u] # Log!Gone
    <3>1. CASE u = s
      <4>1. CASE segment' = Log!Opened(s)
        BY <1>4, <1>5, <1>6, <3>1, <4>1
      <4>2. CASE segment' = segment /\ writer' = writer
        BY <2>2, <4>2 DEF StoreTyped
      <4> QED BY <1>2, <4>1, <4>2
    <3>2. CASE u # s
      <4>1. segment'[u] = segment[u] /\ writer'[u] = writer[u]
        BY <1>1, <1>2, <1>4, <1>5, <3>2
      <4> QED BY <2>2, <4>1 DEF StoreTyped
    <3> QED BY <3>1, <3>2
  <2> QED BY <1>1, <2>1, <2>2 DEF StoreTyped, Log!Streams, Rows
<1>8. ASSUME FileInv PROVE FileInv'
  <2>1. s \in Log!Streams => Fresh(s)
    BY <1>1, <1>8 DEF s, FileInv, FileKnown
  <2>2. ASSUME NEW u \in Log!Streams PROVE FileKnown(u)'
    <3>1. CASE u = s
      <4>1. /\ Fresh(s) /\ f = <<>> /\ ~(s > next') /\ job'[s] = Log!NoJob
        BY <1>1, <2>1, <3>1 DEF Fresh, f
      <4>2. CASE writer' = writer
        <5>1. ~writer'[s].linked /\ ~writer'[s].entered /\ writer'[s].seq = writer'[s].off + 1
          BY <1>8, <3>1, <4>1, <4>2 DEF Fresh, FileInv, FileKnown
        <5> QED BY <3>1, <4>1, <5>1 DEF FileKnown
      <4>3. CASE writer' # writer
        <5>1. segment'[s] = <<>> /\ writer'[s] = [linked |-> TRUE, off |-> Len(segment'[s]),
                                                  seq |-> 1, entered |-> TRUE]
          BY <1>1, <1>2, <1>4, <1>5, <3>1, <4>1, <4>3
        <5> QED BY <3>1, <4>1, <5>1 DEF FileKnown
      <4> QED BY <4>2, <4>3
    <3>2. CASE u # s
      <4>1. segment'[u] = segment[u] /\ writer'[u] = writer[u]
        BY <1>1, <1>2, <1>4, <1>5, <3>2
      <4>2. (u > next' => u > next) /\ (u \in running' => u \in running)
        BY <1>1, <1>3, <3>2 DEF s, Log!Streams
      <4> QED BY <1>1, <1>8, <4>1, <4>2, FileKept DEF FileInv
    <3> QED BY <3>1, <3>2
  <2>3. ASSUME NEW r \in rows PROVE RowTrue(r)'
    <3>1. RowTrue(r) /\ r \in Rows /\ r.stream \in Log!Streams /\ r.at \in Nat
      BY <1>8 DEF FileInv, StoreTyped, Rows
    <3>2. r.stream # s
      BY <2>1, <3>1 DEF Fresh
    <3>3. segment'[r.stream] = segment[r.stream] /\ writer'[r.stream] = writer[r.stream]
      BY <1>1, <1>2, <1>4, <1>5, <3>1, <3>2
    <3>4. clock' = clock /\ clock \in Nat /\ job' = job
      BY <1>1 DEF StoreTyped
    <3> QED BY <3>1, <3>3, <3>4, RowKept
  <2>4. RowsApart'
    BY <1>1, <1>8 DEF FileInv, RowsApart, Before
  <2> QED BY <1>1, <2>2, <2>3, <2>4 DEF FileInv, Log!Streams
<1> QED BY <1>7, <1>8

\* Files are removed, under their writers.
LEMMA RemoveStored ==
    ASSUME CountInv, StoreTyped, Log!Retain \/ Log!Clear
    PROVE  StoreTyped' /\ (FileInv => FileInv')
<1>1. /\ UNCHANGED <<next, running, pipe, handing, queue, job, clock, restarts>>
      /\ rows' \in SUBSET rows
      /\ writer \in [Log!Streams -> Writers]
      /\ segment \in [Log!Streams -> Seq(Printed) \cup {Log!Gone}]
  BY DEF Log!Retain, Log!Clear, Log!streams, StoreTyped, CountInv, WriterTyped
<1>2. ASSUME NEW s \in Log!Streams
      PROVE  /\ writer'[s].off = writer[s].off /\ writer'[s].seq = writer[s].seq
             /\ writer'[s].entered => writer[s].entered
             /\ \/ segment'[s] = segment[s] /\ writer'[s] = writer[s]
                \/ segment'[s] = Log!Gone /\ ~writer'[s].linked
             /\ ~writer[s].linked /\ ~writer[s].entered /\ segment[s] = Log!Gone
                  => ~writer'[s].linked /\ ~writer'[s].entered /\ segment'[s] = Log!Gone
  <2>1. writer[s] \in Writers
    BY <1>1
  <2> DEFINE w == writer[s]
             a == [w EXCEPT !.linked = FALSE]
             b == [w EXCEPT !.linked = FALSE, !.entered = FALSE]
  <2>2. /\ a.off = w.off /\ a.seq = w.seq /\ a.entered = w.entered /\ ~a.linked
        /\ b.off = w.off /\ b.seq = w.seq /\ ~b.entered /\ ~b.linked
    BY <2>1 DEF Writers
  <2> HIDE DEF a, b
  <2>4. CASE Log!Clear
    <3>1. writer'[s] = b /\ segment'[s] = Log!Gone
      BY <2>4 DEF Log!Clear, b
    <3> QED BY <2>2, <3>1
  <2>5. CASE Log!Retain
    <3>1. PICK gone \in SUBSET Log!Present :
            /\ segment' = [u \in Log!Streams |-> IF u \in gone THEN Log!Gone ELSE segment[u]]
            /\ writer' = [u \in Log!Streams |-> IF u \in gone
                                               THEN [writer[u] EXCEPT !.linked = FALSE]
                                               ELSE writer[u]]
      BY <2>5 DEF Log!Retain
    <3>2. \/ segment'[s] = Log!Gone /\ writer'[s] = a
          \/ segment'[s] = segment[s] /\ writer'[s] = w
      BY <3>1 DEF a
    <3> QED BY <2>2, <3>2
  <2> QED BY <2>4, <2>5
<1>3. StoreTyped'
  <2>1. segment' \in [Log!Streams -> Seq(Printed) \cup {Log!Gone}]
    <3>1. segment' = [u \in Log!Streams |-> segment'[u]]
      BY DEF Log!Retain, Log!Clear
    <3>2. \A u \in Log!Streams : segment'[u] \in Seq(Printed) \cup {Log!Gone}
      BY <1>1, <1>2
    <3> QED BY <3>1, <3>2
  <2>2. \A u \in Log!Streams : writer'[u].linked => segment'[u] # Log!Gone
    BY <1>2 DEF StoreTyped
  <2>3. IsFiniteSet(rows') /\ rows' \in SUBSET Rows
    BY <1>1, FS_Subset DEF StoreTyped
  <2> QED BY <1>1, <2>1, <2>2, <2>3 DEF StoreTyped, Log!Streams, Rows
<1>4. ASSUME FileInv PROVE FileInv'
  <2>1. ASSUME NEW s \in Log!Streams PROVE FileKnown(s)'
    <3>1. FileKnown(s)
      BY <1>4 DEF FileInv
    <3>2. CASE segment'[s] = segment[s] /\ writer'[s] = writer[s]
      BY <1>1, <3>1, <3>2, FileKept
    <3>3. CASE segment'[s] = Log!Gone /\ ~writer'[s].linked
      BY <1>1, <1>2, <3>1, <3>3 DEF FileKnown, Fresh
    <3> QED BY <1>2, <3>2, <3>3
  <2>2. ASSUME NEW r \in rows' PROVE RowTrue(r)'
    <3>1. RowTrue(r) /\ r \in Rows /\ r.stream \in Log!Streams /\ r.at \in Nat
      BY <1>1, <1>4 DEF FileInv, StoreTyped, Rows
    <3>2. CASE segment'[r.stream] = segment[r.stream] /\ writer'[r.stream] = writer[r.stream]
      <4>1. clock' = clock /\ clock \in Nat /\ job' = job
        BY <1>1 DEF StoreTyped
      <4> QED BY <3>1, <3>2, <4>1, RowKept
    <3>3. CASE segment'[r.stream] = Log!Gone
      <4>1. Entered(r.stream)' = Entered(r.stream)
        BY <1>1, <1>2, <3>1 DEF Entered
      <4> QED BY <1>1, <3>1, <3>3, <4>1 DEF RowTrue
    <3> QED BY <1>2, <3>1, <3>2, <3>3
  <2>3. RowsApart'
    BY <1>1, <1>4 DEF FileInv, RowsApart, Before
  <2> QED BY <2>1, <2>2, <2>3 DEF FileInv, Log!Streams
<1> QED BY <1>3, <1>4

\* A file that grows is a file.
LEMMA GrownStored ==
    ASSUME StoreTyped, NEW s \in Log!Streams, NEW lines \in Seq(Printed), Log!Grown(s, lines)
    PROVE  /\ segment' \in [Log!Streams -> Seq(Printed) \cup {Log!Gone}]
           /\ \A u \in Log!Streams : writer[u].linked => segment'[u] # Log!Gone
<1> DEFINE f == segment[s]
           g == f \o lines
<1>1. CASE writer[s].linked
  <2>1. f \in Seq(Printed) /\ segment \in [Log!Streams -> Seq(Printed) \cup {Log!Gone}]
    BY <1>1 DEF StoreTyped
  <2>2. segment' = [segment EXCEPT ![s] = g]
    BY <1>1 DEF Log!Grown
  <2> HIDE DEF f
  <2>3. g \in Seq(Printed)
    BY <2>1
  <2> HIDE DEF g
  <2>4. g # Log!Gone
    BY <2>3 DEF Log!Gone, Printed
  <2> QED BY <2>1, <2>2, <2>3, <2>4 DEF StoreTyped
<1>2. CASE ~writer[s].linked
  BY <1>2 DEF Log!Grown, StoreTyped
<1> QED BY <1>1, <1>2

\* What is in the table stays no later than the time of day.
LEMMA TickStored ==
    ASSUME StoreTyped, Log!Tick
    PROVE  StoreTyped' /\ (FileInv => FileInv') /\ UNCHANGED restarts
<1>1. /\ clock \in Nat /\ clock' = clock + 1
      /\ UNCHANGED <<next, running, pipe, handing, queue, job, writer, segment, rows, restarts>>
  BY DEF Log!Tick, Log!streams, Log!inbound, Log!counts, StoreTyped
<1>2. StoreTyped'
  BY <1>1 DEF StoreTyped, Log!Streams, Rows
<1>3. ASSUME FileInv PROVE FileInv'
  <2>1. ASSUME NEW u \in Log!Streams PROVE FileKnown(u)'
    BY <1>1, <1>3 DEF FileInv, FileKnown, Fresh, InFile
  <2>2. ASSUME NEW r \in rows PROVE RowTrue(r)'
    <3>1. RowTrue(r) /\ r.at \in Nat
      BY <1>3 DEF FileInv, StoreTyped, Rows
    <3> QED BY <1>1, <3>1 DEF RowTrue, Entered, InFile
  <2>3. RowsApart'
    BY <1>1, <1>3 DEF FileInv, RowsApart, Before
  <2> QED BY <1>1, <2>1, <2>2, <2>3 DEF FileInv, Log!Streams
<1> QED BY <1>1, <1>2, <1>3

\* Every step of the first run keeps them.
LEMMA StoreStep ==
    ASSUME CountInv, StoreTyped, [Log!Next]_log
    PROVE  StoreTyped' /\ (FileInv /\ FirstRun' => FirstRun /\ FileInv')
<1> DEFINE Quiet == /\ UNCHANGED <<clock, job, writer, segment, next, restarts>>
                    /\ rows' \in SUBSET rows /\ running' \in SUBSET running
<1>1. ASSUME Quiet,
             \A s \in Log!Streams : (s > next => Fresh(s)) => (s > next =>
                pipe'[s] = <<>> /\ handing'[s] = <<>> /\ queue'[s] = <<>>)
      PROVE  StoreTyped' /\ (FileInv => FileInv')
  <2>1. IsFiniteSet(rows') /\ rows' \in SUBSET Rows
    BY <1>1, FS_Subset DEF StoreTyped
  <2>2. StoreTyped'
    BY <1>1, <2>1 DEF StoreTyped, Log!Streams, Rows
  <2>3. ASSUME FileInv PROVE FileInv'
    <3>1. \A s \in Log!Streams : s > next => Fresh(s)
      BY <2>3 DEF FileInv, FileKnown
    <3> QED BY <1>1, <2>3, <3>1, RowsKept
  <2> QED BY <2>2, <2>3
<1>2. CASE Log!Restart
  <2>1. restarts' = restarts + 1 /\ ~FirstRun'
    BY <1>2 DEF Log!Restart, StoreTyped, FirstRun
  <2>2. StoreTyped'
    BY <1>2, <2>1 DEF Log!Restart, StoreTyped, Log!stored, Log!Streams, Log!Closed, Rows
  <2> QED BY <2>1, <2>2
<1>3. ASSUME NEW s \in Log!Streams, Log!Process(s) \/ Log!Reader(s)
      PROVE  StoreTyped' /\ (FileInv => FileInv') /\ restarts' = restarts
  <2>1. Quiet
    BY <1>3 DEF Log!Process, Log!Reader, Log!Emit, Log!Exit, Log!Flush, Log!Send, Log!streams,
       Log!stored, Log!counts, Log!inbound
  <2>2. ASSUME NEW u \in Log!Streams, Fresh(u)
        PROVE  pipe'[u] = <<>> /\ handing'[u] = <<>> /\ queue'[u] = <<>>
    <3>1. pipe \in [Log!Streams -> Seq(Printed)] /\ handing \in [Log!Streams -> Seq(Printed)]
          /\ queue \in [Log!Streams -> Seq(Batches)]
      BY DEF CountInv, WriterTyped
    <3>2. u # s => pipe'[u] = pipe[u] /\ handing'[u] = handing[u] /\ queue'[u] = queue[u]
      BY <1>3, <3>1
      DEF Log!Process, Log!Reader, Log!Emit, Log!Exit, Log!Flush, Log!Send, Log!inbound
    <3>3. u = s => pipe' = pipe /\ handing' = handing /\ queue' = queue
      BY <1>3, <2>2
      DEF Fresh, Log!Process, Log!Reader, Log!Emit, Log!Exit, Log!Flush, Log!Send, Log!inbound
    <3> QED BY <2>2, <3>2, <3>3 DEF Fresh
  <2>3. restarts' = restarts
    BY <2>1
  <2> HIDE DEF Quiet
  <2> QED BY <1>1, <2>1, <2>2, <2>3
<1>4. ASSUME NEW s \in Log!Streams, Log!Writer(s)
      PROVE  StoreTyped' /\ (FileInv /\ FirstRun => FileInv') /\ restarts' = restarts
  <2>1. restarts' = restarts
    BY <1>4 DEF Log!Writer, Log!AppendLines, Log!AppendFails, Log!Insert, Log!InsertFails, Log!counts
  <2>2. CASE Log!AppendFails(s)
    <3>1. ~FirstRun
      BY <2>2 DEF Log!AppendFails, FirstRun
    <3>2. StoreTyped'
      <4> DEFINE x == Head(queue[s])
      <4>1. PICK n \in 0..(Len(x) - 1) : Log!Grown(s, SubSeq(x, 1, n))
        BY <2>2 DEF Log!AppendFails
      <4>2. x \in Seq(Printed)
        <5>1. queue[s] \in Seq(Batches) /\ queue[s] # <<>>
          BY <2>2 DEF CountInv, WriterTyped, Log!AppendFails
        <5>2. x \in Batches
          BY <5>1, QueueLength
        <5> QED BY <5>2 DEF Batches
      <4> HIDE DEF x
      <4>3. SubSeq(x, 1, n) \in Seq(Printed)
        BY <4>2
      <4>4. UNCHANGED <<next, rows, clock, writer>>
        BY <2>2 DEF Log!AppendFails, Log!streams
      <4> QED BY <2>1, <4>1, <4>3, <4>4, GrownStored DEF StoreTyped, Log!Streams, Rows
    <3> QED BY <2>1, <3>1, <3>2
  <2> QED BY <1>4, <2>1, <2>2, AppendStored, InsertStored DEF Log!Writer
<1>5. CASE Log!Commands
  <2>1. restarts' = restarts
    BY <1>5 DEF Log!Commands, Log!Start, Log!StartFails, Log!Refuse, Log!Retain, Log!ForgetRows,
       Log!ForgetFails, Log!Clear, Log!QueryPage, Log!Answered, Log!Stop, Log!Export, Log!counts
  <2>2. CASE Log!Start \/ Log!StartFails \/ Log!Retain \/ Log!Clear
    BY <2>1, <2>2, StartStored, RemoveStored DEF FirstRun
  <2>3. CASE ~(Log!Start \/ Log!StartFails \/ Log!Retain \/ Log!Clear)
    <3>1. /\ UNCHANGED <<clock, job, writer, segment, next, pipe, handing, queue>>
          /\ running' \in SUBSET running
      BY <1>5, <2>3 DEF Log!Commands, Log!Refuse, Log!ForgetRows, Log!ForgetFails, Log!QueryPage,
         Log!Answered, Log!Stop, Log!Export, Log!streams, Log!stored, Log!inbound
    <3>2. rows' \in SUBSET rows
      BY <1>5, <2>3 DEF Log!Commands, Log!Refuse, Log!ForgetRows, Log!ForgetFails, Log!QueryPage,
         Log!Answered, Log!Stop, Log!Export, Log!stored, Log!Respond, Log!Without
    <3>3. Quiet
      BY <2>1, <3>1, <3>2
    <3> HIDE DEF Quiet
    <3>4. StoreTyped' /\ (FileInv => FileInv')
      BY <1>1, <3>1, <3>3 DEF Fresh
    <3> QED BY <2>1, <3>4 DEF FirstRun
  <2> QED BY <2>2, <2>3
<1>6. CASE UNCHANGED log
  <2>1. Quiet /\ UNCHANGED <<pipe, handing, queue, restarts>>
    BY <1>6 DEF log
  <2> HIDE DEF Quiet
  <2>2. StoreTyped' /\ (FileInv => FileInv')
    BY <1>1, <2>1 DEF Fresh
  <2> QED BY <2>1, <2>2 DEF FirstRun
<1>7. CASE Log!Tick
  BY <1>7, TickStored DEF FirstRun
<1> QED BY <1>2, <1>3, <1>4, <1>5, <1>6, <1>7 DEF Log!Next, FirstRun

-----------------------------------------------------------------------------
(* The order of the table.                                                   *)

\* The cardinality of the instance is that of the sets.
LEMMA SameCardinality == \A S : Log!Cardinality(S) = Cardinality(S)
BY DEF Log!Cardinality, Cardinality

\* How many of a finite set have a greater number than x, for numbers that tell them apart.
Above(S, k, x) == Cardinality({y \in S : k[y] > k[x]})

\* They are counted from 0, one number to each.
LEMMA Ranked ==
    ASSUME NEW S, IsFiniteSet(S), NEW k \in [S -> Nat], \A x, y \in S : k[x] = k[y] => x = y
    PROVE  /\ Cardinality(S) \in Nat
           /\ \A x \in S : Above(S, k, x) \in 0..(Cardinality(S) - 1)
           /\ \A x, y \in S : k[y] > k[x] => Above(S, k, y) < Above(S, k, x)
           /\ \A n \in 0..(Cardinality(S) - 1) : \E x \in S : Above(S, k, x) = n
<1> DEFINE A(x) == {y \in S : k[y] > k[x]}
           n == Cardinality(S)
<1>1. n \in Nat
  BY FS_CardinalityType
<1>2. ASSUME NEW x \in S
      PROVE  IsFiniteSet(A(x)) /\ Cardinality(A(x)) \in Nat /\ Above(S, k, x) \in 0..(n - 1)
  <2>1. IsFiniteSet(S \ {x}) /\ Cardinality(S \ {x}) = n - 1
    BY FS_RemoveElement
  <2>2. A(x) \in SUBSET (S \ {x})
    OBVIOUS
  <2>3. IsFiniteSet(A(x)) /\ Cardinality(A(x)) <= n - 1
    BY <2>1, <2>2, FS_Subset
  <2>4. Cardinality(A(x)) \in Nat
    BY <2>3, FS_CardinalityType
  <2> QED BY <1>1, <2>3, <2>4 DEF Above
<1>3. ASSUME NEW x \in S, NEW y \in S, k[y] > k[x]
      PROVE  Above(S, k, y) < Above(S, k, x)
  <2>1. y \in A(x) /\ A(y) \in SUBSET (A(x) \ {y})
    BY <1>3
  <2>2. IsFiniteSet(A(x) \ {y}) /\ Cardinality(A(x) \ {y}) = Cardinality(A(x)) - 1
    BY <1>2, <2>1, FS_RemoveElement
  <2>3. Cardinality(A(y)) <= Cardinality(A(x)) - 1
    BY <2>1, <2>2, FS_Subset
  <2>4. Cardinality(A(x)) \in Nat /\ Cardinality(A(y)) \in Nat
    BY <1>2
  <2> HIDE DEF A
  <2>5. Cardinality(A(y)) < Cardinality(A(x))
    BY <2>3, <2>4
  <2> QED BY <2>5 DEF Above, A
<1>4. ASSUME NEW m \in 0..(n - 1) PROVE \E x \in S : Above(S, k, x) = m
  <2> DEFINE T == 0..(n - 1)
             f == [x \in S |-> Above(S, k, x)]
  <2>1. IsFiniteSet(T) /\ Cardinality(T) = n
    <3>1. 0 \in Int /\ n - 1 \in Int
      BY <1>1
    <3>2. IsFiniteSet(T) /\ Cardinality(T) = IF 0 > n - 1 THEN 0 ELSE n - 1 - 0 + 1
      BY <3>1, FS_Interval
    <3> QED BY <1>1, <3>2
  <2>2. f \in [S -> T]
    BY <1>2
  <2>3. ASSUME NEW x \in S, NEW y \in S, f[x] = f[y] PROVE x = y
    <3>1. Above(S, k, x) = Above(S, k, y)
      BY <2>3
    <3>2. Above(S, k, x) \in Nat
      <4>1. Above(S, k, x) \in 0..(n - 1)
        BY <1>2
      <4> QED BY <4>1
    <3>3. ~(k[y] > k[x]) /\ ~(k[x] > k[y])
      BY <1>3, <3>1, <3>2
    <3> QED BY <3>3
  <2> HIDE DEF f, T
  <2>4. f \in Injection(S, T)
    BY <2>2, <2>3 DEF Injection, IsInjective
  <2>5. f \in Surjection(S, T)
    BY <2>1, <2>4, FS_Injection
  <2>6. PICK x \in S : f[x] = m
    BY <2>5 DEF Surjection, T
  <2> QED BY <2>6 DEF f
<1> QED BY <1>1, <1>2, <1>3, <1>4

\* The rows of a stream are apart, and the newer one has the greater numbers.
LEMMA RowOrder ==
    ASSUME StoreTyped, FileInv, NEW q \in rows, NEW r \in rows, q.stream = r.stream
    PROVE  /\ q \in Rows /\ q.first \in Printed /\ Len(q.lines) \in Nat \ {0}
           /\ Log!Newer(q, r) <=> q.first > r.first
           /\ q.first = r.first => q = r
           /\ q.first > r.first => Before(r, q)
<1>1. /\ q \in Rows /\ r \in Rows /\ q.first = q.off + 1 /\ r.first = r.off + 1
      /\ q = r \/ Before(q, r) \/ Before(r, q)
  BY DEF StoreTyped, FileInv, RowsApart, RowTrue
<1>2. ASSUME NEW p \in Rows
      PROVE  /\ p.at \in Nat /\ p.off \in Nat /\ Len(p.lines) \in Nat \ {0}
             /\ Head(p.lines) \in Nat
  <2>1. p.at \in Nat /\ p.off \in Nat /\ p.lines \in Seq(Printed) /\ p.lines # <<>>
    BY DEF Rows, Batches
  <2> DEFINE l == p.lines
  <2> HIDE DEF l
  <2>2. l \in Seq(Printed) /\ l # <<>>
    BY <2>1 DEF l
  <2>3. Len(l) \in Nat \ {0} /\ Head(l) \in Printed
    BY <2>2, EmptySeq
  <2> QED BY <2>1, <2>3 DEF l, Printed
<1>3. /\ q.at \in Nat /\ q.off \in Nat /\ Len(q.lines) \in Nat \ {0} /\ Head(q.lines) \in Nat
      /\ r.at \in Nat /\ r.off \in Nat /\ Len(r.lines) \in Nat \ {0} /\ Head(r.lines) \in Nat
  BY <1>1, <1>2
<1>4. CASE q = r
  BY <1>1, <1>3, <1>4 DEF Log!Newer, Printed
<1>5. CASE Before(q, r)
  <2>1. q.at <= r.at /\ q.first < r.first
    BY <1>1, <1>3, <1>5 DEF Before
  <2> QED BY <1>1, <1>3, <2>1 DEF Log!Newer, Printed
<1>6. CASE Before(r, q)
  <2>1. r.at <= q.at /\ r.first < q.first
    BY <1>1, <1>3, <1>6 DEF Before
  <2> QED BY <1>1, <1>3, <1>6, <2>1 DEF Log!Newer, Printed
<1> QED BY <1>1, <1>4, <1>5, <1>6

\* The number of a line.
Seqno(x) == x[1].first + x[2] - 1

\* The lines of a page and their numbers.
LEMMA Scan ==
    ASSUME CountInv, StoreTyped, FileInv, command.stream \in Log!Streams, NEW page \in SUBSET Log!Mine
    PROVE  /\ IsFiniteSet(Log!Scanned(page))
           /\ \A x \in Log!Scanned(page) :
                 /\ x = <<x[1], x[2]>> /\ x[1] \in page /\ x[2] \in 1..Len(x[1].lines)
                 /\ Seqno(x) \in Printed /\ Log!Numbered(x[1], x[2])[1] = Seqno(x)
                 /\ Log!Intact(x[1]) /\ Log!InScope(Seqno(x))
           /\ \A x, y \in Log!Scanned(page) :
                 /\ Seqno(x) = Seqno(y) => x = y
                 /\ Log!Sooner(x, y) <=> Seqno(x) > Seqno(y)
<1> DEFINE S == Log!Scanned(page)
           s == command.stream
<1>1. ASSUME NEW x \in S
      PROVE  /\ x = <<x[1], x[2]>> /\ x[1] \in page /\ x[2] \in 1..Len(x[1].lines)
             /\ Log!Intact(x[1]) /\ Log!InScope(Log!Numbered(x[1], x[2])[1])
             /\ Log!Numbered(x[1], x[2])[1] = Seqno(x)
  <2>1. PICK r \in page : x \in {r} \X (1..Len(r.lines)) /\ Log!Intact(r)
    BY DEF Log!Scanned
  <2>2. Log!InScope(Log!Numbered(x[1], x[2])[1])
    BY DEF Log!Scanned
  <2>3. x = <<x[1], x[2]>> /\ x[1] = r /\ x[2] \in 1..Len(r.lines)
    BY <2>1
  <2>4. Log!Numbered(x[1], x[2])[1] = Seqno(x)
    BY DEF Log!Numbered, Seqno
  <2> QED BY <2>1, <2>2, <2>3, <2>4
<1>2. ASSUME NEW r \in page
      PROVE  r \in rows /\ r.stream = s /\ r.first \in Printed /\ Len(r.lines) \in Nat \ {0}
             /\ r.off \in Nat
  <2>1. r \in rows /\ r.stream = s
    BY DEF Log!Mine
  <2> QED BY <2>1, RowOrder DEF Rows
<1>3. ASSUME NEW x \in S PROVE Seqno(x) \in Printed
  BY <1>1, <1>2 DEF Seqno, Printed
<1>4. IsFiniteSet(S)
  <2> DEFINE U == page \X (1..Len(segment[s]))
  <2>1. segment[s] \in Seq(Nat)
    BY DEF CountInv, WriterTyped
  <2>2. IsFiniteSet(page)
    <3>1. page \in SUBSET rows
      BY DEF Log!Mine
    <3> QED BY <3>1, FS_Subset DEF StoreTyped
  <2>3. IsFiniteSet(1..Len(segment[s]))
    <3>1. 1 \in Int /\ Len(segment[s]) \in Int
      BY <2>1
    <3> QED BY <3>1, FS_Interval
  <2>4. IsFiniteSet(U)
    BY <2>2, <2>3, FS_Product
  <2>5. ASSUME NEW x \in S PROVE x \in U
    <3>1. x = <<x[1], x[2]>> /\ x[1] \in page /\ x[2] \in 1..Len(x[1].lines)
          /\ x[1].off + Len(x[1].lines) <= Len(segment[s])
      BY <1>1, <1>2 DEF Log!Intact
    <3>2. x[2] \in 1..Len(segment[s])
      <4>1. Len(segment[s]) \in Nat /\ x[1].off \in Nat /\ Len(x[1].lines) \in Nat
        BY <1>2, <2>1, <3>1
      <4> QED BY <3>1, <4>1
    <3> QED BY <3>1, <3>2
  <2> HIDE DEF U, S
  <2>6. S \in SUBSET U
    BY <2>5
  <2> QED BY <2>4, <2>6, FS_Subset
<1>5. ASSUME NEW x \in S, NEW y \in S
      PROVE  /\ Seqno(x) = Seqno(y) => x = y
             /\ Log!Sooner(x, y) <=> Seqno(x) > Seqno(y)
  <2> DEFINE q == x[1]
             r == y[1]
  <2>1. /\ q \in rows /\ r \in rows /\ q.stream = r.stream
        /\ x = <<q, x[2]>> /\ y = <<r, y[2]>>
        /\ x[2] \in 1..Len(q.lines) /\ y[2] \in 1..Len(r.lines)
        /\ q.off \in Nat /\ r.off \in Nat /\ Len(q.lines) \in Nat /\ Len(r.lines) \in Nat
    BY <1>1, <1>2
  <2>2. q.first = q.off + 1 /\ r.first = r.off + 1
    BY <2>1 DEF FileInv, RowTrue
  <2> HIDE DEF q, r
  <2>3. Seqno(x) = q.off + x[2] /\ Seqno(y) = r.off + y[2]
    BY <2>1, <2>2 DEF Seqno, q, r
  <2>4. Log!Sooner(x, y) <=> Log!Newer(q, r) \/ (q = r /\ x[2] > y[2])
    BY DEF Log!Sooner, q, r
  <2>5. CASE q = r
    <3>1. ~Log!Newer(q, r)
      BY <2>1, <2>2, <2>5, RowOrder
    <3> QED BY <2>1, <2>3, <2>4, <2>5, <3>1
  <2>6. CASE q # r
    <3>1. q.first > r.first \/ r.first > q.first
      BY <2>1, <2>2, <2>6, RowOrder
    <3>2. CASE q.first > r.first
      <4>1. Log!Newer(q, r) /\ Before(r, q)
        BY <2>1, <3>2, RowOrder
      <4>2. Seqno(x) > Seqno(y)
        BY <2>1, <2>3, <4>1 DEF Before
      <4> QED BY <2>1, <2>3, <2>4, <4>1, <4>2
    <3>3. CASE r.first > q.first
      <4>1. ~Log!Newer(q, r) /\ Before(q, r)
        BY <2>1, <2>2, <3>3, RowOrder
      <4>2. Seqno(y) > Seqno(x)
        BY <2>1, <2>3, <4>1 DEF Before
      <4> QED BY <2>1, <2>3, <2>4, <2>6, <4>1, <4>2
    <3> QED BY <3>1, <3>2, <3>3
  <2> QED BY <2>5, <2>6
<1> QED BY <1>1, <1>3, <1>4, <1>5

\* They are looked at in the order of their numbers, the greatest first.
LEMMA Ordered ==
    ASSUME CountInv, StoreTyped, FileInv, command.stream \in Log!Streams, NEW page \in SUBSET Log!Mine
    PROVE  LET S == Log!Scanned(page)
               l == Log!Candidates(page)
           IN  /\ l \in Seq(S)
               /\ \A x \in S : \E n \in 1..Len(l) : l[n] = x
               /\ \A n \in 1..Len(l) : \A x \in S :
                     Seqno(x) >= Seqno(l[n]) => \E m \in 1..n : l[m] = x
<1> DEFINE S == Log!Scanned(page)
           l == Log!Candidates(page)
           k == [x \in S |-> Seqno(x)]
           c == Log!Cardinality(S)
           P(x) == Log!Cardinality({y \in S : Log!Sooner(y, x)})
<1>1. IsFiniteSet(S) /\ k \in [S -> Nat] /\ (\A x, y \in S : k[x] = k[y] => x = y)
  BY Scan DEF Printed
<1>2. ASSUME NEW x \in S PROVE P(x) = Above(S, k, x)
  <2>1. {y \in S : Log!Sooner(y, x)} = {y \in S : k[y] > k[x]}
    BY Scan
  <2> QED BY <2>1, SameCardinality DEF Above
<1>3. l = [n \in 1..c |-> CHOOSE x \in S : P(x) = n - 1]
  BY DEF Log!Candidates
<1> HIDE DEF S, l, k, P
<1>4. /\ c \in Nat
      /\ \A x \in S : P(x) \in 0..(c - 1)
      /\ \A x, y \in S : k[y] > k[x] => P(y) < P(x)
      /\ \A n \in 0..(c - 1) : \E x \in S : P(x) = n
  <2>1. c = Cardinality(S)
    BY SameCardinality
  <2> HIDE DEF c
  <2>2. /\ c \in Nat
        /\ \A x \in S : Above(S, k, x) \in 0..(c - 1)
        /\ \A x, y \in S : k[y] > k[x] => Above(S, k, y) < Above(S, k, x)
        /\ \A n \in 0..(c - 1) : \E x \in S : Above(S, k, x) = n
    BY <1>1, <2>1, Ranked
  <2> QED BY <1>2, <2>2
<1> HIDE DEF c
<1>5. ASSUME NEW n \in 1..c PROVE l[n] \in S /\ P(l[n]) = n - 1
  <2>1. n - 1 \in 0..(c - 1)
    BY <1>4
  <2>2. \E x \in S : P(x) = n - 1
    BY <1>4, <2>1
  <2>3. l[n] = CHOOSE x \in S : P(x) = n - 1
    BY <1>3
  <2> QED BY <2>2, <2>3
<1>6. l \in Seq(S) /\ Len(l) = c
  <2>1. l \in [1..c -> S]
    BY <1>3, <1>5
  <2> QED BY <1>4, <2>1
<1>7. ASSUME NEW x \in S PROVE P(x) + 1 \in 1..c /\ l[P(x) + 1] = x
  <2>1. P(x) + 1 \in 1..c /\ (P(x) + 1) - 1 = P(x) /\ P(x) \in Nat
    BY <1>4
  <2> DEFINE y == l[P(x) + 1]
  <2>2. y \in S /\ P(y) = P(x)
    BY <1>5, <2>1
  <2> HIDE DEF y
  <2>3. ~(k[y] > k[x]) /\ ~(k[x] > k[y])
    BY <1>4, <2>1, <2>2
  <2>4. k[x] = k[y]
    BY <1>1, <2>2, <2>3
  <2>5. x = y
    BY <1>1, <2>2, <2>4
  <2> QED BY <2>1, <2>5 DEF y
<1>8. ASSUME NEW n \in 1..c, NEW x \in S, Seqno(x) >= Seqno(l[n])
      PROVE  \E m \in 1..n : l[m] = x
  <2>1. k[x] >= k[l[n]] /\ l[n] \in S /\ P(l[n]) = n - 1
    BY <1>5, <1>8 DEF k
  <2>2. x = l[n] \/ k[x] > k[l[n]]
    BY <1>1, <2>1
  <2>3. P(x) <= n - 1 /\ P(x) \in Nat
    BY <1>4, <2>1, <2>2
  <2>4. P(x) + 1 \in 1..n
    BY <1>4, <2>3
  <2> QED BY <1>7, <2>4
<1> QED BY <1>6, <1>7, <1>8 DEF S, l

-----------------------------------------------------------------------------
(* An export.                                                                *)

\* What an export has, as numbers and lines.
Hits == Printed \X Nat
Has(found, x)     == \E n \in 1..Len(found) : found[n][2] = x
Reaches(found, p) == \E n \in 1..Len(found) : found[n][1] <= p

Queries == [at : {"query"}, stream : Log!Streams, cursor : Nat, now : Nat, offset : Nat,
            matched : Seq(Hits), orphans : SUBSET Log!Streams, found : Seq(Hits), due : SUBSET Rows]

\* The i-th line x of a row was found if the query is past it.
Passed(r, i, x) ==
    LET p == r.first + i - 1 IN
       /\ ~Log!InScope(p) => Has(command.found, x)
       /\ Log!InScope(p) /\ (Log!Place(r) < command.offset \/ Reaches(command.matched, p))
             => Has(command.matched, x)

Sought(r) == r \in Log!Mine /\ \A i \in 1..Len(r.lines) : Passed(r, i, r.lines[i])

QueryInv ==
    command.at = "query" =>
       /\ command \in Queries
       /\ command.now <= clock
       /\ Len(command.matched) < Limit
       /\ command.due # {} => segment[command.stream] # Log!Gone /\ command.orphans = {}
       /\ \A r \in command.due : Log!Recent(r) => Sought(r)

\* The places of the rows and the next page of them.
LEMMA Places ==
    ASSUME StoreTyped, FileInv, command.stream \in Log!Streams, command.offset \in Nat
    PROVE  /\ IsFiniteSet(Log!Mine)
           /\ Log!Cardinality(Log!Page) \in Nat
           /\ \A r \in Log!Mine :
                 /\ Log!Place(r) \in Nat
                 /\ Log!Place(r) >= command.offset => Log!Page # {}
                 /\ Log!Place(r) < command.offset + Log!Cardinality(Log!Page)
                       => Log!Place(r) < command.offset \/ r \in Log!Page
           /\ \A q, r \in Log!Mine : r.first > q.first => Log!Place(r) < Log!Place(q)
<1> DEFINE S == Log!Mine
           k == [r \in S |-> r.first]
           o == command.offset
           P == Log!Page
<1>1. S \in SUBSET rows /\ IsFiniteSet(S)
  <2>1. S \in SUBSET rows
    BY DEF Log!Mine
  <2> QED BY <2>1, FS_Subset DEF StoreTyped
<1>2. ASSUME NEW q \in S, NEW r \in S
      PROVE  /\ q.first \in Nat /\ (q.first = r.first => q = r)
             /\ Log!Newer(q, r) <=> q.first > r.first
  <2>1. q \in rows /\ r \in rows /\ q.stream = r.stream
    BY DEF Log!Mine
  <2> QED BY <2>1, RowOrder DEF Printed
<1>3. k \in [S -> Nat] /\ \A q, r \in S : k[q] = k[r] => q = r
  BY <1>2
<1>4. ASSUME NEW r \in S PROVE Log!Place(r) = Above(S, k, r)
  <2>1. {q \in S : Log!Newer(q, r)} = {q \in S : k[q] > k[r]}
    BY <1>2
  <2> QED BY <2>1, SameCardinality DEF Above, Log!Place
<1>5. P = {r \in S : Log!Place(r) \in o..(o + PageBatches - 1)}
  BY DEF Log!Page
<1>6. k = [r \in S |-> r.first]
  OBVIOUS
<1> HIDE DEF S, P, k, o
<1>7. /\ Cardinality(S) \in Nat
      /\ \A r \in S : Log!Place(r) \in 0..(Cardinality(S) - 1)
      /\ \A q, r \in S : k[r] > k[q] => Log!Place(r) < Log!Place(q)
      /\ \A n \in 0..(Cardinality(S) - 1) : \E r \in S : Log!Place(r) = n
  <2>1. /\ Cardinality(S) \in Nat
        /\ \A r \in S : Above(S, k, r) \in 0..(Cardinality(S) - 1)
        /\ \A q, r \in S : k[r] > k[q] => Above(S, k, r) < Above(S, k, q)
        /\ \A n \in 0..(Cardinality(S) - 1) : \E r \in S : Above(S, k, r) = n
    BY <1>1, <1>3, Ranked
  <2> QED BY <1>4, <2>1
<1>8. o \in Nat /\ PageBatches \in Nat \ {0}
  BY Sizes DEF o
<1>9. ASSUME NEW r \in S, Log!Place(r) >= o PROVE P # {}
  <2>1. o \in 0..(Cardinality(S) - 1)
    BY <1>7, <1>8, <1>9
  <2>2. PICK q \in S : Log!Place(q) = o
    BY <1>7, <2>1
  <2>3. q \in P
    BY <1>5, <1>8, <2>2
  <2> QED BY <2>3
<1>10. IsFiniteSet(P) /\ Cardinality(P) \in Nat /\ Cardinality(P) <= PageBatches
  <2> DEFINE T == o..(o + PageBatches - 1)
             f == [r \in P |-> Log!Place(r)]
  <2>1. IsFiniteSet(T) /\ Cardinality(T) = PageBatches
    <3>1. o \in Int /\ o + PageBatches - 1 \in Int /\ ~(o > o + PageBatches - 1)
          /\ (o + PageBatches - 1) - o + 1 = PageBatches
      BY <1>8
    <3> QED BY <3>1, FS_Interval
  <2>2. f \in [P -> T]
    BY <1>5
  <2>3. ASSUME NEW q \in P, NEW r \in P, f[q] = f[r] PROVE q = r
    <3>1. q \in S /\ r \in S /\ Log!Place(q) = Log!Place(r)
      BY <1>5, <2>3
    <3>2. Log!Place(q) \in Nat
      BY <1>7, <3>1
    <3>3. ~(k[q] > k[r]) /\ ~(k[r] > k[q])
      BY <1>7, <3>1, <3>2
    <3> QED BY <1>3, <3>1, <3>3
  <2> HIDE DEF f, T
  <2>4. f \in Injection(P, T)
    BY <2>2, <2>3 DEF Injection, IsInjective
  <2>5. IsFiniteSet(P) /\ Cardinality(P) <= Cardinality(T)
    BY <2>1, <2>4, FS_Injection
  <2>6. Cardinality(P) \in Nat
    BY <2>5, FS_CardinalityType
  <2> QED BY <2>1, <2>5, <2>6
<1>11. ASSUME NEW r \in S, Log!Place(r) < o + Cardinality(P)
       PROVE  Log!Place(r) < o \/ r \in P
  <2>1. Log!Place(r) \in Nat
    BY <1>7
  <2>2. Log!Place(r) < o \/ Log!Place(r) \in o..(o + PageBatches - 1)
    BY <1>8, <1>10, <1>11, <2>1
  <2> QED BY <1>5, <2>2
<1>12. \A q, r \in S : r.first > q.first => Log!Place(r) < Log!Place(q)
  BY <1>6, <1>7
<1>13. \A r \in S : Log!Place(r) \in Nat
  BY <1>7
<1> QED BY <1>1, <1>9, <1>10, <1>11, <1>12, <1>13, SameCardinality DEF S, P, o

\* While the file of the stream is there, it has the lines of all of its rows.
LEMMA MineIntact ==
    ASSUME CountInv, StoreTyped, FileInv, segment[command.stream] # Log!Gone, NEW r \in Log!Mine
    PROVE  /\ r.off \in Nat /\ r.first = r.off + 1 /\ Len(r.lines) \in Nat
           /\ r.stream = command.stream /\ Log!Intact(r) /\ InFile(r.stream, r.off, r.lines)
<1>1. r \in rows /\ r.stream = command.stream /\ r \in Rows
  BY DEF Log!Mine, StoreTyped
<1>2. /\ r.off \in Nat /\ r.first = r.off + 1 /\ Len(r.lines) \in Nat
      /\ r.off + Len(r.lines) <= Entered(r.stream)
      /\ writer[r.stream].linked /\ InFile(r.stream, r.off, r.lines)
  BY <1>1 DEF FileInv, RowTrue, Rows, Batches
<1>3. r.off + Len(r.lines) <= Len(segment[r.stream])
  <2>0. r.stream \in Log!Streams
    BY <1>1 DEF Rows
  <2>1. /\ job[r.stream] \in Jobs /\ writer[r.stream] \in Writers
        /\ job[r.stream] # Log!NoJob => job[r.stream].lines # <<>>
    BY <2>0 DEF CountInv, WriterTyped
  <2>2. /\ Len(segment[r.stream]) = writer[r.stream].off
        /\ job[r.stream] # Log!NoJob =>
              job[r.stream].off + Len(job[r.stream].lines) = writer[r.stream].off
    BY <1>2, <2>0 DEF FileInv, FileKnown
  <2>3. /\ job[r.stream].off \in Nat /\ Len(job[r.stream].lines) \in Nat
        /\ writer[r.stream].off \in Nat
    BY <2>1 DEF Jobs, Writers
  <2>4. Entered(r.stream) <= writer[r.stream].off /\ Entered(r.stream) \in Nat
    BY <2>2, <2>3 DEF Entered
  <2> QED BY <1>2, <2>2, <2>3, <2>4
<1> QED BY <1>1, <1>2, <1>3 DEF Log!Intact

\* A line in scope of a row on the page is looked at, and reads as it was entered.
LEMMA ScanReads ==
    ASSUME CountInv, StoreTyped, FileInv, command.cursor \in Nat,
           segment[command.stream] # Log!Gone,
           NEW r \in Log!Mine, NEW i \in 1..Len(r.lines), Log!InScope(r.first + i - 1)
    PROVE  /\ r \in Log!Page => <<r, i>> \in Log!Scanned(Log!Page)
           /\ Seqno(<<r, i>>) = r.first + i - 1
           /\ Log!Numbered(r, i) = <<r.first + i - 1, r.lines[i]>>
<1>1. /\ r.off \in Nat /\ r.first = r.off + 1 /\ Len(r.lines) \in Nat
      /\ Log!Intact(r) /\ InFile(r.stream, r.off, r.lines)
  BY MineIntact
<1>2. ~Log!Excluded(r)
  BY <1>1 DEF Log!Excluded, Log!InScope
<1>3. Seqno(<<r, i>>) = r.first + i - 1 /\ Log!Numbered(r, i) = <<r.first + i - 1, r.lines[i]>>
  BY <1>1 DEF Seqno, Log!Numbered, InFile
<1>4. r \in Log!Page => <<r, i>> \in Log!Scanned(Log!Page)
  BY <1>1, <1>2, <1>3 DEF Log!Scanned
<1> QED BY <1>3, <1>4

\* What a query has with the first n of the lines.
Taken(l, n) == command.matched \o [k \in 1..n |-> Log!Numbered(l[k][1], l[k][2])]

\* It is a sequence of numbers and lines.
LEMMA TakenType ==
    ASSUME CountInv, StoreTyped, FileInv, command \in Queries,
           NEW l \in Seq(Log!Scanned(Log!Page)), NEW n \in 0..Len(l)
    PROVE  /\ Taken(l, n) \in Seq(Hits) /\ Len(command.matched) \in Nat
           /\ Len(Taken(l, n)) = Len(command.matched) + n
           /\ \A k \in 1..Len(command.matched) : Taken(l, n)[k] = command.matched[k]
           /\ \A k \in 1..n : /\ Taken(l, n)[Len(command.matched) + k] = Log!Numbered(l[k][1], l[k][2])
                              /\ Taken(l, n)[Len(command.matched) + k][1] = Seqno(l[k])
<1> DEFINE t == [k \in 1..n |-> Log!Numbered(l[k][1], l[k][2])]
           m == command.matched
<1>1. command.stream \in Log!Streams /\ m \in Seq(Hits) /\ Log!Page \in SUBSET Log!Mine
  BY DEF Queries, Log!Page
<1>2. ASSUME NEW k \in 1..n
      PROVE  t[k] \in Hits /\ t[k] = Log!Numbered(l[k][1], l[k][2]) /\ t[k][1] = Seqno(l[k])
  <2> DEFINE x == l[k]
             r == x[1]
  <2>1. x \in Log!Scanned(Log!Page)
    OBVIOUS
  <2> HIDE DEF x
  <2>2. /\ r \in Log!Page /\ x[2] \in 1..Len(r.lines) /\ Log!Intact(r)
        /\ Seqno(x) \in Printed /\ Log!Numbered(r, x[2])[1] = Seqno(x)
    BY <1>1, <2>1, Scan
  <2>3. r \in Rows /\ r.stream \in Log!Streams /\ r.off \in Nat /\ r.lines \in Seq(Printed)
    BY <2>2 DEF Log!Page, Log!Mine, StoreTyped, Rows, Batches
  <2> DEFINE f == segment[r.stream]
  <2>4. f \in Seq(Nat) /\ r.off + Len(r.lines) <= Len(f)
    BY <2>2, <2>3 DEF CountInv, WriterTyped, Log!Intact
  <2> HIDE DEF f
  <2>5. f[r.off + x[2]] \in Nat
    <3>1. Len(r.lines) \in Nat /\ Len(f) \in Nat
      BY <2>3, <2>4
    <3>2. r.off + x[2] \in 1..Len(f)
      BY <2>2, <2>3, <2>4, <3>1
    <3> QED BY <2>4, <3>2
  <2>6. Log!Numbered(r, x[2]) = <<Seqno(x), f[r.off + x[2]]>>
    BY <2>2 DEF Log!Numbered, f
  <2>7. Log!Numbered(r, x[2]) \in Hits
    BY <2>2, <2>5, <2>6 DEF Hits
  <2> QED BY <2>2, <2>7 DEF x
<1>3. t \in Seq(Hits) /\ Len(t) = n
  <2>1. n \in Nat
    OBVIOUS
  <2>2. t \in [1..n -> Hits]
    BY <1>2
  <2> HIDE DEF t
  <2> QED BY <2>1, <2>2
<1>4. Taken(l, n) = m \o t
  BY DEF Taken
<1> HIDE DEF t, m
<1>5. /\ m \o t \in Seq(Hits) /\ Len(m) \in Nat /\ Len(m \o t) = Len(m) + n
      /\ \A k \in 1..Len(m) : (m \o t)[k] = m[k]
      /\ \A k \in 1..n : (m \o t)[Len(m) + k] = t[k]
  <2>1. n \in Nat
    OBVIOUS
  <2>2. /\ m \o t \in Seq(Hits) /\ Len(m) \in Nat /\ Len(m \o t) = Len(m) + n
    BY <1>1, <1>3, <2>1
  <2>3. ASSUME NEW k \in 1..Len(m) PROVE (m \o t)[k] = m[k]
    BY <1>1, <1>3
  <2>4. ASSUME NEW k \in 1..n PROVE (m \o t)[Len(m) + k] = t[k]
    BY <1>1, <1>3
  <2> QED BY <2>2, <2>3, <2>4
<1> QED BY <1>2, <1>4, <1>5 DEF m

\* Whoever reaches a number has the lines with that number and above; and all of
\* the page, if it has all of the lines.
LEMMA TakenHas ==
    ASSUME CountInv, StoreTyped, FileInv, command \in Queries, segment[command.stream] # Log!Gone,
           NEW r \in Log!Mine, NEW i \in 1..Len(r.lines), NEW p, p = r.first + i - 1,
           Log!InScope(p), Passed(r, i, r.lines[i]),
           NEW l, l = Log!Candidates(Log!Page), NEW n \in 0..Len(l), NEW M, M = Taken(l, n),
           \/ Reaches(M, p)
           \/ n = Len(l) /\ Log!Place(r) < command.offset + Log!Cardinality(Log!Page)
    PROVE  Has(M, r.lines[i])
<1> DEFINE m == command.matched
           S == Log!Scanned(Log!Page)
           x == <<r, i>>
           b == r.lines[i]
<1>1. /\ command.stream \in Log!Streams /\ command.cursor \in Nat /\ command.offset \in Nat
      /\ m \in Seq(Hits) /\ Log!Page \in SUBSET Log!Mine
  BY DEF Queries, Log!Page
<1>2. /\ l \in Seq(S)
      /\ \A y \in S : \E k \in 1..Len(l) : l[k] = y
      /\ \A k \in 1..Len(l) : \A y \in S : Seqno(y) >= Seqno(l[k]) => \E j \in 1..k : l[j] = y
  BY <1>1, Ordered
<1>3. /\ r \in Log!Page => x \in S
      /\ Seqno(x) = p /\ Log!Numbered(r, i) = <<p, b>> /\ x[1] = r /\ x[2] = i
  BY <1>1, ScanReads
<1>4. /\ M \in Seq(Hits) /\ Len(m) \in Nat /\ Len(M) = Len(m) + n /\ n \in Nat
      /\ \A k \in 1..Len(m) : M[k] = m[k]
      /\ \A k \in 1..n : /\ M[Len(m) + k] = Log!Numbered(l[k][1], l[k][2])
                         /\ M[Len(m) + k][1] = Seqno(l[k])
  <2>1. l \in Seq(Log!Scanned(Log!Page)) /\ n \in 0..Len(l)
    BY <1>2
  <2>2. n \in Nat
    BY <2>1
  <2> QED BY <2>1, <2>2, TakenType
<1>5. /\ ~Log!InScope(p) => Has(command.found, b)
      /\ Log!InScope(p) /\ (Log!Place(r) < command.offset \/ Reaches(m, p)) => Has(m, b)
  BY DEF Passed
<1> HIDE DEF m, S, x, b
<1> SUFFICES Has(M, b)
  BY DEF b
\* What is taken already, or now, is there.
<1>6. Has(m, b) => Has(M, b)
  BY <1>4 DEF Has
<1>7. ASSUME NEW k \in 1..n, l[k] = x PROVE Has(M, b)
  <2>1. M[Len(m) + k] = <<p, b>>
    BY <1>3, <1>4, <1>7
  <2>2. Len(m) + k \in 1..Len(M) /\ M[Len(m) + k][2] = b
    BY <1>4, <2>1
  <2> QED BY <2>2 DEF Has
<1>8. Log!Place(r) < command.offset => Has(M, b)
  BY <1>5, <1>6
<1>9. CASE n = Len(l) /\ Log!Place(r) < command.offset + Log!Cardinality(Log!Page)
  <2>1. Log!Place(r) < command.offset \/ r \in Log!Page
    BY <1>1, <1>9, Places
  <2>2. CASE r \in Log!Page
    <3>1. PICK k \in 1..Len(l) : l[k] = x
      BY <1>2, <1>3, <2>2
    <3> QED BY <1>7, <1>9, <3>1
  <2> QED BY <1>8, <2>1, <2>2
<1>10. CASE Reaches(M, p)
  <2>1. PICK h \in 1..Len(M) : M[h][1] <= p
    BY <1>10 DEF Reaches
  <2>2. CASE h \in 1..Len(m)
    <3>1. Reaches(m, p)
      BY <1>4, <2>1, <2>2 DEF Reaches
    <3> QED BY <1>5, <1>6, <3>1
  <2>3. CASE h \notin 1..Len(m)
    <3>1. PICK k \in 1..n : h = Len(m) + k
      <4>1. h - Len(m) \in 1..n /\ h = Len(m) + (h - Len(m))
        BY <1>4, <2>3
      <4> QED BY <4>1
    <3>2. k \in 1..Len(l) /\ l[k] \in S
      <4>1. n \in 0..Len(l) /\ Len(l) \in Nat
        BY <1>2
      <4>2. k \in 1..Len(l)
        BY <3>1, <4>1
      <4> QED BY <1>2, <4>2
    <3>3. Seqno(l[k]) <= p
      BY <1>4, <2>1, <3>1
    <3>4. PICK q \in Log!Page : \E d \in 1..Len(q.lines) : Seqno(l[k]) = q.first + d - 1
      <4>1. l[k] \in Log!Scanned(Log!Page)
        BY <3>2 DEF S
      <4>2. l[k][1] \in Log!Page /\ l[k][2] \in 1..Len(l[k][1].lines)
        BY <1>1, <4>1, Scan
      <4> QED BY <4>2 DEF Seqno
    <3>5. PICK d \in 1..Len(q.lines) : Seqno(l[k]) = q.first + d - 1
      BY <3>4
    <3>6. q \in rows /\ r \in rows /\ q.stream = r.stream /\ q \in Log!Mine
      BY <1>1 DEF Log!Mine
    <3>7. q \in Rows /\ r \in Rows /\ RowTrue(q) /\ RowTrue(r)
      BY <3>6 DEF StoreTyped, FileInv
    <3>8. /\ q.off \in Nat /\ r.off \in Nat /\ Len(q.lines) \in Nat /\ Len(r.lines) \in Nat
          /\ q.first = q.off + 1 /\ r.first = r.off + 1
      <4>1. ASSUME NEW y \in Rows PROVE y.off \in Nat /\ Len(y.lines) \in Nat
        BY DEF Rows, Batches
      <4> QED BY <3>7, <4>1 DEF RowTrue
    <3>9. p = r.off + i /\ Seqno(l[k]) = q.off + d /\ i \in Nat /\ d \in Nat
          /\ i >= 1 /\ d >= 1 /\ i <= Len(r.lines) /\ d <= Len(q.lines)
      <4>1. /\ i \in Nat /\ i >= 1 /\ i <= Len(r.lines)
            /\ d \in Nat /\ d >= 1 /\ d <= Len(q.lines)
        BY <3>8
      <4>2. \A a, e \in Nat : (a + 1) + e - 1 = a + e
        OBVIOUS
      <4>3. p = r.off + i
        BY <3>8, <4>1, <4>2
      <4>4. Seqno(l[k]) = q.off + d
        BY <3>5, <3>8, <4>1, <4>2
      <4> QED BY <4>1, <4>3, <4>4
    <3>10. q = r \/ r.first > q.first
      <4>1. CASE q.first > r.first
        <5>1. Before(r, q)
          BY <3>6, <4>1, RowOrder
        <5>2. r.off + Len(r.lines) <= q.off
          BY <5>1 DEF Before
        <5>3. q.off + d <= r.off + i
          BY <3>3, <3>9
        <5> DEFINE a == r.off
                   c == q.off
                   e == Len(r.lines)
        <5>4. a \in Nat /\ c \in Nat /\ e \in Nat /\ a + e <= c /\ c + d <= a + i /\ i <= e /\ d >= 1
          BY <3>8, <3>9, <5>2, <5>3
        <5> HIDE DEF a, c, e
        <5>5. FALSE
          BY <3>9, <5>4
        <5> QED BY <5>5
      <4>2. q.first = r.first => q = r
        BY <3>6, RowOrder
      <4>3. q.first \in Nat /\ r.first \in Nat
        <5>1. \A y \in Nat : y + 1 \in Nat
          OBVIOUS
        <5> QED BY <3>8, <5>1
      <4>4. q.first > r.first \/ q.first = r.first \/ r.first > q.first
        BY <4>3
      <4> QED BY <4>1, <4>2, <4>4
    <3>11. r \in Log!Page \/ Log!Place(r) < command.offset
      <4>1. CASE r.first > q.first
        <5>1. Log!Place(r) < Log!Place(q) /\ Log!Place(r) \in Nat /\ Log!Place(q) \in Nat
          BY <1>1, <3>6, <4>1, Places
        <5>2. Log!Place(q) \in command.offset..(command.offset + PageBatches - 1)
          BY DEF Log!Page
        <5>3. Log!Place(r) < command.offset
              \/ Log!Place(r) \in command.offset..(command.offset + PageBatches - 1)
          <6>1. PageBatches \in Nat /\ command.offset \in Nat
            BY <1>1, Sizes
          <6>2. \A u, v, w, len \in Nat :
                  u < v /\ v \in w..(w + len - 1) => u < w \/ u \in w..(w + len - 1)
            OBVIOUS
          <6> QED BY <5>1, <5>2, <6>1, <6>2
        <5> QED BY <5>3 DEF Log!Page
      <4> QED BY <3>10, <4>1
    <3>12. CASE r \in Log!Page
      <4>1. x \in S /\ Seqno(x) >= Seqno(l[k])
        BY <1>3, <3>3, <3>8, <3>9, <3>12
      <4>2. PICK j \in 1..k : l[j] = x
        BY <1>2, <3>2, <4>1
      <4>3. j \in 1..n
        BY <1>4
      <4> QED BY <1>7, <4>2, <4>3
    <3> QED BY <1>8, <3>11, <3>12
  <2> QED BY <2>2, <2>3
<1> QED BY <1>9, <1>10

\* A set of numbers has a smallest.
LEMMA Smallest ==
    ASSUME NEW S \in SUBSET Nat, S # {}
    PROVE  Log!Min(S) \in S
<1>1. \E x \in S : \A y \in S : x <= y
  BY LeastNatural
<1> QED BY <1>1 DEF Log!Min

\* What was found is still there when more is found.
LEMMA HasMore ==
    ASSUME NEW f \in Seq(Hits), NEW m \in Seq(Hits), NEW x, Has(f, x) \/ Has(m, x)
    PROVE  Has(f \o m, x) /\ x \in {y[2] : y \in Log!ToSet(f \o m)}
<1>1. f \o m \in Seq(Hits) /\ Len(f \o m) = Len(f) + Len(m) /\ Len(f) \in Nat /\ Len(m) \in Nat
  OBVIOUS
<1>2. Has(f \o m, x)
  <2>1. CASE Has(f, x)
    <3>1. PICK n \in 1..Len(f) : f[n][2] = x
      BY <2>1 DEF Has
    <3>2. n \in 1..Len(f \o m) /\ (f \o m)[n] = f[n]
      BY <1>1
    <3> QED BY <3>1, <3>2 DEF Has
  <2>2. CASE Has(m, x)
    <3>1. PICK n \in 1..Len(m) : m[n][2] = x
      BY <2>2 DEF Has
    <3>2. Len(f) + n \in 1..Len(f \o m) /\ (f \o m)[Len(f) + n] = m[n]
      BY <1>1
    <3> QED BY <3>1, <3>2 DEF Has
  <2> QED BY <2>1, <2>2
<1>3. x \in {y[2] : y \in Log!ToSet(f \o m)}
  <2> DEFINE g == f \o m
  <2>1. PICK n \in 1..Len(g) : g[n][2] = x
    BY <1>2 DEF Has
  <2>2. DOMAIN g = 1..Len(g)
    BY <1>1
  <2> HIDE DEF g
  <2>3. g[n] \in Log!ToSet(g)
    BY <2>2 DEF Log!ToSet
  <2> QED BY <2>1, <2>3 DEF g
<1> QED BY <1>2, <1>3

\* A row is no earlier on when others are entered.
LEMMA PlaceGrows ==
    ASSUME StoreTyped, StoreTyped', rows \in SUBSET rows', command'.stream = command.stream,
           command'.now = command.now, NEW r
    PROVE  Log!Mine \in SUBSET Log!Mine' /\ Log!Place(r) <= Log!Place(r)' /\ Log!Place(r) \in Nat
           /\ Log!Place(r)' \in Nat
<1> DEFINE S == {q \in Log!Mine : Log!Newer(q, r)}
           T == {q \in Log!Mine' : Log!Newer(q, r)}
<1>1. Log!Mine \in SUBSET Log!Mine' /\ Log!Mine' \in SUBSET rows'
  BY DEF Log!Mine, Log!Recent
<1>2. S \in SUBSET T /\ T \in SUBSET rows'
  BY <1>1
<1> HIDE DEF S, T
<1>3. IsFiniteSet(T) /\ IsFiniteSet(S) /\ Cardinality(S) <= Cardinality(T)
  BY <1>2, FS_Subset DEF StoreTyped
<1>4. Cardinality(S) \in Nat /\ Cardinality(T) \in Nat
  BY <1>3, FS_CardinalityType
<1>5. Log!Place(r) = Cardinality(S) /\ Log!Place(r)' = Cardinality(T)
  <2>1. Log!Place(r) = Log!Cardinality(S)
    BY DEF Log!Place, S
  <2>2. Log!Place(r)' = Log!Cardinality(T)
    BY DEF Log!Place, T
  <2> QED BY <2>1, <2>2, SameCardinality
<1> QED BY <1>1, <1>3, <1>4, <1>5

\* A step of the streams leaves a query as it is.
LEMMA QueryKept ==
    ASSUME StoreTyped, StoreTyped', QueryInv, rows \in SUBSET rows', command' = command,
           clock <= clock', \A s \in Log!Streams : segment[s] # Log!Gone => segment'[s] # Log!Gone
    PROVE  QueryInv'
<1> SUFFICES ASSUME command.at = "query" PROVE QueryInv'
  BY DEF QueryInv
<1>1. /\ command \in Queries /\ command.now <= clock /\ Len(command.matched) < Limit
      /\ command.due # {} => segment[command.stream] # Log!Gone /\ command.orphans = {}
      /\ \A r \in command.due : Log!Recent(r) => Sought(r)
      /\ command.now \in Nat /\ clock \in Nat /\ clock' \in Nat /\ command.stream \in Log!Streams
      /\ command.offset \in Nat
  BY DEF QueryInv, Queries, StoreTyped
<1>2. command.now <= clock'
  BY <1>1
<1>3. ASSUME NEW r \in command.due, Log!Recent(r)' PROVE Sought(r)'
  <2>1. Sought(r)
    BY <1>1, <1>3 DEF Log!Recent
  <2>2. r \in Log!Mine' /\ Log!Place(r) <= Log!Place(r)' /\ Log!Place(r) \in Nat /\ Log!Place(r)' \in Nat
    BY <2>1, PlaceGrows DEF Sought
  <2>3. Log!Place(r)' < command.offset => Log!Place(r) < command.offset
    BY <1>1, <2>2
  <2>4. ASSUME NEW i \in 1..Len(r.lines) PROVE Passed(r, i, r.lines[i])'
    <3>1. Passed(r, i, r.lines[i])
      BY <2>1 DEF Sought
    <3> QED BY <2>3, <3>1 DEF Passed, Log!InScope
  <2> QED BY <2>2, <2>4 DEF Sought
<1> QED BY <1>1, <1>2, <1>3 DEF QueryInv, Queries

\* An export begins with the lines of the rows whose file has them.
LEMMA ExportSought ==
    ASSUME CountInv, StoreTyped, FileInv, NEW s \in Log!Streams, Log!Export(s)
    PROVE  QueryInv'
<1> DEFINE due == {q \in rows : q.stream = s /\ Log!Intact(q)}
<1>1. /\ command' = [at |-> "query", stream |-> s, cursor |-> 0, now |-> clock, offset |-> 0,
                     matched |-> <<>>, orphans |-> {}, found |-> <<>>, due |-> due]
      /\ UNCHANGED <<segment, rows, clock>>
  BY DEF Log!Export, Log!Query, Log!stored
<1>2. ASSUME NEW r \in due
      PROVE  r \in rows /\ r.stream = s /\ Log!Intact(r) /\ r \in Rows /\ r.at <= clock
  BY DEF StoreTyped, FileInv, RowTrue
<1>3. due \in SUBSET Rows
  BY <1>2
<1>4. due # {} => segment[s] # Log!Gone
  BY <1>2 DEF Log!Intact
<1> HIDE DEF due
<1>5. command' \in Queries
  <2>1. <<>> \in Seq(Hits) /\ {} \in SUBSET Log!Streams /\ clock \in Nat /\ 0 \in Nat
    BY DEF StoreTyped
  <2> QED BY <1>1, <1>3, <2>1 DEF Queries
<1>6. ASSUME NEW r \in due, Log!Recent(r)' PROVE Sought(r)'
  <2>1. r \in Log!Mine'
    BY <1>1, <1>2, <1>6 DEF Log!Mine
  <2>2. Log!Place(r)' \in Nat
    <3>1. {q \in Log!Mine' : Log!Newer(q, r)} \in SUBSET rows
      BY <1>1 DEF Log!Mine
    <3>2. Cardinality({q \in Log!Mine' : Log!Newer(q, r)}) \in Nat
      BY <3>1, FS_Subset, FS_CardinalityType DEF StoreTyped
    <3> QED BY <3>2, SameCardinality DEF Log!Place
  <2>3. ASSUME NEW i \in 1..Len(r.lines) PROVE Passed(r, i, r.lines[i])'
    <3>1. Log!InScope(r.first + i - 1)' /\ ~(Log!Place(r)' < command'.offset)
      BY <1>1, <2>2 DEF Log!InScope
    <3>2. ~Reaches(command.matched, r.first + i - 1)'
      BY <1>1 DEF Reaches
    <3> QED BY <3>1, <3>2 DEF Passed
  <2> QED BY <2>1, <2>3 DEF Sought
<1>7. Len(<<>>) < Limit /\ clock <= clock
  BY Sizes DEF StoreTyped
<1> QED BY <1>1, <1>4, <1>5, <1>6, <1>7 DEF QueryInv

\* No row of a stream whose file is there is an orphan.
LEMMA OrphansKept ==
    ASSUME CountInv, StoreTyped, FileInv, QueryInv, command.at = "query", NEW page \in SUBSET Log!Mine
    PROVE  /\ Log!Orphaned(page) \in SUBSET Log!Streams
           /\ command.due # {} => command.orphans \cup Log!Orphaned(page) = {}
<1>1. /\ command.stream \in Log!Streams
      /\ command.due # {} => segment[command.stream] # Log!Gone /\ command.orphans = {}
  BY DEF QueryInv, Queries
<1>2. \A r \in page : r.stream = command.stream
  BY DEF Log!Mine
<1>3. command.due # {} => \A r \in page : Log!Intact(r)
  BY <1>1, MineIntact
<1> QED BY <1>1, <1>2, <1>3 DEF Log!Orphaned

\* The query that follows has what the one before it has.
LEMMA NextQuery ==
    ASSUME CountInv, StoreTyped, FileInv, QueryInv, command.at = "query",
           NEW l, l = Log!Candidates(Log!Page), NEW n \in 1..Len(l), NEW M, M = Taken(l, n),
           NEW orphans, command.due # {} => orphans = {},
           NEW c \in Log!Seqs(M), rows' = Log!Without(orphans),
           UNCHANGED <<segment, clock>>,
           command' = Log!Query(command.stream, c, command.found \o M)
    PROVE  QueryInv'
<1> DEFINE m == command.matched
           f == command.found \o M
<1>1. /\ command \in Queries /\ Len(m) < Limit
      /\ command.due # {} => segment[command.stream] # Log!Gone
      /\ \A r \in command.due : Log!Recent(r) => Sought(r)
      /\ clock \in Nat /\ command.stream \in Log!Streams /\ command.cursor \in Nat
      /\ command.found \in Seq(Hits) /\ command.due \in SUBSET Rows
      /\ command.now \in Nat /\ command.now <= clock
  BY DEF QueryInv, Queries, StoreTyped
<1>2. l \in Seq(Log!Scanned(Log!Page))
  <2>1. Log!Page \in SUBSET Log!Mine
    BY DEF Log!Page
  <2> QED BY <1>1, <2>1, Ordered
<1>3. n \in 0..Len(l) /\ n \in Nat
  BY <1>2
<1>4. M \in Seq(Hits)
  BY <1>1, <1>2, <1>3, TakenType
<1>5. PICK h \in 1..Len(M) : c = M[h][1]
  <2>1. PICK y \in Log!ToSet(M) : c = y[1]
    BY DEF Log!Seqs
  <2>2. PICK h \in DOMAIN M : y = M[h]
    BY DEF Log!ToSet
  <2>3. DOMAIN M = 1..Len(M)
    BY <1>4
  <2> QED BY <2>1, <2>2, <2>3
<1>6. c \in Printed
  <2>1. M[h] \in Hits
    BY <1>4
  <2> QED BY <1>5, <2>1 DEF Hits
<1>7. command' = [at |-> "query", stream |-> command.stream, cursor |-> c, now |-> clock, offset |-> 0,
                  matched |-> <<>>, orphans |-> {}, found |-> f, due |-> command.due]
  BY <1>6 DEF Log!Query, Printed
<1>8. f \in Seq(Hits)
  BY <1>1, <1>4
<1> HIDE DEF f
<1>9. command' \in Queries
  <2>1. <<>> \in Seq(Hits) /\ {} \in SUBSET Log!Streams /\ c \in Nat
    BY <1>6 DEF Printed
  <2> QED BY <1>1, <1>7, <1>8, <2>1 DEF Queries
<1>10. ASSUME NEW r \in command.due, Log!Recent(r)' PROVE Sought(r)'
  <2>1. Sought(r)
    <3>1. r.at \in Nat
      BY <1>1 DEF Rows
    <3>2. Log!Recent(r)
      BY <1>1, <1>7, <1>10, <3>1, Sizes DEF Log!Recent
    <3> QED BY <1>1, <3>2
  <2>2. rows' = rows /\ segment[command.stream] # Log!Gone
    BY <1>1 DEF Log!Without
  <2>3. r \in Log!Mine
    BY <2>1 DEF Sought
  <2>4. r \in rows /\ r.stream = command.stream /\ r.at <= clock
    BY <2>3 DEF Log!Mine, FileInv, RowTrue
  <2>5. r \in Log!Mine'
    BY <1>7, <1>10, <2>2, <2>4 DEF Log!Mine
  <2>6. r.off \in Nat /\ r.first = r.off + 1 /\ Len(r.lines) \in Nat
    BY <2>2, <2>3, MineIntact
  <2>7. ~(Log!Place(r)' < command'.offset)
    <3>1. Log!Place(r)' \in Nat
      <4>1. {q \in Log!Mine' : Log!Newer(q, r)} \in SUBSET rows
        BY <2>2 DEF Log!Mine
      <4>2. Cardinality({q \in Log!Mine' : Log!Newer(q, r)}) \in Nat
        BY <4>1, FS_Subset, FS_CardinalityType DEF StoreTyped
      <4> QED BY <4>2, SameCardinality DEF Log!Place
    <3> QED BY <1>7, <3>1
  <2>8. ASSUME NEW i \in 1..Len(r.lines) PROVE Passed(r, i, r.lines[i])'
    <3> DEFINE p == r.first + i - 1
               x == r.lines[i]
    <3>1. p \in Nat /\ i \in Nat
      BY <2>6
    <3>2. Passed(r, i, x)
      BY <2>1 DEF Sought
    <3>3. ASSUME ~Log!InScope(p)' PROVE Has(f, x)
      <4>1. p >= c
        BY <1>6, <1>7, <3>1, <3>3 DEF Log!InScope, Printed
      <4>2. Reaches(M, p)
        BY <1>5, <4>1 DEF Reaches
      <4>3. CASE Log!InScope(p)
        <5>1. Has(M, r.lines[i])
          BY <1>1, <1>3, <2>2, <2>3, <3>2, <4>2, <4>3, TakenHas
        <5> QED BY <1>1, <1>4, <5>1, HasMore DEF f
      <4>4. CASE ~Log!InScope(p)
        <5>1. Has(command.found, x)
          BY <3>2, <4>4 DEF Passed
        <5> QED BY <1>1, <1>4, <5>1, HasMore DEF f
      <4> QED BY <4>3, <4>4
    <3>4. ~Reaches(command.matched, p)'
      BY <1>7 DEF Reaches
    <3> QED BY <1>7, <2>7, <3>3, <3>4 DEF Passed
  <2> QED BY <2>5, <2>8 DEF Sought
<1>11. Len(<<>>) < Limit /\ clock <= clock
  BY <1>1, Sizes
<1> QED BY <1>1, <1>7, <1>9, <1>10, <1>11 DEF QueryInv

\* A query that finds no more rows ends the export.
LEMMA LastPage ==
    ASSUME CountInv, StoreTyped, FileInv, QueryInv, command.at = "query", Log!Page = {},
           Log!Respond(command.matched, command.orphans, 0)
    PROVE  QueryInv' /\ ExportComplete'
<1> DEFINE f == command.found \o command.matched
<1>1. /\ command \in Queries /\ Len(command.matched) < Limit
      /\ \A r \in command.due : Log!Recent(r) => Sought(r)
      /\ command.stream \in Log!Streams /\ command.offset \in Nat /\ command.due \in SUBSET Rows
      /\ command.found \in Seq(Hits) /\ command.matched \in Seq(Hits)
  BY DEF QueryInv, Queries
<1>2. ~(Len(command.matched) >= Limit)
  BY <1>1, Sizes
<1>3. command' = [at |-> "exported", found |-> f, due |-> command.due, now |-> command.now]
  BY <1>2 DEF Log!Respond
<1>4. ASSUME NEW r \in command.due, Log!Recent(r)'
      PROVE  Log!ToSet(r.lines) \subseteq {y[2] : y \in Log!ToSet(f)}
  <2>1. Sought(r)
    BY <1>1, <1>3, <1>4 DEF Log!Recent
  <2>2. Log!Place(r) < command.offset
    BY <1>1, <2>1, Places DEF Sought
  <2>3. r.lines \in Seq(Printed)
    BY <1>1 DEF Rows, Batches
  <2>4. ASSUME NEW x \in Log!ToSet(r.lines) PROVE x \in {y[2] : y \in Log!ToSet(f)}
    <3>1. PICK i \in 1..Len(r.lines) : x = r.lines[i]
      BY <2>3 DEF Log!ToSet
    <3>2. Has(command.found, x) \/ Has(command.matched, x)
      BY <2>1, <2>2, <3>1 DEF Sought, Passed
    <3> QED BY <1>1, <3>2, HasMore
  <2> QED BY <2>4
<1> HIDE DEF f
<1> QED BY <1>3, <1>4 DEF QueryInv, ExportComplete, Log!ExportComplete

\* A query that goes on with the next page has what is before it.
LEMMA NextPage ==
    ASSUME CountInv, StoreTyped, FileInv, QueryInv, command.at = "query",
           NEW l, l = Log!Candidates(Log!Page), NEW M, M = Taken(l, Len(l)),
           Len(l) < Limit - Len(command.matched),
           command' = [command EXCEPT !.matched = M, !.orphans = @ \cup Log!Orphaned(Log!Page),
                                      !.offset = @ + Log!Cardinality(Log!Page)],
           UNCHANGED <<segment, clock, rows>>
    PROVE  QueryInv'
<1> DEFINE m == command.matched
           o == command.orphans \cup Log!Orphaned(Log!Page)
           t == command.offset + Log!Cardinality(Log!Page)
<1>1. /\ command \in Queries /\ Len(m) < Limit /\ command.now <= clock
      /\ command.due # {} => segment[command.stream] # Log!Gone
      /\ \A r \in command.due : Log!Recent(r) => Sought(r)
      /\ command.stream \in Log!Streams /\ command.offset \in Nat /\ m \in Seq(Hits)
      /\ command.orphans \in SUBSET Log!Streams
      /\ Log!Page \in SUBSET Log!Mine
  BY DEF QueryInv, Queries, Log!Page
<1>2. l \in Seq(Log!Scanned(Log!Page))
  BY <1>1, Ordered
<1>3. Len(l) \in 0..Len(l) /\ Len(l) \in Nat
  BY <1>2
<1>4. M \in Seq(Hits) /\ Len(M) = Len(m) + Len(l) /\ Len(m) \in Nat
  BY <1>1, <1>2, <1>3, TakenType
<1>5. Len(M) < Limit
  BY <1>3, <1>4, Sizes
<1>6. o \in SUBSET Log!Streams /\ (command.due # {} => o = {})
  BY <1>1, OrphansKept
<1>7. t \in Nat
  BY <1>1, Places
<1>8. /\ command' \in Queries /\ command'.at = "query" /\ command'.stream = command.stream
      /\ command'.cursor = command.cursor /\ command'.now = command.now /\ command'.offset = t
      /\ command'.matched = M /\ command'.orphans = o /\ command'.found = command.found
      /\ command'.due = command.due
  <2> HIDE DEF o, t
  <2>1. command' = [command EXCEPT !.matched = M, !.orphans = o, !.offset = t]
    BY DEF o, t
  <2> QED BY <1>1, <1>4, <1>6, <1>7, <2>1 DEF Queries
<1>9. ASSUME NEW r \in command.due, Log!Recent(r)' PROVE Sought(r)'
  <2>1. Sought(r)
    BY <1>1, <1>8, <1>9 DEF Log!Recent
  <2>2. Log!Mine' = Log!Mine /\ Log!Place(r)' = Log!Place(r)
    BY <1>8 DEF Log!Mine, Log!Place, Log!Newer, Log!Recent
  <2>3. r \in Log!Mine
    BY <2>1 DEF Sought
  <2>4. ASSUME NEW i \in 1..Len(r.lines) PROVE Passed(r, i, r.lines[i])'
    <3> DEFINE p == r.first + i - 1
    <3>1. Log!InScope(p)' <=> Log!InScope(p)
      BY <1>8 DEF Log!InScope
    <3>2. Passed(r, i, r.lines[i])
      BY <2>1 DEF Sought
    <3>3. ASSUME Log!InScope(p), Log!Place(r) < t \/ Reaches(M, p) PROVE Has(M, r.lines[i])
      <4>1. segment[command.stream] # Log!Gone
        BY <1>1
      <4> QED BY <1>1, <1>3, <2>3, <3>2, <3>3, <4>1, TakenHas
    <3> HIDE DEF t
    <3> QED BY <1>8, <2>2, <3>1, <3>2, <3>3 DEF Passed
  <2> QED BY <2>2, <2>3, <2>4 DEF Sought
<1> QED BY <1>1, <1>5, <1>6, <1>8, <1>9 DEF QueryInv

\* A page of a query.
LEMMA PageStep ==
    ASSUME CountInv, StoreTyped, FileInv, QueryInv, Log!QueryPage
    PROVE  QueryInv' /\ ExportComplete'
<1> DEFINE l == Log!Candidates(Log!Page)
           m == command.matched
           room == Limit - Len(m)
           o(n) == command.orphans \cup Log!Orphaned({r \in Log!Page : ~Log!Newer(l[n][1], r)})
<1>1. /\ command.at = "query" /\ UNCHANGED <<segment, clock>>
      /\ \/ /\ Log!Page = {} /\ Log!Respond(m, command.orphans, 0)
         \/ /\ Len(l) >= room /\ Log!Respond(Taken(l, room), o(room), 0)
         \/ \E n \in 1..Len(l) :
               /\ n < room
               /\ Log!Respond(Taken(l, n), o(n), Taken(l, n)[Len(m) + n][1])
         \/ /\ Log!Page # {} /\ Len(l) < room
            /\ command' = [command EXCEPT !.matched = Taken(l, Len(l)),
                                          !.orphans = @ \cup Log!Orphaned(Log!Page),
                                          !.offset = @ + Log!Cardinality(Log!Page)]
            /\ UNCHANGED rows
  BY DEF Log!QueryPage, Taken
<1>2. /\ command \in Queries /\ Len(m) < Limit /\ m \in Seq(Hits) /\ command.stream \in Log!Streams
      /\ Log!Page \in SUBSET Log!Mine /\ command.cursor \in Nat
  BY <1>1 DEF QueryInv, Queries, Log!Page
<1>3. l \in Seq(Log!Scanned(Log!Page))
  BY <1>2, Ordered
<1>4. Limit \in Nat /\ Len(m) \in Nat /\ Len(l) \in Nat
  BY <1>2, <1>3, Sizes
<1>5. ASSUME NEW n PROVE command.due # {} => o(n) = {}
  <2>1. {r \in Log!Page : ~Log!Newer(l[n][1], r)} \in SUBSET Log!Mine
    BY <1>2
  <2> QED BY <1>1, <2>1, OrphansKept
<1> HIDE DEF l, o, m
\* An answer with a cursor among the numbers of what is taken.
<1>6. ASSUME NEW n \in 1..Len(l), NEW c \in Log!Seqs(Taken(l, n)),
             rows' = Log!Without(o(n)),
             command' = IF c = 0 THEN [at |-> "exported", found |-> command.found \o Taken(l, n),
                                       due |-> command.due, now |-> command.now]
                        ELSE IF c = command.cursor THEN [at |-> "stalled"]
                        ELSE Log!Query(command.stream, c, command.found \o Taken(l, n))
      PROVE  QueryInv' /\ ExportComplete'
  <2>1. c # 0
    <3>1. Taken(l, n) \in Seq(Hits)
      BY <1>2, <1>3, <1>4, TakenType
    <3>2. PICK y \in Log!ToSet(Taken(l, n)) : c = y[1]
      BY <1>6 DEF Log!Seqs
    <3>3. y \in Hits
      BY <3>1, <3>2 DEF Log!ToSet
    <3> QED BY <3>2, <3>3 DEF Hits, Printed
  <2>2. CASE c = command.cursor
    BY <1>6, <2>1, <2>2 DEF QueryInv, ExportComplete, Log!ExportComplete
  <2>3. CASE c # command.cursor
    <3>1. command' = Log!Query(command.stream, c, command.found \o Taken(l, n))
      BY <1>6, <2>1, <2>3
    <3>2. QueryInv'
      BY <1>1, <1>5, <1>6, <3>1, NextQuery DEF l
    <3>3. command'.at = "query"
      BY <3>1 DEF Log!Query
    <3> QED BY <3>2, <3>3 DEF ExportComplete, Log!ExportComplete
  <2> QED BY <2>2, <2>3
<1>7. CASE Log!Page = {} /\ Log!Respond(m, command.orphans, 0)
  BY <1>1, <1>7, LastPage DEF m
<1>8. CASE Len(l) >= room /\ Log!Respond(Taken(l, room), o(room), 0)
  <2> DEFINE M == Taken(l, room)
  <2>1. room \in 1..Len(l)
    BY <1>2, <1>4, <1>8
  <2>2. room \in 0..Len(l) /\ M \in Seq(Hits) /\ Len(M) = Limit
    <3>1. room \in 0..Len(l) /\ Len(m) + room = Limit
      BY <1>4, <2>1
    <3> QED BY <1>2, <1>3, <3>1, TakenType DEF m
  <2> HIDE DEF M, room
  <2>3. Log!Seqs(M) \in SUBSET Nat /\ Log!Seqs(M) # {}
    <3>1. ASSUME NEW c \in Log!Seqs(M) PROVE c \in Nat
      <4>1. PICK y \in Log!ToSet(M) : c = y[1]
        BY DEF Log!Seqs
      <4>2. y \in Hits
        BY <2>2, <4>1 DEF Log!ToSet
      <4> QED BY <4>1, <4>2 DEF Hits, Printed
    <3>2. 1 \in DOMAIN M
      BY <1>4, <2>2, Sizes
    <3>3. M[1][1] \in Log!Seqs(M)
      BY <3>2 DEF Log!Seqs, Log!ToSet
    <3> QED BY <3>1, <3>3
  <2>4. Log!Min(Log!Seqs(M)) \in Log!Seqs(M)
    BY <2>3, Smallest
  <2>5. Len(M) >= Limit
    BY <1>4, <2>2
  <2>6. /\ rows' = Log!Without(o(room))
        /\ command' = IF Log!Min(Log!Seqs(M)) = 0
                      THEN [at |-> "exported", found |-> command.found \o M, due |-> command.due,
                            now |-> command.now]
                      ELSE IF Log!Min(Log!Seqs(M)) = command.cursor THEN [at |-> "stalled"]
                      ELSE Log!Query(command.stream, Log!Min(Log!Seqs(M)), command.found \o M)
    BY <1>8, <2>5 DEF Log!Respond, M
  <2> QED BY <1>6, <2>1, <2>4, <2>6 DEF M
<1>9. ASSUME NEW n \in 1..Len(l), n < room,
             Log!Respond(Taken(l, n), o(n), Taken(l, n)[Len(m) + n][1])
      PROVE  QueryInv' /\ ExportComplete'
  <2> DEFINE M == Taken(l, n)
             c == M[Len(m) + n][1]
  <2>1. n \in 0..Len(l) /\ n \in Nat
    BY <1>4
  <2>2. M \in Seq(Hits) /\ Len(M) = Len(m) + n
    BY <1>2, <1>3, <2>1, TakenType DEF m
  <2>3. ~(Len(M) >= Limit) /\ Len(m) + n \in DOMAIN M
    <3> HIDE DEF M
    <3> QED BY <1>4, <1>9, <2>1, <2>2
  <2>4. c \in Log!Seqs(M)
    <3> HIDE DEF M
    <3> QED BY <2>3 DEF Log!Seqs, Log!ToSet
  <2>5. /\ rows' = Log!Without(o(n))
        /\ command' = IF c = 0
                      THEN [at |-> "exported", found |-> command.found \o M, due |-> command.due,
                            now |-> command.now]
                      ELSE IF c = command.cursor THEN [at |-> "stalled"]
                      ELSE Log!Query(command.stream, c, command.found \o M)
    BY <1>9, <2>3 DEF Log!Respond
  <2> QED BY <1>6, <2>4, <2>5
<1>10. CASE /\ Log!Page # {} /\ Len(l) < room
            /\ command' = [command EXCEPT !.matched = Taken(l, Len(l)),
                                          !.orphans = @ \cup Log!Orphaned(Log!Page),
                                          !.offset = @ + Log!Cardinality(Log!Page)]
            /\ UNCHANGED rows
  <2>1. QueryInv'
    BY <1>1, <1>10, NextPage DEF l, m
  <2>2. command'.at = "query"
    BY <1>1, <1>2, <1>10 DEF Queries
  <2> QED BY <2>1, <2>2 DEF ExportComplete, Log!ExportComplete
<1> QED BY <1>1, <1>7, <1>8, <1>9, <1>10

\* The inductive invariant.
ExportInv == /\ CountInv /\ StoreTyped
             /\ FirstRun => FileInv /\ QueryInv /\ ExportComplete

\* Every step keeps it; the streams are numbered once as long as none is a restart.
LEMMA ExportStep ==
    ASSUME ExportInv, [Log!Next]_log
    PROVE  ExportInv'
<1>1. CountInv' /\ StoreTyped' /\ (FileInv /\ FirstRun' => FirstRun /\ FileInv')
  BY CountStep, StoreStep DEF ExportInv
<1>2. FirstRun' => FirstRun
  <2>1. CASE Log!Restart
    <3>1. restarts' = restarts + 1 /\ restarts \in Nat
      BY <2>1 DEF Log!Restart, ExportInv, StoreTyped
    <3> QED BY <3>1 DEF FirstRun
  <2>2. CASE ~Log!Restart
    <3>1. restarts' = restarts
      <4>1. ASSUME NEW s \in Log!Streams, Log!Process(s) \/ Log!Reader(s) \/ Log!Writer(s)
            PROVE  restarts' = restarts
        BY <4>1 DEF Log!Process, Log!Reader, Log!Writer, Log!Emit, Log!Exit, Log!Flush, Log!Send,
           Log!AppendLines, Log!AppendFails, Log!Insert, Log!InsertFails, Log!counts
      <4>2. Log!Commands => restarts' = restarts
        BY DEF Log!Commands, Log!Start, Log!StartFails, Log!Refuse, Log!Retain, Log!ForgetRows,
           Log!ForgetFails, Log!Clear, Log!QueryPage, Log!Answered, Log!Stop, Log!Export, Log!counts
      <4> QED BY <2>2, <4>1, <4>2 DEF Log!Next, Log!Tick, Log!counts, log
    <3> QED BY <3>1 DEF FirstRun
  <2> QED BY <2>1, <2>2
<1> SUFFICES ASSUME FirstRun' PROVE QueryInv' /\ ExportComplete'
  BY <1>1, <1>2 DEF ExportInv
<1>3. /\ CountInv /\ StoreTyped /\ FileInv /\ QueryInv /\ ExportComplete /\ FirstRun /\ FileInv'
      /\ clock \in Nat
  BY <1>1, <1>2 DEF ExportInv, StoreTyped
<1>4. ~Log!Restart
  BY <1>3 DEF FirstRun, Log!Restart
\* What the streams do, the command does not see.
<1>5. ASSUME command' = command, rows \in SUBSET rows', clock <= clock',
             \A s \in Log!Streams : segment[s] # Log!Gone => segment'[s] # Log!Gone
      PROVE  QueryInv' /\ ExportComplete'
  BY <1>1, <1>3, <1>5, QueryKept DEF ExportComplete, Log!ExportComplete, Log!Recent
<1>6. ASSUME NEW s \in Log!Streams, Log!Process(s) \/ Log!Reader(s)
      PROVE  QueryInv' /\ ExportComplete'
  <2>1. UNCHANGED <<command, rows, clock, segment>>
    BY <1>6 DEF Log!Process, Log!Reader, Log!Emit, Log!Exit, Log!Flush, Log!Send, Log!stored
  <2> QED BY <1>3, <1>5, <2>1
<1>7. ASSUME NEW s \in Log!Streams, Log!Writer(s)
      PROVE  QueryInv' /\ ExportComplete'
  <2>1. CASE Log!AppendLines(s) \/ Log!AppendFails(s)
    <3>1. /\ UNCHANGED <<command, rows, clock>>
          /\ \/ writer' = writer
             \/ writer' = [writer EXCEPT ![s].off = @ + Len(Head(queue[s])),
                                         ![s].seq = @ + Len(Head(queue[s]))]
      BY <2>1 DEF Log!AppendLines, Log!AppendFails
    <3>2. ASSUME NEW u \in Log!Streams, segment[u] # Log!Gone PROVE segment'[u] # Log!Gone
      <4>1. CASE writer'[u].linked
        BY <1>1, <4>1 DEF StoreTyped
      <4>2. CASE ~writer'[u].linked
        <5>1. ~writer[u].linked
          <6>1. writer \in [Log!Streams -> Writers]
            BY <1>3 DEF CountInv, WriterTyped
          <6> QED BY <3>1, <4>2, <6>1 DEF Writers
        <5>2. segment'[u] = segment[u]
          BY <1>3, <2>1, <5>1 DEF Log!AppendLines, Log!AppendFails, Log!Grown, StoreTyped
        <5> QED BY <3>2, <5>2
      <4> QED BY <4>1, <4>2
    <3> QED BY <1>3, <1>5, <3>1, <3>2
  <2>2. CASE Log!Insert(s) \/ Log!InsertFails(s)
    <3>1. /\ command' = command /\ segment' = segment /\ rows \in SUBSET rows'
          /\ clock' = clock
      BY <2>2 DEF Log!Insert, Log!InsertFails, Log!stored
    <3> QED BY <1>3, <1>5, <3>1
  <2> QED BY <1>7, <2>1, <2>2 DEF Log!Writer
<1>8. CASE Log!Commands
  <2>1. CASE Log!QueryPage
    BY <1>3, <2>1, PageStep
  <2>2. ASSUME NEW s \in Log!Streams, Log!Export(s) PROVE QueryInv' /\ ExportComplete'
    <3>1. QueryInv'
      BY <1>3, <2>2, ExportSought
    <3>2. command'.at = "query"
      BY <2>2 DEF Log!Export, Log!Query
    <3> QED BY <3>1, <3>2 DEF ExportComplete, Log!ExportComplete
  <2>3. CASE ~(Log!QueryPage \/ \E s \in Log!Streams : Log!Export(s))
    <3>1. command' = Log!Idle \/ command'.at = "refused" \/ command'.at = "retained"
      <4>1. ASSUME \/ Log!Start \/ Log!StartFails \/ Log!ForgetRows \/ Log!ForgetFails
                   \/ Log!Clear \/ Log!Answered \/ \E s \in Log!Streams : Log!Stop(s)
            PROVE  command' = Log!Idle
        BY <4>1 DEF Log!Start, Log!StartFails, Log!ForgetRows, Log!ForgetFails, Log!Clear,
           Log!Answered, Log!Stop
      <4>2. Log!Refuse => command'.at = "refused"
        BY DEF Log!Refuse
      <4>3. Log!Retain => command'.at = "retained"
        <5> SUFFICES ASSUME Log!Retain PROVE command'.at = "retained"
          OBVIOUS
        <5>1. PICK gone \in SUBSET Log!Present : command' = [at |-> "retained", gone |-> gone]
          BY DEF Log!Retain
        <5> QED BY <5>1
      <4> QED BY <1>8, <2>3, <4>1, <4>2, <4>3 DEF Log!Commands
    <3>2. command'.at \notin {"query", "exported"}
      BY <3>1 DEF Log!Idle
    <3> QED BY <3>2 DEF QueryInv, ExportComplete, Log!ExportComplete
  <2> QED BY <2>1, <2>2, <2>3
<1>9. CASE UNCHANGED log
  <2>1. UNCHANGED <<command, rows, clock, segment>>
    BY <1>9 DEF log
  <2> QED BY <1>3, <1>5, <2>1
<1>10. CASE Log!Tick
  BY <1>3, <1>5, <1>10 DEF Log!Tick
<1> QED BY <1>4, <1>6, <1>7, <1>8, <1>9, <1>10 DEF Log!Next

(* Rows and files agree in the first run of the program, and what an export    *)
(* is to find is found as far as its query has come.                          *)
THEOREM ExportInvariance == Log!Spec => []ExportInv
<1>1. Log!Init => ExportInv
  BY CountInitial, StoreInitial
  DEF ExportInv, QueryInv, ExportComplete, Log!ExportComplete, Log!Init, Log!Idle
<1>2. ExportInv /\ [Log!Next]_(Log!vars) => ExportInv'
  BY ExportStep DEF log, Log!vars
<1> QED BY <1>1, <1>2, PTL DEF Log!Spec

(* An export that ends has every line that was on the disk when it began and   *)
(* that its last page still looks back to, for any number of streams and       *)
(* lines, any size of the batches, the pages and the answers, any window,      *)
(* wherever a deadline ends a query and whatever is entered, retained or       *)
(* cleared or slides out of the window meanwhile; in the first run of the      *)
(* program, while no append fails.                                            *)
THEOREM ExportsAreComplete == Log!Spec => [](FirstRun => ExportComplete)
<1>1. ExportInv => (FirstRun => ExportComplete)
  BY DEF ExportInv
<1> QED BY <1>1, ExportInvariance, PTL
=============================================================================
