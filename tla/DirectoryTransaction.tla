------------------------ MODULE DirectoryTransaction ------------------------
(* A workspace edit of directories: created with their missing ancestors,     *)
(* deleted by a move into the transaction folder, renamed, with a directory   *)
(* in the way moved into the folder first.  The journal is durable before the *)
(* first of these steps; recovery takes an edit back unless the journal says  *)
(* committed.  The process may end between any two calls to the file system,  *)
(* any of them may fail, and others change the workspace at any time.         *)
(*                                                                            *)
(* What a path holds stands for the whole tree below it, but for the paths    *)
(* whose parent is modelled too.  Trees move between the paths that are       *)
(* nobody's parent; the others are created, and removed again.                *)
EXTENDS FiniteSets, Naturals

CONSTANTS Dirs,          \* paths of the workspace
          Root,          \* the workspace itself
          Parent,        \* of every path
          Trees,         \* the directories with something in them
          InitialDisks,  \* what the workspace may hold at first
          MaxOperations, \* bound: operations of an edit
          MaxForeign,    \* bound: changes others make
          MaxEdits,      \* bound: edits
          IoMayFail      \* whether calls to the file system can fail

VARIABLES disk,       \* what every path holds
          folder,     \* the transaction folder is there
          journal,    \* journal.json in it
          backup,     \* the trees in it, by the path they were taken from
          edit,       \* the operations, as the journal has them
          pc, why,    \* what the service does, and on whose behalf
          todo,       \* paths its phase still has to treat
          answer,     \* what the last call returned
          \* History, read by the properties only.
          committed,  \* the edit's journal said committed
          touched,    \* paths others changed since the edit was validated
          kept,       \* <<path, content>>: put there by others while no operation ran
          count       \* how many changes others made, and how many edits there were

vars    == <<disk, folder, journal, backup, edit, pc, why, todo, answer, committed, touched, kept, count>>
stored  == <<folder, journal, backup>>
history == <<committed, touched, kept, count>>

Contents   == {"absent", "empty", "file"} \cup Trees
IsDir(c)   == c \in {"empty"} \cup Trees
Exists(p)  == disk[p] # "absent"
Children(p) == {q \in Dirs : Parent[q] = p}
Leaves     == {p \in Dirs : Children(p) = {}}
Holds(p)   == IF p = Root THEN TRUE ELSE IsDir(disk[p])
Bare(p)    == disk[p] = "empty" /\ \A q \in Children(p) : ~Exists(q)

(* What rename(2) does with the tree c and the path p. *)
CanMove(c, p) ==
  /\ c # "absent" /\ Holds(Parent[p])
  /\ \/ ~Exists(p)
     \/ IsDir(c) /\ Bare(p)
     \/ c = "file" /\ disk[p] = "file"

Sources    == {r[1] : r \in edit.renames}
Target(o)  == (CHOOSE r \in edit.renames : r[1] = o)[2]
Readable   == {"prepared", "committed"}

NoEdit == [creates |-> {}, deletes |-> {}, renames |-> {}, created |-> {}, overwrites |-> {},
           old |-> disk, new |-> disk]

-----------------------------------------------------------------------------
WellFormed(d) == \A p \in Dirs : (Parent[p] # Root /\ d[p] # "absent") => IsDir(d[Parent[p]])

(* The workspace is a tree of at most two levels below its root.              *)
ASSUME DirectoryAssumption ==
  /\ Root \notin Dirs /\ Parent \in [Dirs -> Dirs \cup {Root}]
  /\ \A p \in Dirs : Parent[p] # Root => Parent[Parent[p]] = Root
  /\ Trees \cap {"absent", "empty", "file"} = {}
  /\ \A d \in InitialDisks : d \in [Dirs -> Contents] /\ WellFormed(d)
  /\ MaxOperations \in Nat /\ MaxForeign \in Nat /\ MaxEdits \in Nat /\ IoMayFail \in BOOLEAN

Init ==
  /\ disk \in InitialDisks
  /\ folder = FALSE /\ journal = "none" /\ backup = [p \in Dirs |-> "absent"]
  /\ edit = NoEdit
  /\ pc = "idle" /\ why = "open" /\ todo = {} /\ answer = "none"
  /\ committed = FALSE /\ touched = {} /\ kept = {} 
  /\ count = [foreign |-> 0, edits |-> 0]

(* Mutant: what was deleted is not put back. *)
AfterWithoutUndeleting(phase) ==
  CASE phase = "creating" -> "deleting"  [] phase = "deleting"   -> "renaming"
    [] phase = "renaming" -> "committing"
    [] phase = "removing" -> "unrenaming" [] phase = "unrenaming" -> "cleaning"
    [] phase = "redoing" -> "verifying"

(* The phases, and the paths each has to treat. *)
After(phase) ==
  CASE phase = "creating" -> "deleting"  [] phase = "deleting"   -> "renaming"
    [] phase = "renaming" -> "committing"
    [] phase = "removing" -> "undeleting" [] phase = "undeleting" -> "unrenaming"
    [] phase = "unrenaming" -> "cleaning" [] phase = "redoing" -> "verifying"

Work(phase) ==
  CASE phase \in {"creating", "removing", "redoing"} -> edit.created
    [] phase \in {"deleting", "undeleting"} -> edit.deletes
    [] phase \in {"renaming", "unrenaming"} -> Sources
    [] OTHER -> {}

Phases == {"creating", "deleting", "renaming", "removing", "undeleting", "unrenaming", "redoing"}

NextPhase ==
  /\ pc \in Phases /\ todo = {}
  /\ pc' = After(pc) /\ todo' = Work(pc')
  /\ UNCHANGED <<disk, stored, edit, why, answer, history>>

Succeeds ==
  /\ \/ why = "edit"   /\ pc' = "reading" /\ UNCHANGED answer
     \/ why = "open"   /\ pc' = "idle" /\ answer' = "opened"
     \/ why = "commit" /\ pc' = "idle" /\ answer' = "applied"
     \/ why = "undo"   /\ pc' = "idle" /\ answer' = "failed"
  /\ todo' = {}
  /\ UNCHANGED why

Undo == pc' = "recovering" /\ why' = "undo" /\ todo' = {} /\ UNCHANGED answer

Fails ==
  IF why = "commit" THEN Undo
  ELSE /\ pc' = "idle" /\ todo' = {}
       /\ answer' = IF why = "open" THEN "refused" ELSE "failed"
       /\ UNCHANGED why

-----------------------------------------------------------------------------
(* recover_pending, before an open, before an edit, and after one that failed.*)

Request ==
  /\ pc = "idle"
  /\ why' \in {"open", "edit"}
  /\ pc' = "recovering"
  /\ UNCHANGED <<disk, stored, edit, todo, answer, history>>

NothingPending ==
  /\ pc = "recovering" /\ ~folder
  /\ Succeeds
  /\ UNCHANGED <<disk, stored, edit, history>>

Discard ==
  /\ pc = "recovering" /\ folder /\ journal \notin Readable
  /\ pc' = "cleaning"
  /\ UNCHANGED <<disk, stored, edit, why, todo, answer, history>>

(* validate_deleted_paths *)
DeletionKnown(d) ==
  \/ IsDir(disk[d]) /\ backup[d] = "absent"
  \/ ~Exists(d) /\ IsDir(backup[d])

(* validate_renamed_paths *)
RenameKnown(o) ==
  LET n == Target(o) IN
  \/ IsDir(disk[o]) /\ (IsDir(disk[n]) <=> n \in edit.overwrites) /\ ~IsDir(backup[n])
  \/ IsDir(disk[o]) /\ ~IsDir(disk[n]) /\ n \in edit.overwrites /\ IsDir(backup[n])
  \/ /\ ~IsDir(disk[o]) /\ IsDir(disk[n]) /\ (IsDir(backup[n]) <=> n \in edit.overwrites)
     /\ disk[n] = edit.old[o]

(* The first loop of remove_created_paths. *)
CreationKnown(p) ==
  Exists(p) => /\ disk[p] = "empty"
               /\ \A q \in Children(p) : Exists(q) => q \in edit.created

Recoverable ==
  /\ \A d \in edit.deletes : DeletionKnown(d)
  /\ \A o \in Sources : RenameKnown(o)
  /\ \A p \in edit.created : CreationKnown(p)

(* Everything is looked at before the first path is changed. *)
CheckPrepared ==
  /\ pc = "recovering" /\ folder /\ journal = "prepared"
  /\ IF Recoverable
     THEN pc' = "removing" /\ todo' = Work("removing") /\ UNCHANGED <<why, answer>>
     ELSE Fails
  /\ UNCHANGED <<disk, stored, edit, history>>

RemoveCreated ==
  /\ pc = "removing"
  /\ \E p \in todo :
       /\ Children(p) \cap todo = {}
       /\ IF Exists(p) /\ ~Bare(p) THEN Fails /\ UNCHANGED disk
          ELSE /\ disk' = [disk EXCEPT ![p] = "absent"]
               /\ todo' = todo \ {p}
               /\ UNCHANGED <<pc, why, answer>>
  /\ UNCHANGED <<stored, edit, history>>

RestoreDeleted ==
  /\ pc = "undeleting"
  /\ \E d \in todo :
       \/ /\ backup[d] = "absent"
          /\ todo' = todo \ {d} /\ UNCHANGED <<disk, backup, pc, why, answer>>
       \/ /\ backup[d] # "absent"
          /\ \/ /\ ~Holds(Parent[d]) /\ disk[Parent[d]] = "absent"
                /\ disk' = [disk EXCEPT ![Parent[d]] = "empty"]
                /\ UNCHANGED <<backup, todo, pc, why, answer>>
             \/ /\ CanMove(backup[d], d)
                /\ disk' = [disk EXCEPT ![d] = backup[d]]
                /\ backup' = [backup EXCEPT ![d] = "absent"]
                /\ todo' = todo \ {d}
                /\ UNCHANGED <<pc, why, answer>>
             \/ /\ ~CanMove(backup[d], d)
                /\ ~Holds(Parent[d]) => disk[Parent[d]] = "file"
                /\ Fails
                /\ UNCHANGED <<disk, backup>>
  /\ UNCHANGED <<folder, journal, edit, history>>

(* A rename is taken back in two steps: the tree to where it was, and then    *)
(* the directory that was in its way.                                         *)
RestoreSource ==
  /\ pc = "unrenaming"
  /\ \E o \in todo : LET n == Target(o) IN
       /\ ~Exists(o)
       /\ IF CanMove(disk[n], o)
          THEN /\ disk' = [disk EXCEPT ![o] = disk[n], ![n] = "absent"]
               /\ UNCHANGED <<todo, pc, why, answer>>
          ELSE Fails /\ UNCHANGED disk
  /\ UNCHANGED <<stored, edit, history>>

RestoreTarget ==
  /\ pc = "unrenaming"
  /\ \E o \in todo : LET n == Target(o) IN
       /\ Exists(o)
       /\ IF backup[n] = "absent"
          THEN todo' = todo \ {o} /\ UNCHANGED <<disk, backup, pc, why, answer>>
          ELSE IF CanMove(backup[n], n)
               THEN /\ disk' = [disk EXCEPT ![n] = backup[n]]
                    /\ backup' = [backup EXCEPT ![n] = "absent"]
                    /\ todo' = todo \ {o}
                    /\ UNCHANGED <<pc, why, answer>>
               ELSE Fails /\ UNCHANGED <<disk, backup>>
  /\ UNCHANGED <<folder, journal, edit, history>>

(* A committed edit is looked at, and its directories are created again.      *)
CheckCommitted ==
  /\ pc = "recovering" /\ folder /\ journal = "committed"
  /\ pc' = "redoing" /\ todo' = Work("redoing")
  /\ UNCHANGED <<disk, stored, edit, why, answer, history>>

Recreate ==
  /\ pc = "redoing"
  /\ \E p \in todo :
       /\ Parent[p] \notin todo
       /\ IF disk[p] = "file" \/ (~Exists(p) /\ ~Holds(Parent[p])) THEN Fails /\ UNCHANGED disk
          ELSE /\ disk' = [disk EXCEPT ![p] = IF @ = "absent" THEN "empty" ELSE @]
               /\ todo' = todo \ {p}
               /\ UNCHANGED <<pc, why, answer>>
  /\ UNCHANGED <<stored, edit, history>>

Verify ==
  /\ pc = "verifying"
  /\ IF /\ \A d \in edit.deletes : ~Exists(d)
        /\ \A o \in Sources : ~Exists(o) /\ IsDir(disk[Target(o)])
     THEN pc' = "cleaning" /\ UNCHANGED <<why, todo, answer>>
     ELSE Fails
  /\ UNCHANGED <<disk, stored, edit, history>>

(* A call fails in any of these phases. *)
RecoveryFails ==
  /\ IoMayFail
  /\ pc \in {"recovering", "removing", "undeleting", "unrenaming", "redoing", "verifying"}
  /\ Fails
  /\ UNCHANGED <<disk, stored, edit, history>>

(* cleanup: remove_dir_all removes what is in the folder, in any order. *)
RemoveOne ==
  /\ pc = "cleaning"
  /\ \/ /\ \E p \in Dirs : backup[p] # "absent" /\ backup' = [backup EXCEPT ![p] = "absent"]
        /\ UNCHANGED journal
     \/ journal # "none" /\ journal' = "none" /\ UNCHANGED backup
  /\ UNCHANGED <<disk, folder, edit, pc, why, todo, answer, history>>

RemoveFolder ==
  /\ pc = "cleaning" /\ journal = "none" /\ \A p \in Dirs : backup[p] = "absent"
  /\ folder' = FALSE
  /\ Succeeds
  /\ UNCHANGED <<disk, journal, backup, edit, history>>

CleaningFails ==
  /\ IoMayFail
  /\ pc = "cleaning"
  /\ Fails
  /\ UNCHANGED <<disk, stored, edit, history>>

-----------------------------------------------------------------------------
(* apply_workspace_edit                                                       *)

Conflict ==
  /\ pc = "reading"
  /\ pc' = "idle" /\ answer' = "failed"
  /\ UNCHANGED <<disk, stored, edit, why, todo, history>>

(* validate_operation and validate_operation_relationships: a path has one    *)
(* role, and none is above another.                                           *)
Roles(creates, deletes, renames) ==
  creates \cup deletes \cup {r[1] : r \in renames} \cup {r[2] : r \in renames}

RolesApart(creates, deletes, renames) ==
  /\ creates \cap deletes = {}
  /\ \A r \in renames : {r[1], r[2]} \cap (creates \cup deletes) = {}
  /\ \A r, s \in renames : r # s => {r[1], r[2]} \cap {s[1], s[2]} = {}
  /\ \A p \in Roles(creates, deletes, renames) : Parent[p] \notin Roles(creates, deletes, renames)

ParentFits(p) == IF Parent[p] = Root THEN TRUE ELSE disk[Parent[p]] # "file"

Read ==
  /\ pc = "reading"
  /\ count.edits < MaxEdits /\ count' = [count EXCEPT !.edits = @ + 1]
  /\ \E creates \in SUBSET {p \in Dirs : ~Exists(p) /\ ParentFits(p)},
        deletes \in SUBSET {p \in Leaves : IsDir(disk[p])},
        renames \in SUBSET {r \in Leaves \X Leaves :
                              /\ IsDir(disk[r[1]]) /\ r[1] # r[2]
                              /\ disk[r[2]] # "file" /\ ParentFits(r[2])} :
       /\ Cardinality(creates) + Cardinality(deletes) + Cardinality(renames) \in 1..MaxOperations
       /\ RolesApart(creates, deletes, renames)
       /\ edit' = [NoEdit EXCEPT !.creates = creates, !.deletes = deletes, !.renames = renames]
       /\ kept' = {k \in kept : k[1] \notin Roles(creates, deletes, renames)}
  /\ committed' = FALSE /\ touched' = {}
  /\ pc' = "preparing"
  /\ UNCHANGED <<disk, stored, why, todo, answer>>

(* collect_missing_ancestors, and the folder. *)
MissingAbove == {p \in Dirs : ~Exists(p) /\ (p \in edit.creates \/ Children(p) \cap edit.creates # {})}

MakeFolder ==
  /\ pc = "preparing" /\ ~folder
  /\ folder' = TRUE
  /\ edit' = [edit EXCEPT !.created = MissingAbove]
  /\ UNCHANGED <<disk, journal, backup, pc, why, todo, answer, history>>

PlaceJournal ==
  /\ pc = "preparing" /\ folder /\ journal = "none"
  /\ journal' = "empty"
  /\ UNCHANGED <<disk, folder, backup, edit, pc, why, todo, answer, history>>

(* What the edit is to leave behind, of what is there now. *)
Outcome ==
  [p \in Dirs |-> IF p \in edit.created THEN "empty"
                  ELSE IF p \in edit.deletes \cup Sources THEN "absent"
                  ELSE IF \E o \in Sources : Target(o) = p
                       THEN disk[CHOOSE o \in Sources : Target(o) = p] ELSE disk[p]]

(* The targets in the way and the fingerprints are read with the journal,     *)
(* whose replacement may fail after the rename.                               *)
PublishPrepared ==
  /\ pc = "preparing" /\ journal = "empty"
  /\ IF \E o \in Sources : ~Exists(o)
     THEN pc' = "idle" /\ answer' = "failed" /\ UNCHANGED <<journal, edit, todo>>
     ELSE /\ journal' = "prepared"
          /\ edit' = [edit EXCEPT !.overwrites = {Target(o) : o \in {s \in Sources : Exists(Target(s))}},
                                  !.old = disk, !.new = Outcome]
          /\ \/ pc' = "creating" /\ todo' = edit.created /\ UNCHANGED answer
             \/ IoMayFail /\ pc' = "idle" /\ answer' = "failed" /\ UNCHANGED todo
  /\ UNCHANGED <<disk, folder, backup, why, history>>

PrepareFails ==
  /\ IoMayFail
  /\ pc = "preparing"
  /\ folder' \in {folder, TRUE}
  /\ pc' = "idle" /\ answer' = "failed"
  /\ UNCHANGED <<disk, journal, backup, edit, why, todo, history>>

Create ==
  /\ pc = "creating"
  /\ \E p \in todo :
       /\ Parent[p] \notin todo
       /\ IF Exists(p) \/ ~Holds(Parent[p]) THEN Undo /\ UNCHANGED disk
          ELSE /\ disk' = [disk EXCEPT ![p] = "empty"]
               /\ todo' = todo \ {p}
               /\ UNCHANGED <<pc, why, answer>>
  /\ UNCHANGED <<stored, edit, history>>

(* Mutant: the tree is removed where it is. *)
DeleteInPlace ==
  /\ pc = "deleting"
  /\ \E d \in todo :
       /\ disk' = [disk EXCEPT ![d] = "absent"]
       /\ todo' = todo \ {d}
       /\ UNCHANGED <<backup, pc, why, answer>>
  /\ UNCHANGED <<folder, journal, edit, history>>

Delete ==
  /\ pc = "deleting"
  /\ \E d \in todo :
       IF ~Exists(d) THEN Undo /\ UNCHANGED <<disk, backup>>
       ELSE /\ disk' = [disk EXCEPT ![d] = "absent"]
            /\ backup' = [backup EXCEPT ![d] = disk[d]]
            /\ todo' = todo \ {d}
            /\ UNCHANGED <<pc, why, answer>>
  /\ UNCHANGED <<folder, journal, edit, history>>

MoveTarget ==
  /\ pc = "renaming"
  /\ \E o \in todo : LET n == Target(o) IN
       /\ n \in edit.overwrites /\ backup[n] = "absent"
       /\ IF ~Exists(n) THEN Undo /\ UNCHANGED <<disk, backup>>
          ELSE /\ disk' = [disk EXCEPT ![n] = "absent"]
               /\ backup' = [backup EXCEPT ![n] = disk[n]]
               /\ UNCHANGED <<todo, pc, why, answer>>
  /\ UNCHANGED <<folder, journal, edit, history>>

MoveSource ==
  /\ pc = "renaming"
  /\ \E o \in todo : LET n == Target(o) IN
       /\ n \in edit.overwrites => backup[n] # "absent"
       /\ IF CanMove(disk[o], n)
          THEN /\ disk' = [disk EXCEPT ![o] = "absent", ![n] = disk[o]]
               /\ todo' = todo \ {o}
               /\ UNCHANGED <<pc, why, answer>>
          ELSE Undo /\ UNCHANGED disk
  /\ UNCHANGED <<stored, edit, history>>

ApplyFails ==
  /\ IoMayFail
  /\ pc \in {"creating", "deleting", "renaming"}
  /\ Undo
  /\ UNCHANGED <<disk, stored, edit, history>>

Commit ==
  /\ pc = "committing"
  /\ journal' = "committed" /\ committed' = TRUE
  /\ pc' = "cleaning" /\ why' = "commit"
  /\ UNCHANGED <<disk, folder, backup, edit, todo, answer, touched, kept, count>>

CommitFails ==
  /\ IoMayFail
  /\ pc = "committing"
  /\ \/ UNCHANGED <<journal, committed>>
     \/ journal' = "committed" /\ committed' = TRUE
  /\ Undo
  /\ UNCHANGED <<disk, folder, backup, edit, touched, kept, count>>

-----------------------------------------------------------------------------
Crash ==
  /\ pc # "down"
  /\ pc' = "down" /\ why' = "open" /\ todo' = {}
  /\ UNCHANGED <<disk, stored, edit, answer, history>>

Restart ==
  /\ pc = "down"
  /\ pc' = "idle"
  /\ UNCHANGED <<disk, stored, edit, why, todo, answer, history>>

(* Others create, change and remove.  What they put there stays unless it is  *)
(* what recovery itself would put or find; an empty directory may go.  If     *)
(* they change one end of a rename while an operation runs, the other end is  *)
(* no longer what the operation looked at, and is not answered for either.    *)
AtRest     == pc \in {"idle", "down"}
Partners(p) == {p} \cup {r[2] : r \in {s \in edit.renames : s[1] = p}}
                   \cup {r[1] : r \in {s \in edit.renames : s[2] = p}}
Pending(p) == folder /\ journal \in Readable /\ p \in Roles(edit.created, edit.deletes, edit.renames)

ForeignWrite ==
  \E p \in Dirs : \E c \in Contents \ {disk[p]} :
    /\ c # "absent" => Holds(Parent[p])
    /\ ~IsDir(c) => \A q \in Children(p) : ~Exists(q)
    /\ count.foreign < MaxForeign /\ count' = [count EXCEPT !.foreign = @ + 1]
    /\ disk' = [disk EXCEPT ![p] = c]
    /\ touched' = touched \cup Partners(p)
    /\ kept' = {k \in kept : k[1] # p /\ (AtRest \/ k[1] \notin Partners(p))} \cup
                 IF /\ AtRest /\ c \notin {"absent", "empty"}
                    /\ ~(Pending(p) /\ c \in {edit.old[q] : q \in Partners(p)})
                 THEN {<<p, c>>} ELSE {}
    /\ UNCHANGED <<stored, edit, pc, why, todo, answer, committed>>

-----------------------------------------------------------------------------
Recovery ==
  \/ NothingPending \/ Discard \/ CheckPrepared \/ RemoveCreated \/ RestoreDeleted
  \/ RestoreSource \/ RestoreTarget \/ CheckCommitted \/ Recreate \/ Verify
  \/ RecoveryFails \/ RemoveOne \/ RemoveFolder \/ CleaningFails
Apply ==
  \/ Conflict \/ Read \/ MakeFolder \/ PlaceJournal \/ PublishPrepared \/ PrepareFails
  \/ Create \/ Delete \/ MoveTarget \/ MoveSource \/ ApplyFails \/ Commit \/ CommitFails

Next == Request \/ NextPhase \/ Recovery \/ Apply \/ Crash \/ Restart \/ ForeignWrite
Spec == Init /\ [][Next]_vars

-----------------------------------------------------------------------------
TypeOK ==
  /\ disk \in [Dirs -> Contents] /\ WellFormed(disk)
  /\ folder \in BOOLEAN /\ journal \in {"none", "empty", "prepared", "committed"}
  /\ backup \in [Dirs -> Contents]
  /\ ~folder => journal = "none" /\ \A p \in Dirs : backup[p] = "absent"
  /\ pc \in Phases \cup {"down", "idle", "recovering", "verifying", "cleaning", "reading",
                         "preparing", "committing"}
  /\ why \in {"open", "edit", "undo", "commit"}
  /\ todo \subseteq Work(pc)
  /\ touched \subseteq Dirs /\ kept \subseteq Dirs \X Contents

Decided(p) == IF committed THEN edit.new[p] ELSE edit.old[p]

(* No step loses a tree: as long as an edit is not committed, every directory *)
(* it deletes, overwrites or renames is where it was, where it is renamed to, *)
(* or in the transaction folder.                                              *)
NoTreeLost ==
  ~committed /\ journal \in Readable =>
    \A p \in Dirs \ touched : p \in edit.deletes \cup Sources \cup edit.overwrites =>
      edit.old[p] \in {disk[p], backup[p]} \cup {disk[Target(o)] : o \in Sources \cap {p}}

(* What somebody put into the workspace while no operation ran, a file or a   *)
(* directory with something in it, survives every recovery.                   *)
ForeignTreesKept == \A k \in kept : disk[k[1]] = k[2]

(* No tree is lost, neither one the edit moves nor one that others made.      *)
TreesKept == NoTreeLost /\ ForeignTreesKept

(* Opening the workspace brings a pending edit of directories to its end:     *)
(* while no call fails and nobody else changed anything, no open is refused.  *)
DirectoryOpenRecovers == answer = "refused" => touched # {}

(* What every path is to hold by the journal, and by the others who wrote it. *)
InForce == [p \in Dirs |-> IF p \in touched THEN disk[p] ELSE Decided(p)]

Atomic == INSTANCE AtomicEdit WITH Paths <- Dirs, shown <- disk, decided <- InForce,
                                   pending <- folder, foreign <- touched

(* Through every crash, error and recovery, an edit of directories is one step of  *)
(* AtomicEdit: it implements what is promised there (apply_and_commit and     *)
(* recover_transaction, seen from the workspace).                             *)
DirectoriesAtomic == Atomic!Spec
=============================================================================
