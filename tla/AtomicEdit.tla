----------------------------- MODULE AtomicEdit -----------------------------
(* What a workspace edit promises whoever looks at the workspace, be it of    *)
(* files or of directories: while an edit is pending the paths may show       *)
(* anything, and what they are to hold is decided in one step, for all of     *)
(* them; the edit is over only when they show it.  What others write counts   *)
(* at once, and the edit answers for those paths no more.                     *)
CONSTANTS Paths,    \* of the workspace
          Contents  \* what a path may hold

VARIABLES shown,    \* what every path holds
          decided,  \* what it holds once no edit is pending
          pending,  \* an edit was begun and is not over
          foreign   \* paths others wrote since it read the workspace

vars == <<shown, decided, pending, foreign>>

Init ==
  /\ shown \in [Paths -> Contents] /\ decided = shown
  /\ pending = FALSE /\ foreign = {}

(* The workspace is read for an edit. *)
Look ==
  /\ ~pending
  /\ foreign' = {}
  /\ UNCHANGED <<shown, decided, pending>>

Begin ==
  /\ ~pending
  /\ pending' = TRUE
  /\ UNCHANGED <<shown, decided, foreign>>

Move ==
  /\ pending
  /\ shown' \in [Paths -> Contents]
  /\ decided' = [p \in Paths |-> IF p \in foreign THEN shown'[p] ELSE decided[p]]
  /\ UNCHANGED <<pending, foreign>>

(* The edit is done: what the paths show by now is decided. *)
Decide ==
  /\ pending
  /\ decided' = shown
  /\ UNCHANGED <<shown, pending, foreign>>

Settle ==
  /\ pending /\ shown = decided
  /\ pending' = FALSE
  /\ UNCHANGED <<shown, decided, foreign>>

Others ==
  /\ foreign' \in SUBSET Paths /\ foreign \subseteq foreign'
  /\ shown' \in [Paths -> Contents]
  /\ \A p \in Paths \ foreign' : shown'[p] = shown[p]
  /\ decided' = [p \in Paths |-> IF p \in foreign' THEN shown'[p] ELSE decided[p]]
  /\ UNCHANGED pending

Next == Look \/ Begin \/ Move \/ Decide \/ Settle \/ Others
Spec == Init /\ [][Next]_vars
=============================================================================
