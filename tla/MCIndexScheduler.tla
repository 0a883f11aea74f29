-------------------------- MODULE MCIndexScheduler --------------------------
(* IndexScheduler on two instances: the requests of users with two paths, and *)
(* the follow-ups of deep tasks with one path and fewer generations.  part    *)
(* says which of them runs.                                                   *)
EXTENDS IndexScheduler, TLC

CONSTANT path    \* of the second instance

VARIABLE part

FollowUps == INSTANCE IndexScheduler WITH
    Paths <- {path}, MaxGeneration <- 4,
    Asked <- {"open-workspace", "full-refresh-deep", "watcher"}

AllInit == part \in {"requests", "follow-ups"} /\ Init

AllNext ==
  /\ part' = part
  /\ \/ part = "requests" /\ Next
     \/ part = "follow-ups" /\ FollowUps!Next

AllSpec == AllInit /\ [][AllNext]_<<part, vars>>

PathSymmetry == Permutations(Paths)

(* The action properties read returned' of each step; no action reads it. *)
WithoutReturned == <<part, sched, running, calls, owed, passedOver>>
=============================================================================
