--------------------------- MODULE MCIndexManager ---------------------------
(* IndexManager on two instances: two callers and the maintenance fence, and  *)
(* one caller with the follow-ups of deep tasks and more generations; and the *)
(* host of the processes that index for a task.  part says which of them      *)
(* runs.                                                                      *)
EXTENDS IndexManager, WorkerHost, TLC

CONSTANT alone    \* the caller of the second instance

VARIABLE part

FollowUps == INSTANCE IndexManager WITH
    Callers <- {alone}, Maintained <- {}, JournalMayFail <- FALSE,
    Asked <- {"refresh-workspace", "watcher", "full-refresh-deep"},
    BatchSize <- 3, MaxGeneration <- 4

AllInit ==
  /\ part \in {"callers", "follow-ups", "host"}
  /\ part = "follow-ups" => FollowUps!Init
  /\ part # "follow-ups" => Init
  /\ Host!Init /\ (installed \/ part = "host")

(* Only the first may not stop. *)
AllNext ==
  /\ part' = part
  /\ \/ part = "callers" /\ Next /\ UNCHANGED host
     \/ part = "follow-ups" /\ FollowUps!Next /\ UNCHANGED host
     \/ part = "follow-ups" /\ ~FollowUps!CanNumber /\ UNCHANGED <<vars, host>>
     \/ part = "host" /\ Host!Next /\ UNCHANGED vars

AllSpec == AllInit /\ [][AllNext]_<<part, vars, host>>

CallerSymmetry == Permutations(Callers)

(* No action reads the rows. *)
WithoutRows ==
  <<part, sched, blocked, batch, registered, runner, caller, fence, history, host>>
=============================================================================
