----------------------------- MODULE WorkerHost -----------------------------
(* The host of the processes that index for the worker, to stand beside what  *)
(* the worker is part of: the batches of the manager or the loop that runs    *)
(* them.  These know of a task only how it ends, the host only what a task    *)
(* asks for, so neither changes a variable of the other.                      *)
EXTENDS Naturals

CONSTANTS MaxConsecutiveFailures, Chunks    \* as in IndexerHost

VARIABLES lanes, calls, task, token, latency, installed

host == <<lanes, calls, task, token, latency, installed>>

Host == INSTANCE IndexerHost

(* A process in a lane has answered every request, so that the next request   *)
(* of the lane cannot read the answer to one that was given up.               *)
KeptSessionsOweNothing == Host!KeptSessionsOweNothing

(* A lane is taken exactly while a request of the task holds it, whatever     *)
(* became of the one before.                                                  *)
InFlightIsHeld == Host!InFlightIsHeld
=============================================================================
