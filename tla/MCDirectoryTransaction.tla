----------------------- MODULE MCDirectoryTransaction -----------------------
(* TLC instances of what the commands of the window do beside the indexing,   *)
(* side by side: DirectoryTransaction on a parent with two children and a     *)
(* directory beside it, and the log of a device.  part says which of them     *)
(* runs, the variables of the other stay initial.                             *)
EXTENDS DirectoryTransaction, WindowLog

MCDirs   == {"p", "p/x", "p/y", "d"}
MCParent == [q \in MCDirs |-> IF q \in {"p/x", "p/y"} THEN "p" ELSE "root"]

(* The directory beside it has something in it.                               *)
MCInitialDisks ==
  {disk0 \in [MCDirs -> {"absent", "empty", "t", "u"}] :
     /\ disk0["d"] = "t" /\ disk0["p/y"] \in {"absent", "u"}
     /\ disk0["p"] \in {"absent", "empty"} /\ disk0["p/x"] \in {"absent", "empty"}
     /\ disk0["p"] = "absent" => disk0["p/x"] = "absent" /\ disk0["p/y"] = "absent"}

VARIABLE part

(* The writes of WindowLog's instance fail.  Exports are of what is on the    *)
(* disk.                                                                      *)
Exports == INSTANCE DeviceLog WITH
    WritesMayFail <- FALSE, MaxLines <- 4, MaxTicks <- 2, MaxRestarts <- 0, MaxExports <- 1

AllInit ==
  /\ part \in {"directories", "exports", "failures"}
  /\ Init /\ (part = "directories" \/ disk = [q \in MCDirs |-> IF q = "d" THEN "t" ELSE "absent"])
  /\ Log!Init

(* The stream may stop for good, the edits may not. *)
AllNext ==
  /\ part' = part
  /\ \/ part = "directories" /\ Next /\ UNCHANGED log
     \/ part = "exports" /\ Exports!Next /\ UNCHANGED vars
     \/ part = "failures" /\ Log!Next /\ UNCHANGED vars
     \/ part # "directories" /\ UNCHANGED <<vars, log>>

AllSpec == AllInit /\ [][AllNext]_<<part, vars, log>>
=============================================================================
