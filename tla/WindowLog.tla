------------------------------ MODULE WindowLog ------------------------------
(* The log of a device under names of its own, to stand beside the edits of   *)
(* the workspace: both serve the commands of the window, and neither changes  *)
(* a variable of the other.                                                   *)
EXTENDS Naturals

CONSTANTS MaxBatch, QueueCapacity, PageBatches, Limit, Window, WritesMayFail, MaxStreams,
          MaxLines, MaxTicks, MaxRestarts, MaxUpkeep, MaxExports    \* as in DeviceLog

(* normalize_query_limit, QUERY_BATCH_PAGE_SIZE, time_range_ms. *)
ASSUME Sizes == Limit \in Nat \ {0} /\ PageBatches \in Nat \ {0} /\ Window \in Nat

VARIABLES next, running, listed, pipe, handing, queue, job, writer, segment, rows, clock, stats,
          command, printed, restarts, upkeep, exports

log == <<next, running, listed, pipe, handing, queue, job, writer, segment, rows, clock, stats,
         command, printed, restarts, upkeep, exports>>

Log == INSTANCE DeviceLog

(* The counters of a stream account for every line its reader took, through   *)
(* every failure.                                                             *)
EveryLineCounted == Log!EveryLineCounted

(* An export that ends has every line that was on the disk when it began and  *)
(* that its last page still looks back to, though its pages end in the middle *)
(* of a batch, new batches come meanwhile and old ones slide out of the       *)
(* window.                                                                    *)
ExportComplete == Log!ExportComplete
=============================================================================
