----------------------------- MODULE IndexStore -----------------------------
(***************************************************************************)
(* The SQLite store of one workspace: the registry of its revision,        *)
(* generation and reader leases, the connection manager with its writer    *)
(* gate, its one pooled writer connection and its pool of readers, and the *)
(* copy-and-swap compaction that replaces the file while the program runs. *)
(*                                                                         *)
(* A file is a number and holds rows; a write adds one row to the file of  *)
(* the connection it runs on, so how many rows a file holds tells which    *)
(* writes it has.  The builder is the maintenance runtime, the committer   *)
(* the publication actor; a builder that is told to yield gives its        *)
(* candidate up while the committer may still be at it.  Only this process *)
(* writes, and the store is not deleted under it.                          *)
(***************************************************************************)
EXTENDS Integers, Sequences, FiniteSets

CONSTANTS Readers,      \* the threads that read
          Writers,      \* the threads that write through the gate
          ReaderLimit,  \* pooled readers at most
          MaxWrites,    \* bound: writes
          MaxSwaps      \* bound: generations of the store

Files == 0..MaxSwaps
NoFile == -1
Free == "free"
Committer == "committer"

ASSUME BoundsAssumption == ReaderLimit \in Nat /\ MaxSwaps \in Nat
ASSUME ThreadsAssumption ==
    IsFiniteSet(Readers) /\ Committer \notin Writers /\ Free \notin Writers

VARIABLES
    live,        \* the file at the store's path
    rows,        \* the rows of each file
    committed,   \* history: the writes that were committed
    revision, generation, leases,   \* the registry
    gate,        \* who holds the writer gate
    pool,        \* the files of the pooled readers, the last on top
    writerConn,  \* the file of the pooled writer
    reader,      \* per reader: where it is, its lease and its connection
    writer,      \* per writer: where it is
    build,       \* the builder: where it is and the candidate it makes
    offer        \* the committer: where it is and the candidate it was given

registry == <<revision, generation, leases>>
table == <<live, rows, committed>>
vars == <<table, registry, gate, pool, writerConn, reader, writer, build, offer>>

NoCandidate == [rev |-> 0, before |-> 0, copy |-> 0, fingerprint |-> 0]
IdleReader == [at |-> "Idle", gen |-> 0, conn |-> NoFile, own |-> FALSE]

Init ==
    /\ live = 0
    /\ rows = [f \in Files |-> 0]
    /\ committed = 0
    /\ revision = 0 /\ generation = 0 /\ leases = 0
    /\ gate = Free
    /\ pool = <<>>
    /\ writerConn = NoFile
    /\ reader = [r \in Readers |-> IdleReader]
    /\ writer = [w \in Writers |-> "Idle"]
    /\ build = [at |-> "Idle", cand |-> NoCandidate]
    /\ offer = [at |-> "None", cand |-> NoCandidate, present |-> FALSE]

-----------------------------------------------------------------------------
(* Readers: a lease, a connection from the pool or a new one, and back. *)

AcquireLease(r) ==
    /\ reader[r].at = "Idle"
    /\ leases' = leases + 1
    /\ reader' = [reader EXCEPT ![r] = [@ EXCEPT !.at = "Leased", !.gen = generation]]
    /\ UNCHANGED <<table, revision, generation, gate, pool, writerConn, writer, build, offer>>

TakePooled(r) ==
    /\ reader[r].at = "Leased"
    /\ pool # <<>>
    /\ reader' = [reader EXCEPT ![r] =
                    [@ EXCEPT !.at = "Using", !.conn = pool[Len(pool)], !.own = FALSE]]
    /\ pool' = SubSeq(pool, 1, Len(pool) - 1)
    /\ UNCHANGED <<table, registry, gate, writerConn, writer, build, offer>>

OpenReader(r) ==
    /\ reader[r].at = "Leased"
    /\ pool = <<>>
    /\ reader' = [reader EXCEPT ![r] = [@ EXCEPT !.at = "Using", !.conn = live, !.own = TRUE]]
    /\ UNCHANGED <<table, registry, gate, pool, writerConn, writer, build, offer>>

\* Drop of a reader: the generation is compared before the pool is locked.
CompareGeneration(r) ==
    /\ reader[r].at = "Using"
    /\ reader' = [reader EXCEPT ![r].at =
                    IF generation = reader[r].gen THEN "Returning" ELSE "Dropping"]
    /\ UNCHANGED <<table, registry, gate, pool, writerConn, writer, build, offer>>

ReturnToPool(r) ==
    /\ reader[r].at = "Returning"
    /\ pool' = IF Len(pool) < ReaderLimit THEN Append(pool, reader[r].conn) ELSE pool
    /\ reader' = [reader EXCEPT ![r].at = "Dropping"]
    /\ UNCHANGED <<table, registry, gate, writerConn, writer, build, offer>>

\* The lease is a field of the reader and is dropped after the reader's own Drop.
DropLease(r) ==
    /\ reader[r].at = "Dropping"
    /\ leases' = leases - 1
    /\ reader' = [reader EXCEPT ![r] = IdleReader]
    /\ UNCHANGED <<table, revision, generation, gate, pool, writerConn, writer, build, offer>>

-----------------------------------------------------------------------------
(* Writers: one at a time, on the pooled connection or a new one. *)

AcquireGate(w) ==
    /\ writer[w] = "Idle"
    /\ gate = Free
    /\ gate' = w
    /\ writer' = [writer EXCEPT ![w] = "Holding"]
    /\ UNCHANGED <<table, registry, pool, writerConn, reader, build, offer>>

\* The transaction commits on the connection that was taken.
Target == IF writerConn = NoFile THEN live ELSE writerConn

Commit(w) ==
    /\ writer[w] = "Holding"
    /\ committed < MaxWrites
    /\ rows' = [rows EXCEPT ![Target] = @ + 1]
    /\ committed' = committed + 1
    /\ writerConn' = Target
    /\ writer' = [writer EXCEPT ![w] = "Committed"]
    /\ UNCHANGED <<live, registry, gate, pool, reader, build, offer>>

\* record_workspace_index_write, then the gate is released.
RecordWrite(w) ==
    /\ writer[w] = "Committed"
    /\ revision' = revision + 1
    /\ gate' = Free
    /\ writer' = [writer EXCEPT ![w] = "Idle"]
    /\ UNCHANGED <<table, generation, leases, pool, writerConn, reader, build, offer>>

\* The operation or the commit fails, or already the connection's set-up, which
\* does not put the connection back: a transaction records nothing.
Rollback(w) ==
    /\ writer[w] = "Holding"
    /\ writerConn' \in {Target, NoFile}
    /\ gate' = Free
    /\ writer' = [writer EXCEPT ![w] = "Idle"]
    /\ UNCHANGED <<table, registry, pool, reader, build, offer>>

-----------------------------------------------------------------------------
(* The builder: quiesce, read the revision, copy, compare. *)

\* A busy checkpoint ends the attempt, and so does a request to yield at any step.
Quiesce ==
    /\ build.at = "Idle"
    /\ gate = Free
    /\ writerConn' = NoFile
    /\ pool' = <<>>
    /\ \E at \in {"Idle", "Quiet"} : build' = [at |-> at, cand |-> NoCandidate]
    /\ UNCHANGED <<table, registry, gate, reader, writer, offer>>

BuildStep(from, to, cand) ==
    /\ build.at = from
    /\ build' = [at |-> to, cand |-> cand]
    /\ UNCHANGED <<table, registry, gate, pool, writerConn, reader, writer, offer>>

ReadRevision == BuildStep("Quiet", "Revision", [build.cand EXCEPT !.rev = revision])
OpenSource == BuildStep("Revision", "Opened", [build.cand EXCEPT !.before = rows[live]])
VacuumInto == BuildStep("Opened", "Copied", [build.cand EXCEPT !.copy = rows[live]])

\* data_version tells the copying connection that another one has committed.
CompareVersion ==
    BuildStep("Copied", IF rows[live] = build.cand.before THEN "Compared" ELSE "Idle", build.cand)
Fingerprint ==
    BuildStep("Compared", "Printed", [build.cand EXCEPT !.fingerprint = rows[live]])
GiveUp == BuildStep(build.at, "Idle", NoCandidate) /\ build.at \notin {"Idle", "Offered"}

Unchanged(cand) == revision = cand.rev /\ rows[live] = cand.fingerprint

\* The last comparison; then the candidate is published as idle maintenance.
Offer ==
    /\ build.at = "Printed"
    /\ offer.at = "None"
    /\ \/ /\ Unchanged(build.cand)
          /\ build' = [build EXCEPT !.at = "Offered"]
          /\ offer' = [at |-> "Given", cand |-> build.cand, present |-> TRUE]
       \/ /\ ~ Unchanged(build.cand)
          /\ build' = [build EXCEPT !.at = "Idle"]
          /\ UNCHANGED offer
    /\ UNCHANGED <<table, registry, gate, pool, writerConn, reader, writer>>

\* The publication is cancelled: the candidate is removed, wherever the actor is.
Withdraw ==
    /\ build.at = "Offered"
    /\ build' = [build EXCEPT !.at = "Idle"]
    /\ offer' = [offer EXCEPT !.present = FALSE]
    /\ UNCHANGED <<table, registry, gate, pool, writerConn, reader, writer>>

-----------------------------------------------------------------------------
(* The committer: the gate, the pools, the check of the candidate, the swap. *)

DrainPools ==
    /\ offer.at = "Given"
    /\ generation < MaxSwaps
    /\ gate = Free
    /\ gate' = Committer
    /\ writerConn' = NoFile
    /\ pool' = <<>>
    /\ offer' = [offer EXCEPT !.at = "Drained"]
    /\ UNCHANGED <<table, registry, reader, writer, build>>

Validate ==
    /\ offer.at = "Drained"
    /\ offer.present
    /\ offer' = [offer EXCEPT !.at = "Valid"]
    /\ UNCHANGED <<table, registry, gate, pool, writerConn, reader, writer, build>>

\* The candidate is removed and the builder answered; the gate is released.
Finished ==
    /\ gate' = Free
    /\ offer' = [at |-> "None", cand |-> NoCandidate, present |-> FALSE]
    /\ build' = IF build.at = "Offered" THEN [build EXCEPT !.at = "Idle"] ELSE build

\* The candidate is gone: opening it or renaming it fails.
FailCommit ==
    /\ offer.at \in {"Drained", "Valid"}
    /\ ~ offer.present
    /\ Finished
    /\ UNCHANGED <<table, registry, pool, writerConn, reader, writer>>

\* Mutants: the swap asks only one of its two questions.
RefusedForReaders == leases > 0
RefusedForRevision == revision # offer.cand.rev

Refused == revision # offer.cand.rev \/ leases > 0

RefuseSwap ==
    /\ offer.at = "Valid"
    /\ Refused
    /\ Finished
    /\ UNCHANGED <<table, registry, pool, writerConn, reader, writer>>

\* A changed fingerprint or a busy checkpoint: nothing is replaced, and yet
\* both counters of the registry advance.
DeferSwap ==
    /\ offer.at = "Valid"
    /\ ~ Refused
    /\ revision' = revision + 1
    /\ generation' = generation + 1
    /\ Finished
    /\ UNCHANGED <<table, leases, pool, writerConn, reader, writer>>

SwapFile ==
    /\ offer.at = "Valid"
    /\ offer.present
    /\ ~ Refused
    /\ rows[live] = offer.cand.fingerprint
    /\ live' = live + 1
    /\ rows' = [rows EXCEPT ![live + 1] = offer.cand.copy]
    /\ revision' = revision + 1
    /\ generation' = generation + 1
    /\ Finished
    /\ UNCHANGED <<committed, leases, pool, writerConn, reader, writer>>

-----------------------------------------------------------------------------
ReaderStep(r) ==
    \/ AcquireLease(r) \/ TakePooled(r) \/ OpenReader(r)
    \/ CompareGeneration(r) \/ ReturnToPool(r) \/ DropLease(r)

WriterStep(w) == AcquireGate(w) \/ Commit(w) \/ RecordWrite(w) \/ Rollback(w)

BuilderStep ==
    \/ Quiesce \/ ReadRevision \/ OpenSource \/ VacuumInto \/ CompareVersion
    \/ Fingerprint \/ GiveUp \/ Offer \/ Withdraw

CommitterStep == DrainPools \/ Validate \/ FailCommit \/ RefuseSwap \/ DeferSwap \/ SwapFile

Next ==
    \/ \E r \in Readers : ReaderStep(r)
    \/ \E w \in Writers : WriterStep(w)
    \/ BuilderStep
    \/ CommitterStep

Spec == Init /\ [][Next]_vars

-----------------------------------------------------------------------------
Candidates == [rev : Nat, before : Nat, copy : Nat, fingerprint : Nat]
ReaderStates == [at : {"Idle", "Leased", "Using", "Returning", "Dropping"},
                 gen : Nat, conn : Files \cup {NoFile}, own : BOOLEAN]
BuildStates == [at : {"Idle", "Quiet", "Revision", "Opened", "Copied", "Compared",
                      "Printed", "Offered"}, cand : Candidates]
OfferStates == [at : {"None", "Given", "Drained", "Valid"}, cand : Candidates,
                present : BOOLEAN]

TypeOK ==
    /\ live \in Files
    /\ rows \in [Files -> Nat]
    /\ committed \in Nat
    /\ revision \in Nat /\ generation \in Nat /\ leases \in Int
    /\ gate \in Writers \cup {Committer, Free}
    /\ pool \in Seq(Files)
    /\ writerConn \in Files \cup {NoFile}
    /\ reader \in [Readers -> ReaderStates]
    /\ writer \in [Writers -> {"Idle", "Holding", "Committed"}]
    /\ build \in BuildStates
    /\ offer \in OfferStates

(* The file at the store's path has every committed write: a compaction that
   was copied from an older state of the file, or swapped in under a writer,
   or a writer that kept its connection over a swap, would lose some. *)
NoWriteLost == rows[live] = committed

(* A reader that opened its own connection reads the file at the store's path
   for as long as it holds it: no swap happens under its lease. *)
OwnReadersReadTheStore ==
    \A r \in Readers : reader[r].at \in {"Using", "Returning"} /\ reader[r].own
                           => reader[r].conn = live

(* The plan of this store says that pooled readers are drained before the swap
   and that a reader of an older generation never comes back to the pool: a
   pooled connection is one on the file at the store's path. *)
PoolIsDrained == \A i \in DOMAIN pool : pool[i] = live
=============================================================================
