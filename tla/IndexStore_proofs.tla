-------------------------- MODULE IndexStore_proofs --------------------------
(* Theorems about IndexStore, for every number of readers, writers, pooled     *)
(* connections, writes and swaps, and about IndexPublication, for any callers, *)
(* artifacts, work and capacities.                                            *)
EXTENDS StoreWriter, FiniteSetTheorems, WellFoundedInduction, TLAPS

(* The gate is held by the one writer that is at work, or by the committer    *)
(* between the drain of the pools and its answer.                             *)
GateHeld ==
  /\ \A w \in Writers : writer[w] # "Idle" <=> gate = w
  /\ gate = Committer <=> offer.at \in {"Drained", "Valid"}

(* The pooled writer is on the store's file; the committer has dropped it. *)
WriterOnLive ==
  /\ writerConn \in {NoFile, live}
  /\ gate = Committer => writerConn = NoFile

(* There is a file left to swap in for a committer that holds the gate. *)
SwapsLeft ==
  /\ live <= generation
  /\ generation <= MaxSwaps
  /\ gate = Committer => generation < MaxSwaps

Leased == {r \in Readers : reader[r].at # "Idle"}

(* The counter of leases counts the readers that have one. *)
LeasesCounted == leases = Cardinality(Leased)

(* A reader that is reading or returning has a connection. *)
Connected ==
  \A r \in Readers : reader[r].at \in {"Using", "Returning"} => reader[r].conn \in Files

(* No candidate knows a revision that is still to come. *)
RevisionsKnown == build.cand.rev <= revision /\ offer.cand.rev <= revision

(* Every committed write has raised the revision. *)
Recorded == \A w \in Writers : writer[w] # "Committed"

(* A copy made under the revision that still stands has all of the store. *)
CopyOf(cand) == cand.rev = revision /\ Recorded => cand.copy = rows[live]

CopiesComplete ==
  /\ build.at \in {"Copied", "Compared", "Printed", "Offered"} => CopyOf(build.cand)
  /\ offer.at # "None" => CopyOf(offer.cand)

IInv ==
  /\ TypeOK
  /\ GateHeld
  /\ WriterOnLive
  /\ SwapsLeft
  /\ LeasesCounted
  /\ Connected
  /\ RevisionsKnown
  /\ CopiesComplete
  /\ NoWriteLost
  /\ OwnReadersReadTheStore

-----------------------------------------------------------------------------
(* The invariant holds at the start. *)
LEMMA Initially == Init => IInv
<1> SUFFICES ASSUME Init PROVE IInv
  OBVIOUS
<1> USE BoundsAssumption, ThreadsAssumption DEF Init
<1>1. TypeOK
  BY DEF TypeOK, Files, NoFile, IdleReader, NoCandidate, Candidates,
         ReaderStates, BuildStates, OfferStates
<1>2. Leased = {}
  BY DEF Leased, IdleReader
<1>3. LeasesCounted
  BY <1>2, FS_EmptySet DEF LeasesCounted
<1>4. GateHeld /\ WriterOnLive /\ SwapsLeft
  BY DEF GateHeld, WriterOnLive, SwapsLeft, Files, NoFile, Free, Committer
<1>5. Connected /\ OwnReadersReadTheStore
  BY DEF Connected, OwnReadersReadTheStore, IdleReader
<1>6. RevisionsKnown /\ CopiesComplete /\ NoWriteLost
  BY DEF RevisionsKnown, CopiesComplete, NoWriteLost, NoCandidate, Files
<1>7. QED
  BY <1>1, <1>3, <1>4, <1>5, <1>6 DEF IInv

-----------------------------------------------------------------------------
(* Types. *)

(* The steps of a reader are typed ... *)
LEMMA ReaderTypes ==
  ASSUME IInv, NEW r \in Readers, ReaderStep(r)
  PROVE  TypeOK'
<1>t. /\ TypeOK
      /\ reader[r] \in ReaderStates
      /\ reader[r].at \in {"Using", "Returning"} => reader[r].conn \in Files
  BY DEF IInv, TypeOK, Connected
<1>1. ASSUME NEW s \in ReaderStates, reader' = [reader EXCEPT ![r] = s]
      PROVE  reader' \in [Readers -> ReaderStates]
  BY <1>t, <1>1 DEF TypeOK
<1>2. ASSUME NEW at \in {"Idle", "Leased", "Using", "Returning", "Dropping"},
             NEW gen \in Nat, NEW conn \in Files \cup {NoFile}, NEW own \in BOOLEAN
      PROVE  /\ [reader[r] EXCEPT !.at = at] \in ReaderStates
             /\ [reader[r] EXCEPT !.at = at, !.gen = gen] \in ReaderStates
             /\ [reader[r] EXCEPT !.at = at, !.conn = conn, !.own = own] \in ReaderStates
  BY <1>t DEF ReaderStates
<1>3. CASE AcquireLease(r)
  <2>1. reader' \in [Readers -> ReaderStates]
    BY <1>t, <1>1, <1>2, <1>3 DEF AcquireLease, TypeOK
  <2>2. QED
    BY <1>t, <1>3, <2>1 DEF TypeOK, AcquireLease, table
<1>4. CASE TakePooled(r)
  <2>1. pool[Len(pool)] \in Files /\ SubSeq(pool, 1, Len(pool) - 1) \in Seq(Files)
    BY <1>t, <1>4 DEF TypeOK, TakePooled
  <2>2. reader' \in [Readers -> ReaderStates]
    BY <1>1, <1>2, <1>4, <2>1 DEF TakePooled
  <2>3. QED
    BY <1>t, <1>4, <2>1, <2>2 DEF TypeOK, TakePooled, table, registry
<1>5. CASE OpenReader(r)
  <2>1. reader' \in [Readers -> ReaderStates]
    BY <1>t, <1>1, <1>2, <1>5 DEF OpenReader, TypeOK
  <2>2. QED
    BY <1>t, <1>5, <2>1 DEF TypeOK, OpenReader, table, registry
<1>6. CASE CompareGeneration(r)
  <2>1. reader' \in [Readers -> ReaderStates]
    BY <1>1, <1>2, <1>6 DEF CompareGeneration
  <2>2. QED
    BY <1>t, <1>6, <2>1 DEF TypeOK, CompareGeneration, table, registry
<1>7. CASE ReturnToPool(r)
  <2>1. pool' \in Seq(Files)
    BY <1>t, <1>7 DEF TypeOK, ReturnToPool
  <2>2. reader' \in [Readers -> ReaderStates]
    BY <1>1, <1>2, <1>7 DEF ReturnToPool
  <2>3. QED
    BY <1>t, <1>7, <2>1, <2>2 DEF TypeOK, ReturnToPool, table, registry
<1>8. CASE DropLease(r)
  <2>1. IdleReader \in ReaderStates
    BY DEF IdleReader, ReaderStates
  <2>2. reader' \in [Readers -> ReaderStates]
    BY <1>1, <1>8, <2>1 DEF DropLease
  <2>3. QED
    BY <1>t, <1>8, <2>2 DEF TypeOK, DropLease, table
<1>9. QED
  BY <1>3, <1>4, <1>5, <1>6, <1>7, <1>8 DEF ReaderStep

(* ... those of a writer ... *)
LEMMA WriterTypes ==
  ASSUME TypeOK, NEW w \in Writers, WriterStep(w)
  PROVE  TypeOK'
<1>1. Target \in Files
  BY DEF TypeOK, Target
<1>2. CASE AcquireGate(w)
  BY <1>2 DEF TypeOK, AcquireGate, table, registry
<1>3. CASE Commit(w)
  BY <1>1, <1>3 DEF TypeOK, Commit, registry
<1>4. CASE RecordWrite(w)
  BY <1>4 DEF TypeOK, RecordWrite, table
<1>5. CASE Rollback(w)
  BY <1>1, <1>5 DEF TypeOK, Rollback, table, registry
<1>6. QED
  BY <1>2, <1>3, <1>4, <1>5 DEF WriterStep

(* A step of the builder that touches nothing else leaves the types alone. *)
LEMMA BuildTypes ==
  ASSUME TypeOK, BuilderStep
  PROVE  TypeOK'
<1>1. rows[live] \in Nat /\ revision \in Nat /\ build.cand \in Candidates
      /\ NoCandidate \in Candidates
  BY DEF TypeOK, BuildStates, NoCandidate, Candidates
<1>2. ASSUME NEW from, NEW to \in {"Idle", "Quiet", "Revision", "Opened", "Copied",
                                  "Compared", "Printed", "Offered"},
             NEW cand \in Candidates, BuildStep(from, to, cand)
      PROVE  TypeOK'
  BY <1>2 DEF TypeOK, BuildStates, BuildStep, table, registry
<1>3. ASSUME NEW n \in Nat
      PROVE  /\ [build.cand EXCEPT !.rev = n] \in Candidates
             /\ [build.cand EXCEPT !.before = n] \in Candidates
             /\ [build.cand EXCEPT !.copy = n] \in Candidates
             /\ [build.cand EXCEPT !.fingerprint = n] \in Candidates
  BY <1>1 DEF Candidates
<1>4. CASE Quiesce
  BY <1>1, <1>4 DEF Quiesce, TypeOK, BuildStates, table, registry
<1>5. CASE ReadRevision
  BY <1>1, <1>2, <1>3, <1>5 DEF ReadRevision
<1>6. CASE OpenSource
  BY <1>1, <1>2, <1>3, <1>6 DEF OpenSource
<1>7. CASE VacuumInto
  BY <1>1, <1>2, <1>3, <1>7 DEF VacuumInto
<1>8. CASE CompareVersion
  BY <1>1, <1>2, <1>8 DEF CompareVersion
<1>9. CASE Fingerprint
  BY <1>1, <1>2, <1>3, <1>9 DEF Fingerprint
<1>10. CASE GiveUp
  BY <1>1, <1>2, <1>10 DEF GiveUp
<1>11. CASE Offer
  <2>1. ASSUME NEW at \in {"Idle", "Offered"}
        PROVE  [build EXCEPT !.at = at] \in BuildStates
    BY DEF TypeOK, BuildStates
  <2>2. [at |-> "Given", cand |-> build.cand, present |-> TRUE] \in OfferStates
    BY <1>1 DEF OfferStates
  <2>3. build' \in BuildStates /\ offer' \in OfferStates
    BY <1>11, <2>1, <2>2 DEF Offer, TypeOK
  <2>4. QED
    BY <1>11, <2>3 DEF Offer, TypeOK, table, registry
<1>12. CASE Withdraw
  <2>1. build' \in BuildStates /\ offer' \in OfferStates
    BY <1>12 DEF Withdraw, TypeOK, BuildStates, OfferStates
  <2>2. QED
    BY <1>12, <2>1 DEF Withdraw, TypeOK, table, registry
<1>13. QED
  BY <1>4, <1>5, <1>6, <1>7, <1>8, <1>9, <1>10, <1>11, <1>12 DEF BuilderStep

(* ... and those of the swap ... *)
LEMMA CommitTypes ==
  ASSUME IInv, CommitterStep
  PROVE  TypeOK'
<1>t. TypeOK
  BY DEF IInv
<1>1. ASSUME Finished
      PROVE  /\ build' \in BuildStates /\ offer' \in OfferStates
             /\ gate' \in Writers \cup {Committer, Free}
  BY <1>t, <1>1 DEF Finished, TypeOK, BuildStates, OfferStates, NoCandidate, Candidates
<1>2. CASE DrainPools
  <2>1. offer' \in OfferStates
    BY <1>t, <1>2 DEF DrainPools, TypeOK, OfferStates
  <2>2. pool' \in Seq(Files) /\ gate' \in Writers \cup {Committer, Free}
    BY <1>2 DEF DrainPools
  <2>3. QED
    BY <1>t, <1>2, <2>1, <2>2 DEF DrainPools, TypeOK, table, registry
<1>3. CASE Validate
  <2>1. offer' \in OfferStates
    BY <1>t, <1>3 DEF Validate, TypeOK, OfferStates
  <2>2. QED
    BY <1>t, <1>3, <2>1 DEF Validate, TypeOK, table, registry
<1>4. CASE FailCommit
  BY <1>t, <1>1, <1>4 DEF FailCommit, TypeOK, table, registry
<1>5. CASE RefuseSwap
  BY <1>t, <1>1, <1>5 DEF RefuseSwap, TypeOK, table, registry
<1>6. CASE DeferSwap
  BY <1>t, <1>1, <1>6 DEF DeferSwap, TypeOK, table
<1>7. CASE SwapFile
  <2>1. live + 1 \in Files
    BY <1>t, <1>7, BoundsAssumption
       DEF IInv, TypeOK, OfferStates, SwapsLeft, GateHeld, SwapFile, Files
  <2>2. offer.cand.copy \in Nat
    BY <1>t DEF TypeOK, OfferStates, Candidates
  <2>3. rows' \in [Files -> Nat] /\ live' \in Files
    BY <1>t, <1>7, <2>1, <2>2 DEF SwapFile, TypeOK
  <2>4. QED
    BY <1>t, <1>1, <1>7, <2>3 DEF SwapFile, TypeOK
<1>8. QED
  BY <1>2, <1>3, <1>4, <1>5, <1>6, <1>7 DEF CommitterStep

(* ... so every step keeps the types. *)
LEMMA TypeStep == IInv /\ Next => TypeOK'
BY ReaderTypes, WriterTypes, BuildTypes, CommitTypes DEF IInv, Next

-----------------------------------------------------------------------------
(* The gate, the pooled writer and the files that are left. *)

GateParts == GateHeld /\ WriterOnLive /\ SwapsLeft

(* One thread holds the gate, the pooled writer is on the live file, and swaps are left for the files. *)
LEMMA GateStep == IInv /\ Next => GateParts'
<1> SUFFICES ASSUME IInv, Next PROVE GateParts'
  OBVIOUS
<1>t. TypeOK /\ GateHeld /\ WriterOnLive /\ SwapsLeft
  BY DEF IInv
<1>1. ASSUME UNCHANGED <<gate, writer, writerConn, live, generation>>,
             offer'.at = offer.at
      PROVE  GateParts'
  BY <1>t, <1>1 DEF GateParts, GateHeld, WriterOnLive, SwapsLeft
<1>2. ASSUME NEW r \in Readers, ReaderStep(r) PROVE GateParts'
  BY <1>1, <1>2 DEF ReaderStep, AcquireLease, TakePooled, OpenReader, CompareGeneration,
                    ReturnToPool, DropLease, table, registry
<1>3. ASSUME NEW w \in Writers, WriterStep(w) PROVE GateParts'
  <2>1. UNCHANGED <<live, generation, offer>>
    BY <1>3 DEF WriterStep, AcquireGate, Commit, RecordWrite, Rollback, table, registry
  <2>2. w # Committer /\ w # Free /\ Free # Committer
    BY ThreadsAssumption DEF Free, Committer
  <2>3. CASE AcquireGate(w)
    BY <1>t, <2>1, <2>2, <2>3, ThreadsAssumption
       DEF AcquireGate, TypeOK, GateParts, GateHeld, WriterOnLive, SwapsLeft
  <2>4. CASE Commit(w)
    BY <1>t, <2>1, <2>2, <2>4
       DEF Commit, Target, TypeOK, GateParts, GateHeld, WriterOnLive, SwapsLeft
  <2>5. CASE RecordWrite(w)
    BY <1>t, <2>1, <2>2, <2>5, ThreadsAssumption
       DEF RecordWrite, TypeOK, GateParts, GateHeld, WriterOnLive, SwapsLeft
  <2>6. CASE Rollback(w)
    BY <1>t, <2>1, <2>2, <2>6, ThreadsAssumption
       DEF Rollback, Target, TypeOK, GateParts, GateHeld, WriterOnLive, SwapsLeft
  <2>7. QED
    BY <1>3, <2>3, <2>4, <2>5, <2>6 DEF WriterStep
<1>4. CASE BuilderStep
  <2>1. CASE Quiesce
    BY <1>t, <2>1 DEF Quiesce, GateParts, GateHeld, WriterOnLive, SwapsLeft, table, registry
  <2>2. CASE Offer
    BY <1>t, <2>2 DEF Offer, GateParts, GateHeld, WriterOnLive, SwapsLeft, table, registry
  <2>3. CASE Withdraw
    BY <1>1, <1>t, <2>3 DEF Withdraw, TypeOK, OfferStates, table, registry
  <2>4. QED
    BY <1>1, <1>4, <2>1, <2>2, <2>3
       DEF BuilderStep, BuildStep, ReadRevision, OpenSource, VacuumInto, CompareVersion,
           Fingerprint, GiveUp, table, registry
<1>5. CASE CommitterStep
  <2>1. Free # Committer /\ Committer \notin Writers /\ Free \notin Writers
    BY ThreadsAssumption DEF Free, Committer
  <2>2. CASE DrainPools
    BY <1>t, <2>1, <2>2
       DEF DrainPools, TypeOK, OfferStates, GateParts, GateHeld, WriterOnLive, SwapsLeft,
           table, registry
  <2>3. CASE Validate
    BY <1>t, <2>3
       DEF Validate, TypeOK, OfferStates, GateParts, GateHeld, WriterOnLive, SwapsLeft,
           table, registry
  <2>4. ASSUME Finished, UNCHANGED <<writer, writerConn>>, offer.at \in {"Drained", "Valid"}
        PROVE  gate = Committer /\ writerConn = NoFile /\ GateHeld' /\ gate' = Free
    BY <1>t, <2>1, <2>4 DEF Finished, GateHeld, WriterOnLive
  <2>5. CASE FailCommit
    BY <1>t, <2>1, <2>4, <2>5
       DEF FailCommit, GateParts, WriterOnLive, SwapsLeft, table, registry
  <2>6. CASE RefuseSwap
    BY <1>t, <2>1, <2>4, <2>6
       DEF RefuseSwap, GateParts, WriterOnLive, SwapsLeft, table, registry
  <2>7. CASE DeferSwap
    BY <1>t, <2>1, <2>4, <2>7, BoundsAssumption
       DEF DeferSwap, TypeOK, Files, GateParts, WriterOnLive, SwapsLeft, table
  <2>8. CASE SwapFile
    BY <1>t, <2>1, <2>4, <2>8, BoundsAssumption
       DEF SwapFile, TypeOK, Files, GateParts, WriterOnLive, SwapsLeft
  <2>9. QED
    BY <1>5, <2>2, <2>3, <2>5, <2>6, <2>7, <2>8 DEF CommitterStep
<1>6. QED
  BY <1>2, <1>3, <1>4, <1>5 DEF Next

-----------------------------------------------------------------------------
(* Readers and their leases. *)

(* The readers with a lease are finitely many, as the readers are. *)
LEMMA LeasedFinite == IsFiniteSet(Leased) /\ Cardinality(Leased) \in Nat
<1>1. Leased \subseteq Readers
  BY DEF Leased
<1>2. QED
  BY <1>1, ThreadsAssumption, FS_Subset, FS_CardinalityType

(* Only readers change leases, and only their own. *)
LEMMA LeaseStep == IInv /\ Next => LeasesCounted'
<1> SUFFICES ASSUME IInv, Next PROVE LeasesCounted'
  OBVIOUS
<1>t. TypeOK /\ LeasesCounted
  BY DEF IInv
<1>1. ASSUME UNCHANGED <<leases, reader>> PROVE LeasesCounted'
  BY <1>t, <1>1 DEF LeasesCounted, Leased
<1>2. ASSUME NEW r \in Readers, ReaderStep(r) PROVE LeasesCounted'
  <2>1. CASE AcquireLease(r)
    <3>1. r \notin Leased /\ Leased' = Leased \cup {r}
      BY <1>t, <2>1 DEF AcquireLease, Leased, TypeOK, ReaderStates
    <3>2. Cardinality(Leased') = Cardinality(Leased) + 1
      BY <3>1, LeasedFinite, FS_AddElement
    <3>3. QED
      BY <1>t, <2>1, <3>2 DEF AcquireLease, LeasesCounted
  <2>2. CASE DropLease(r)
    <3>1. r \in Leased /\ Leased' = Leased \ {r}
      BY <1>t, <2>2 DEF DropLease, Leased, TypeOK, IdleReader
    <3>2. Cardinality(Leased') = Cardinality(Leased) - 1
      BY <3>1, LeasedFinite, FS_RemoveElement
    <3>3. QED
      BY <1>t, <2>2, <3>2 DEF DropLease, LeasesCounted
  <2>3. CASE TakePooled(r) \/ OpenReader(r) \/ CompareGeneration(r) \/ ReturnToPool(r)
    <3>1. leases' = leases
      BY <2>3 DEF TakePooled, OpenReader, CompareGeneration, ReturnToPool, registry
    <3>2. reader[r].at # "Idle" /\ reader'[r].at # "Idle"
      BY <1>t, <2>3 DEF TakePooled, OpenReader, CompareGeneration, ReturnToPool, TypeOK,
                        ReaderStates
    <3>3. \A q \in Readers : q # r => reader'[q] = reader[q]
      BY <1>t, <2>3 DEF TakePooled, OpenReader, CompareGeneration, ReturnToPool, TypeOK
    <3>4. Leased' = Leased
      BY <3>2, <3>3 DEF Leased
    <3>5. QED
      BY <1>t, <3>1, <3>4 DEF LeasesCounted
  <2>4. QED
    BY <1>2, <2>1, <2>2, <2>3 DEF ReaderStep
<1>3. ASSUME NEW w \in Writers, WriterStep(w) PROVE LeasesCounted'
  BY <1>1, <1>3 DEF WriterStep, AcquireGate, Commit, RecordWrite, Rollback, registry
<1>4. CASE BuilderStep
  BY <1>1, <1>4 DEF BuilderStep, BuildStep, Quiesce, ReadRevision, OpenSource, VacuumInto,
                    CompareVersion, Fingerprint, GiveUp, Offer, Withdraw, registry
<1>5. CASE CommitterStep
  BY <1>1, <1>5 DEF CommitterStep, DrainPools, Validate, FailCommit, RefuseSwap, DeferSwap,
                    SwapFile, registry
<1>6. QED
  BY <1>2, <1>3, <1>4, <1>5 DEF Next

(* A swap finds every reader at rest. *)
LEMMA NobodyReads ==
  ASSUME IInv, leases <= 0
  PROVE  \A r \in Readers : reader[r].at = "Idle"
<1>1. Cardinality(Leased) = 0
  BY LeasedFinite DEF IInv, LeasesCounted
<1>2. Leased = {}
  BY <1>1, LeasedFinite, FS_EmptySet
<1>3. QED
  BY <1>2 DEF Leased

ReaderParts == Connected /\ OwnReadersReadTheStore

(* A reader that works is connected to the file of its root. *)
LEMMA ReadersStep == IInv /\ Next => ReaderParts'
<1> SUFFICES ASSUME IInv, Next PROVE ReaderParts'
  OBVIOUS
<1>t. TypeOK /\ Connected /\ OwnReadersReadTheStore
  BY DEF IInv
<1>1. ASSUME UNCHANGED <<live, reader>> PROVE ReaderParts'
  BY <1>t, <1>1 DEF ReaderParts, Connected, OwnReadersReadTheStore
<1>2. ASSUME NEW r \in Readers, ReaderStep(r) PROVE ReaderParts'
  <2>1. live' = live /\ \A q \in Readers : q # r => reader'[q] = reader[q]
    BY <1>t, <1>2 DEF ReaderStep, AcquireLease, TakePooled, OpenReader, CompareGeneration,
                      ReturnToPool, DropLease, TypeOK, table
  <2>2. ASSUME /\ reader'[r].at \in {"Using", "Returning"} => reader'[r].conn \in Files
               /\ reader'[r].at \in {"Using", "Returning"} /\ reader'[r].own
                     => reader'[r].conn = live
        PROVE  ReaderParts'
    BY <1>t, <2>1, <2>2 DEF ReaderParts, Connected, OwnReadersReadTheStore, Files
  <2>3. CASE AcquireLease(r)
    BY <1>t, <2>2, <2>3 DEF AcquireLease, TypeOK, ReaderStates
  <2>4. CASE TakePooled(r)
    <3>1. pool[Len(pool)] \in Files
      BY <1>t, <2>4 DEF TypeOK, TakePooled
    <3>2. reader'[r].conn = pool[Len(pool)] /\ ~ reader'[r].own
      BY <1>t, <2>4 DEF TakePooled, TypeOK, ReaderStates
    <3>3. QED
      BY <2>2, <3>1, <3>2
  <2>5. CASE OpenReader(r)
    <3>1. reader'[r].conn = live
      BY <1>t, <2>5 DEF OpenReader, TypeOK, ReaderStates
    <3>2. QED
      BY <1>t, <2>2, <3>1 DEF TypeOK
  <2>6. CASE CompareGeneration(r)
    <3>1. reader[r].at = "Using" /\ reader'[r].conn = reader[r].conn
            /\ reader'[r].own = reader[r].own
      BY <1>t, <2>6 DEF CompareGeneration, TypeOK, ReaderStates
    <3>2. QED
      BY <1>t, <2>2, <3>1 DEF Connected, OwnReadersReadTheStore
  <2>7. CASE ReturnToPool(r)
    BY <1>t, <2>2, <2>7 DEF ReturnToPool, TypeOK, ReaderStates
  <2>8. CASE DropLease(r)
    BY <1>t, <2>2, <2>8 DEF DropLease, TypeOK, IdleReader
  <2>9. QED
    BY <1>2, <2>3, <2>4, <2>5, <2>6, <2>7, <2>8 DEF ReaderStep
<1>3. ASSUME NEW w \in Writers, WriterStep(w) PROVE ReaderParts'
  BY <1>1, <1>3 DEF WriterStep, AcquireGate, Commit, RecordWrite, Rollback, table
<1>4. CASE BuilderStep
  BY <1>1, <1>4 DEF BuilderStep, BuildStep, Quiesce, ReadRevision, OpenSource, VacuumInto,
                    CompareVersion, Fingerprint, GiveUp, Offer, Withdraw, table
<1>5. CASE CommitterStep
  <2>1. CASE SwapFile
    <3>1. leases <= 0 /\ reader' = reader
      BY <1>t, <2>1 DEF SwapFile, Refused, TypeOK
    <3>2. \A r \in Readers : reader'[r].at = "Idle"
      BY <3>1, NobodyReads
    <3>3. QED
      BY <3>2 DEF ReaderParts, Connected, OwnReadersReadTheStore
  <2>2. QED
    BY <1>1, <1>5, <2>1 DEF CommitterStep, DrainPools, Validate, FailCommit, RefuseSwap,
                            DeferSwap, table
<1>6. QED
  BY <1>2, <1>3, <1>4, <1>5 DEF Next

-----------------------------------------------------------------------------
(* Revisions, copies and the writes. *)

CopyParts == RevisionsKnown /\ CopiesComplete /\ NoWriteLost

(* The copy that replaces the live store has every committed row. *)
LEMMA CopyStep == IInv /\ Next => CopyParts'
<1> SUFFICES ASSUME IInv, Next PROVE CopyParts'
  OBVIOUS
<1> USE DEF CopyParts, RevisionsKnown, CopiesComplete, NoWriteLost, CopyOf, Recorded
<1>t. TypeOK /\ RevisionsKnown /\ CopiesComplete /\ NoWriteLost
  BY DEF IInv
<1>n. /\ revision \in Nat /\ committed \in Nat /\ rows[live] \in Nat
      /\ build.cand \in Candidates /\ offer.cand \in Candidates
      /\ NoCandidate \in Candidates /\ NoCandidate.rev = 0
  BY <1>t DEF TypeOK, BuildStates, OfferStates, NoCandidate, Candidates
<1>1. ASSUME UNCHANGED <<revision, rows, live, committed, build, offer, writer>>
      PROVE  CopyParts'
  BY <1>t, <1>1
<1>2. ASSUME NEW r \in Readers, ReaderStep(r) PROVE CopyParts'
  BY <1>1, <1>2 DEF ReaderStep, AcquireLease, TakePooled, OpenReader, CompareGeneration,
                    ReturnToPool, DropLease, table, registry
<1>3. ASSUME NEW w \in Writers, WriterStep(w) PROVE CopyParts'
  <2>1. CASE AcquireGate(w) \/ Rollback(w)
    <3>1. /\ UNCHANGED <<revision, rows, live, committed, build, offer>>
          /\ Recorded' => Recorded
      BY <1>t, <2>1 DEF AcquireGate, Rollback, TypeOK, table, registry
    <3>2. QED
      BY <1>t, <3>1
  <2>2. CASE Commit(w)
    <3>1. Target = live
      BY <2>2 DEF IInv, WriterOnLive, Target
    <3>2. rows'[live'] = rows[live] + 1 /\ committed' = committed + 1
      BY <1>t, <2>2, <3>1 DEF Commit, TypeOK
    <3>3. ~ Recorded' /\ UNCHANGED <<revision, build, offer>>
      BY <1>t, <2>2 DEF Commit, TypeOK, registry
    <3>4. QED
      BY <1>t, <3>2, <3>3
  <2>3. CASE RecordWrite(w)
    <3>1. revision' = revision + 1 /\ UNCHANGED <<rows, live, committed, build, offer>>
      BY <2>3 DEF RecordWrite, table
    <3>2. build.cand.rev < revision' /\ offer.cand.rev < revision'
      BY <1>t, <1>n, <3>1 DEF Candidates
    <3>3. QED
      BY <1>t, <1>n, <3>1, <3>2 DEF Candidates
  <2>4. QED
    BY <1>3, <2>1, <2>2, <2>3 DEF WriterStep
<1>4. CASE BuilderStep
  <2>1. UNCHANGED <<revision, rows, live, committed, writer>>
    BY <1>4 DEF BuilderStep, BuildStep, Quiesce, ReadRevision, OpenSource, VacuumInto,
                CompareVersion, Fingerprint, GiveUp, Offer, Withdraw, table, registry
  <2>2. ASSUME offer' = offer, build'.cand.rev <= revision,
               build'.at \in {"Copied", "Compared", "Printed", "Offered"}
                   => CopyOf(build'.cand)
        PROVE  CopyParts'
    BY <1>t, <2>1, <2>2
  <2>3. CASE Quiesce
    BY <1>n, <2>2, <2>3 DEF Quiesce
  <2>4. CASE ReadRevision
    <3>1. build'.cand.rev = revision /\ build'.at = "Revision" /\ offer' = offer
      BY <1>n, <2>4 DEF ReadRevision, BuildStep, Candidates
    <3>2. QED
      BY <1>n, <2>2, <3>1
  <2>5. CASE OpenSource
    <3>1. build'.cand.rev = build.cand.rev /\ build'.at = "Opened" /\ offer' = offer
      BY <1>n, <2>5 DEF OpenSource, BuildStep, Candidates
    <3>2. QED
      BY <1>t, <2>2, <3>1
  <2>6. CASE VacuumInto
    <3>1. build'.cand.rev = build.cand.rev /\ build'.cand.copy = rows[live] /\ offer' = offer
      BY <1>n, <2>6 DEF VacuumInto, BuildStep, Candidates
    <3>2. QED
      BY <1>t, <2>2, <3>1
  <2>7. CASE CompareVersion
    BY <1>t, <2>2, <2>7 DEF CompareVersion, BuildStep
  <2>8. CASE Fingerprint
    <3>1. build'.cand.rev = build.cand.rev /\ build'.cand.copy = build.cand.copy
            /\ build.at = "Compared" /\ offer' = offer
      BY <1>n, <2>8 DEF Fingerprint, BuildStep, Candidates
    <3>2. QED
      BY <1>t, <2>2, <3>1
  <2>9. CASE GiveUp
    BY <1>n, <2>2, <2>9 DEF GiveUp, BuildStep
  <2>10. CASE Offer
    <3>1. build'.cand = build.cand /\ build.at = "Printed"
            /\ offer' \in {offer, [at |-> "Given", cand |-> build.cand, present |-> TRUE]}
      BY <1>t, <2>10 DEF Offer, TypeOK, BuildStates
    <3>2. QED
      BY <1>t, <2>1, <3>1
  <2>11. CASE Withdraw
    <3>1. build'.cand = build.cand /\ build'.at = "Idle" /\ offer'.cand = offer.cand
            /\ offer'.at = offer.at
      BY <1>t, <2>11 DEF Withdraw, TypeOK, BuildStates, OfferStates
    <3>2. QED
      BY <1>t, <2>1, <3>1
  <2>12. QED
    BY <1>4, <2>3, <2>4, <2>5, <2>6, <2>7, <2>8, <2>9, <2>10, <2>11 DEF BuilderStep
<1>5. CASE CommitterStep
  <2>1. CASE DrainPools \/ Validate
    <3>1. /\ UNCHANGED <<revision, rows, live, committed, writer, build>>
          /\ offer'.cand = offer.cand /\ offer.at # "None"
      BY <1>t, <2>1 DEF DrainPools, Validate, TypeOK, OfferStates, table, registry
    <3>2. QED
      BY <1>t, <3>1
  <2>2. ASSUME Finished
        PROVE  offer' = [at |-> "None", cand |-> NoCandidate, present |-> FALSE]
                 /\ build'.cand = build.cand
                 /\ build'.at \in {build.at, "Idle"}
    BY <1>t, <2>2 DEF Finished, TypeOK, BuildStates
  <2>3. CASE FailCommit \/ RefuseSwap
    <3>1. Finished /\ UNCHANGED <<revision, rows, live, committed, writer>>
      BY <2>3 DEF FailCommit, RefuseSwap, table, registry
    <3>2. QED
      BY <1>t, <1>n, <2>2, <3>1
  <2>4. CASE DeferSwap
    <3>1. Finished /\ revision' = revision + 1 /\ UNCHANGED <<rows, live, committed, writer>>
      BY <2>4 DEF DeferSwap, table
    <3>2. build.cand.rev < revision'
      BY <1>t, <1>n, <3>1 DEF Candidates
    <3>3. QED
      BY <1>t, <1>n, <2>2, <3>1, <3>2 DEF Candidates
  <2>5. CASE SwapFile
    <3>1. Finished /\ revision' = revision + 1 /\ committed' = committed
      BY <2>5 DEF SwapFile
    <3>2. build.cand.rev < revision'
      BY <1>t, <1>n, <3>1 DEF Candidates
    <3>3. RevisionsKnown' /\ CopiesComplete'
      BY <1>t, <1>n, <2>2, <3>1, <3>2 DEF Candidates
    <3>4. gate = Committer /\ offer.at # "None"
      BY <2>5 DEF SwapFile, IInv, GateHeld
    <3>5. Recorded
      BY <3>4, ThreadsAssumption DEF IInv, GateHeld
    <3>6. offer.cand.copy = rows[live]
      BY <1>t, <2>5, <3>4, <3>5 DEF SwapFile, Refused
    <3>7. live + 1 \in Files
      BY <1>t, <3>4, BoundsAssumption DEF IInv, SwapsLeft, TypeOK, Files
    <3>8. rows'[live'] = offer.cand.copy
      BY <1>t, <2>5, <3>7 DEF SwapFile, TypeOK
    <3>9. QED
      BY <1>t, <3>1, <3>3, <3>6, <3>8
  <2>6. QED
    BY <1>5, <2>1, <2>3, <2>4, <2>5 DEF CommitterStep
<1>6. QED
  BY <1>2, <1>3, <1>4, <1>5 DEF Next

-----------------------------------------------------------------------------
(* A step that changes nothing keeps the invariant. *)
LEMMA Stutters == IInv /\ UNCHANGED vars => IInv'
BY DEF IInv, vars, table, registry, TypeOK, GateHeld, WriterOnLive, SwapsLeft, LeasesCounted,
       Leased, Connected, RevisionsKnown, CopiesComplete, CopyOf, Recorded, NoWriteLost,
       OwnReadersReadTheStore

(* The inductive invariant holds in every behaviour of the store. *)
LEMMA Invariance == Spec => []IInv
<1>1. IInv /\ Next => IInv'
  BY TypeStep, GateStep, LeaseStep, ReadersStep, CopyStep
     DEF IInv, GateParts, ReaderParts, CopyParts
<1>2. IInv /\ [Next]_vars => IInv'
  BY <1>1, Stutters
<1>3. QED
  BY Initially, <1>2, PTL DEF Spec

(* Every variable of the store keeps its type: in particular there is always a  *)
(* file to swap in, and what is in the pool is a file.                          *)
THEOREM TypeCorrect == Spec => []TypeOK
<1>1. IInv => TypeOK
  BY DEF IInv
<1>2. QED
  BY Invariance, <1>1, PTL

(* The file at the store's path has every committed write, whatever compaction, *)
(* writers and readers do at the same time: a candidate that is swapped in was  *)
(* copied under the revision that still stands, and the gate shows that every   *)
(* committed write has raised it (SwapFile, RecordWrite).                       *)
THEOREM NothingLost == Spec => []NoWriteLost
<1>1. IInv => NoWriteLost
  BY DEF IInv
<1>2. QED
  BY Invariance, <1>1, PTL

(* A reader that opened its connection reads the file at the store's path: the  *)
(* leases that SwapFile counts are those of the readers that have one.          *)
THEOREM OwnReadersCurrent == Spec => []OwnReadersReadTheStore
<1>1. IInv => OwnReadersReadTheStore
  BY DEF IInv
<1>2. QED
  BY Invariance, <1>1, PTL

-----------------------------------------------------------------------------
(* The publication into the store.                                            *)

(* An envelope, or what stands for none. *)
Envs == [art : 0..Slots, kind : Pub!Kinds, priority : Pub!Priorities,
         gen : 0..MaxGeneration, ver : 0..MaxVersion, detached : BOOLEAN]

CallerStates == [at : {"Idle", "Asked", "Prepared", "Staged", "Waiting", "Leaving", "Detach"},
                 env : Envs]

(* Where a caller is tells what its envelope has. *)
Sound(r) ==
  /\ r.at \in {"Idle", "Asked"} <=> r.env.art = 0
  /\ r.at = "Detach" <=> r.env.detached
  /\ r.at # "Idle" => r.env.gen # 0
  /\ r.env.detached => r.env.kind = "Substring"

(* TypeOK, with what each place knows of the envelope. *)
PubTyped ==
  /\ disk \in 0..MaxVersion /\ catalog \in 1..MaxGeneration
  /\ content \in [gen : 0..MaxGeneration, ver : 0..MaxVersion,
                  sub : {"none", "pending", "ready"},
                  subGen : 0..MaxGeneration, subVer : 0..MaxVersion]
  /\ layer \in [core : 0..MaxGeneration, sub : 0..MaxGeneration]
  /\ staged \subseteq Pub!Artifacts /\ leftover \subseteq Pub!Artifacts /\ recovered \in BOOLEAN
  /\ caller \in [Callers -> CallerStates]
  /\ \A c \in Callers : Sound(caller[c])
  /\ cancelled \subseteq Pub!Artifacts
  /\ reply \in [Pub!Artifacts -> {"none", "applied", "failed"}]
  /\ channel \in Seq(Pub!Envelopes) /\ queue \in Seq(Pub!Envelopes)
  /\ Len(channel) <= ChannelCapacity /\ Len(queue) <= QueueCapacity
  /\ burst \in 0..BurstLimit
  /\ actor \in [at : {"Drain", "Yielding", "Started"}, env : Envs]
  /\ actor.at = "Drain" <=> actor.env.art = 0
  /\ prepared \in [0..MaxGeneration -> SUBSET (0..MaxVersion)]

-----------------------------------------------------------------------------
(* What is on its way is there once. *)
Distinct(s) == \A i, j \in DOMAIN s : s[i].art = s[j].art => i = j

Apart ==
  /\ Distinct(channel) /\ Distinct(queue)
  /\ \A i \in DOMAIN channel, j \in DOMAIN queue : channel[i].art # queue[j].art
  /\ actor.at # "Drain" =>
       /\ \A i \in DOMAIN channel : channel[i].art # actor.env.art
       /\ \A j \in DOMAIN queue : queue[j].art # actor.env.art

(* What the proofs use of sequences. *)
LEMMA SeqIs ==
  ASSUME NEW S, NEW s \in Seq(S)
  PROVE  DOMAIN s = 1..Len(s) /\ Len(s) \in Nat /\ \A i \in 1..Len(s) : s[i] \in S
OBVIOUS

LEMMA AppendIs ==
  ASSUME NEW S, NEW s \in Seq(S), NEW e \in S
  PROVE  /\ Append(s, e) \in Seq(S) /\ Len(Append(s, e)) = Len(s) + 1
         /\ \A i \in 1..Len(s) + 1 : Append(s, e)[i] = IF i = Len(s) + 1 THEN e ELSE s[i]
OBVIOUS

LEMMA TailIs ==
  ASSUME NEW S, NEW s \in Seq(S), s # <<>>
  PROVE  /\ Tail(s) \in Seq(S) /\ Len(Tail(s)) = Len(s) - 1 /\ Len(s) \in Nat \ {0}
         /\ Head(s) = s[1] /\ \A i \in 1..Len(s) - 1 : Tail(s)[i] = s[i + 1]
OBVIOUS

LEMMA ConcatIs ==
  ASSUME NEW S, NEW u \in Seq(S), NEW v \in Seq(S)
  PROVE  /\ u \o v \in Seq(S) /\ Len(u \o v) = Len(u) + Len(v)
         /\ \A j \in 1..Len(u) + Len(v) :
              (u \o v)[j] = IF j <= Len(u) THEN u[j] ELSE v[j - Len(u)]
OBVIOUS

LEMMA LanesAre ==
  ASSUME PubTyped
  PROVE  /\ channel \in Seq(Pub!Envelopes) /\ queue \in Seq(Pub!Envelopes)
         /\ DOMAIN channel = 1..Len(channel) /\ Len(channel) \in Nat
         /\ DOMAIN queue = 1..Len(queue) /\ Len(queue) \in Nat
         /\ \A i \in DOMAIN channel : channel[i] \in Pub!Envelopes
         /\ \A i \in DOMAIN queue : queue[i] \in Pub!Envelopes
BY SeqIs DEF PubTyped

LEMMA UnderwayIs ==
  ASSUME PubTyped, NEW e
  PROVE  e \in Pub!Underway <=>
           \/ \E i \in DOMAIN channel : e = channel[i]
           \/ \E j \in DOMAIN queue : e = queue[j]
           \/ actor.at # "Drain" /\ e = actor.env
BY DEF Pub!Underway, Pub!Elements

LEMMA EnvelopeTyped ==
  /\ Pub!NoEnvelope \in Envs /\ Pub!NoEnvelope.art = 0 /\ ~Pub!NoEnvelope.detached
  /\ Pub!Away \in CallerStates /\ Sound(Pub!Away) /\ Pub!Away.env.art = 0 /\ Pub!Away.at = "Idle"
  /\ \A e \in Envs : e.art # 0 => e \in Pub!Envelopes
  /\ \A e \in Pub!Envelopes : e \in Envs /\ e.art # 0
BY PublicationAssumption DEF PublicationAssumption, Pub!NoEnvelope, Envs, Pub!Kinds,
   Pub!Priorities, Pub!Away, CallerStates, Sound, Pub!Envelopes, Pub!Artifacts

LEMMA UnderwayTyped ==
  ASSUME PubTyped, NEW e \in Pub!Underway
  PROVE  e \in Pub!Envelopes
<1>1. actor.at # "Drain" => actor.env \in Pub!Envelopes
  BY EnvelopeTyped DEF PubTyped
<1>2. \A i \in DOMAIN channel : channel[i] \in Pub!Envelopes
  BY DEF PubTyped
<1>3. \A i \in DOMAIN queue : queue[i] \in Pub!Envelopes
  BY DEF PubTyped
<1>. QED  BY <1>1, <1>2, <1>3, UnderwayIs

LEMMA UnderwayOnce ==
  ASSUME PubTyped, Apart, NEW d \in Pub!Underway, NEW e \in Pub!Underway, d.art = e.art
  PROVE  d = e
BY UnderwayIs DEF Apart, Distinct

(* The front of the channel goes to the end of the queue. *)
LEMMA IngestKeeps ==
  ASSUME PubTyped, PubTyped', Apart, Pub!Ingest
  PROVE  Apart' /\ Pub!Underway' = Pub!Underway
<1>0. /\ channel \in Seq(Pub!Envelopes) /\ queue \in Seq(Pub!Envelopes) /\ channel # <<>>
      /\ channel' = Tail(channel) /\ queue' = Append(queue, Head(channel))
      /\ actor' = actor /\ actor.at = "Drain"
  BY DEF PubTyped, Pub!Ingest
<1>1. /\ DOMAIN channel' = 1..Len(channel) - 1 /\ \A i \in DOMAIN channel' : channel'[i] = channel[i + 1]
      /\ DOMAIN queue' = 1..Len(queue) + 1
      /\ \A j \in DOMAIN queue' :
           queue'[j] = IF j = Len(queue) + 1 THEN channel[1] ELSE queue[j]
      /\ DOMAIN channel = 1..Len(channel) /\ DOMAIN queue = 1..Len(queue)
      /\ Len(channel) \in Nat \ {0} /\ Len(queue) \in Nat
  <2>1. /\ channel' \in Seq(Pub!Envelopes) /\ Len(channel') = Len(channel) - 1
        /\ Len(channel) \in Nat \ {0} /\ Head(channel) = channel[1]
        /\ \A i \in 1..Len(channel) - 1 : channel'[i] = channel[i + 1]
    BY <1>0, TailIs
  <2>2. Head(channel) \in Pub!Envelopes
    BY <1>0, <2>1, LanesAre
  <2>3. /\ queue' \in Seq(Pub!Envelopes) /\ Len(queue') = Len(queue) + 1
        /\ \A j \in 1..Len(queue) + 1 :
             queue'[j] = IF j = Len(queue) + 1 THEN channel[1] ELSE queue[j]
    BY <1>0, <2>1, <2>2, AppendIs
  <2>4. DOMAIN channel' = 1..Len(channel') /\ DOMAIN queue' = 1..Len(queue')
    BY <2>1, <2>3, SeqIs
  <2>. QED  BY <2>1, <2>3, <2>4, LanesAre
<1>2. Apart'
  BY <1>0, <1>1 DEF Apart, Distinct
<1>3. \A e : e \in Pub!Underway' <=> e \in Pub!Underway
  <2>0. ASSUME NEW e
        PROVE  e \in Pub!Underway' <=>
           \/ \E i \in DOMAIN channel' : e = channel'[i]
           \/ \E j \in DOMAIN queue' : e = queue'[j]
    BY <1>0 DEF Pub!Underway, Pub!Elements
  <2>1. ASSUME NEW e
        PROVE  e \in Pub!Underway <=>
           \/ \E i \in DOMAIN channel : e = channel[i]
           \/ \E j \in DOMAIN queue : e = queue[j]
    BY <1>0 DEF Pub!Underway, Pub!Elements
  <2>2. ASSUME NEW e, e \in Pub!Underway' PROVE e \in Pub!Underway
    BY <1>1, <2>0, <2>1, <2>2
  <2>3. ASSUME NEW e, e \in Pub!Underway PROVE e \in Pub!Underway'
    <3>1. CASE \E j \in DOMAIN queue : e = queue[j]
      BY <1>1, <2>0, <3>1
    <3>2. CASE \E i \in DOMAIN channel : e = channel[i]
      <4>1. PICK i \in DOMAIN channel : e = channel[i]
        BY <3>2
      <4>2. CASE i = 1
        <5>1. Len(queue) + 1 \in DOMAIN queue' /\ e = queue'[Len(queue) + 1]
          BY <1>1, <4>1, <4>2
        <5>. QED  BY <2>0, <5>1
      <4>3. CASE i # 1
        <5>1. i - 1 \in DOMAIN channel' /\ e = channel'[i - 1]
          BY <1>1, <4>1, <4>3
        <5>. QED  BY <2>0, <5>1
      <4>. QED  BY <4>2, <4>3
    <3>. QED  BY <2>1, <2>3, <3>1, <3>2
  <2>. QED  BY <2>2, <2>3
<1>. QED  BY <1>2, <1>3

(* A sequence without the element at i. *)
LEMMA Without ==
  ASSUME NEW S, NEW s \in Seq(S), NEW i \in 1..Len(s),
         NEW t, t = SubSeq(s, 1, i - 1) \o SubSeq(s, i + 1, Len(s))
  PROVE  /\ t \in Seq(S) /\ Len(t) = Len(s) - 1
         /\ \A j \in 1..Len(s) - 1 : t[j] = IF j < i THEN s[j] ELSE s[j + 1]
<1>1. /\ SubSeq(s, 1, i - 1) \in Seq(S) /\ Len(SubSeq(s, 1, i - 1)) = i - 1
      /\ \A j \in 1..i - 1 : SubSeq(s, 1, i - 1)[j] = s[j]
  OBVIOUS
<1>2. /\ SubSeq(s, i + 1, Len(s)) \in Seq(S) /\ Len(SubSeq(s, i + 1, Len(s))) = Len(s) - i
      /\ \A j \in 1..Len(s) - i : SubSeq(s, i + 1, Len(s))[j] = s[j + i]
  OBVIOUS
<1> DEFINE u == SubSeq(s, 1, i - 1)
           v == SubSeq(s, i + 1, Len(s))
<1>3. Len(s) \in Nat /\ t = u \o v
  OBVIOUS
<1> HIDE DEF u, v
<1>4. u \in Seq(S) /\ v \in Seq(S) /\ Len(u) = i - 1 /\ Len(v) = Len(s) - i
  BY <1>1, <1>2 DEF u, v
<1>5. /\ u \o v \in Seq(S) /\ Len(u \o v) = Len(u) + Len(v)
      /\ \A j \in 1..Len(u) + Len(v) :
           (u \o v)[j] = IF j <= Len(u) THEN u[j] ELSE v[j - Len(u)]
  BY <1>4, ConcatIs
<1>6. \A j \in 1..Len(s) - 1 : t[j] = IF j < i THEN s[j] ELSE s[j + 1]
  <2> SUFFICES ASSUME NEW j \in 1..Len(s) - 1
               PROVE  t[j] = IF j < i THEN s[j] ELSE s[j + 1]
    OBVIOUS
  <2>0. j \in Nat /\ i \in Nat /\ (j < i \/ j >= i) /\ (j >= i => ~ (j < i) /\ ~ (j <= i - 1))
    BY <1>3
  <2>1. t[j] = IF j <= i - 1 THEN u[j] ELSE v[j - (i - 1)]
    <3>1. Len(u) + Len(v) = Len(s) - 1
      BY <1>3, <1>4
    <3>. QED  BY <1>3, <1>4, <1>5, <3>1
  <2>2. CASE j < i
    <3>1. j \in 1..i - 1 /\ j <= i - 1
      BY <2>0, <2>2
    <3>2. u[j] = s[j]
      BY <1>1, <3>1 DEF u
    <3>3. t[j] = u[j]
      BY <2>0, <2>1, <3>1
    <3>. QED  BY <2>2, <3>2, <3>3
  <2>3. CASE j >= i
    <3>1. j - (i - 1) \in 1..Len(s) - i /\ (j - (i - 1)) + i = j + 1
      BY <1>3, <2>3
    <3>2. v[j - (i - 1)] = s[j + 1]
      BY <1>2, <3>1 DEF v
    <3>3. ~ (j < i) /\ t[j] = v[j - (i - 1)]
      BY <2>0, <2>1, <2>3
    <3>. QED  BY <3>2, <3>3
  <2>. QED  BY <2>0, <2>2, <2>3
<1>7. Len(u) + Len(v) = Len(s) - 1
  BY <1>3, <1>4
<1>. QED  BY <1>3, <1>5, <1>6, <1>7

LEMMA TakeKeeps ==
  ASSUME PubTyped, PubTyped', Apart, NEW i \in DOMAIN queue, NEW b, Pub!Take(i, b)
  PROVE  Apart' /\ Pub!Underway' = Pub!Underway
<1>0. /\ queue \in Seq(Pub!Envelopes) /\ channel' = channel /\ actor.at = "Drain"
      /\ queue' = SubSeq(queue, 1, i - 1) \o SubSeq(queue, i + 1, Len(queue))
      /\ actor' = [at |-> "Yielding", env |-> queue[i]] /\ i \in 1..Len(queue)
  BY LanesAre DEF Pub!Take
<1>1. /\ DOMAIN queue' = 1..Len(queue) - 1 /\ Len(queue) \in Nat
      /\ \A j \in DOMAIN queue' : queue'[j] = IF j < i THEN queue[j] ELSE queue[j + 1]
      /\ DOMAIN queue = 1..Len(queue)
  <2>1. /\ queue' \in Seq(Pub!Envelopes) /\ Len(queue') = Len(queue) - 1
        /\ \A j \in 1..Len(queue) - 1 : queue'[j] = IF j < i THEN queue[j] ELSE queue[j + 1]
    BY <1>0, Without
  <2>2. DOMAIN queue' = 1..Len(queue')
    BY <2>1, SeqIs
  <2>. QED  BY <2>1, <2>2, LanesAre
<1>2. Apart'
  <2> DEFINE Was(j) == IF j < i THEN j ELSE j + 1
  <2>0. \A j \in DOMAIN queue' : Was(j) \in DOMAIN queue \ {i} /\ queue'[j] = queue[Was(j)]
    <3>1. Len(queue) \in Nat /\ i \in 1..Len(queue)
      BY LanesAre
    <3>2. \A j \in 1..Len(queue) - 1 : Was(j) \in 1..Len(queue) /\ Was(j) # i
      BY <3>1
    <3>3. \A j \in 1..Len(queue) - 1 : queue'[j] = queue[Was(j)]
      BY <1>1
    <3>. QED  BY <1>1, <3>2, <3>3
  <2> HIDE DEF Was
  <2>1. Distinct(queue')
    <3> SUFFICES ASSUME NEW j \in DOMAIN queue', NEW k \in DOMAIN queue',
                        queue'[j].art = queue'[k].art
                 PROVE  j = k
      BY DEF Distinct
    <3>1. Was(j) = Was(k)
      BY <2>0 DEF Apart, Distinct
    <3>2. Len(queue) \in Nat /\ i \in Nat /\ j \in Nat /\ k \in Nat
      BY <1>1, LanesAre
    <3>. QED  BY <3>1, <3>2 DEF Was
  <2>2. ASSUME NEW k \in DOMAIN channel', NEW j \in DOMAIN queue'
        PROVE  channel'[k].art # queue'[j].art
    <3>1. k \in DOMAIN channel /\ channel'[k] = channel[k]
      BY <1>0
    <3>2. Was(j) \in DOMAIN queue /\ queue'[j] = queue[Was(j)]
      BY <2>0
    <3>. QED  BY <3>1, <3>2 DEF Apart
  <2>3. actor'.env = queue[i]
    BY <1>0
  <2>4. \A k \in DOMAIN channel' : channel'[k].art # actor'.env.art
    BY <1>0, <2>3 DEF Apart
  <2>5. \A j \in DOMAIN queue' : queue'[j].art # actor'.env.art
    BY <2>0, <2>3 DEF Apart, Distinct
  <2>6. Distinct(channel')
    BY <1>0 DEF Apart
  <2>. QED  BY <2>1, <2>2, <2>4, <2>5, <2>6 DEF Apart
<1>3. \A e : e \in Pub!Underway' <=> e \in Pub!Underway
  <2>0. ASSUME NEW e
        PROVE  e \in Pub!Underway' <=>
           \/ \E k \in DOMAIN channel : e = channel[k]
           \/ \E j \in DOMAIN queue' : e = queue'[j]
           \/ e = queue[i]
    BY <1>0 DEF Pub!Underway, Pub!Elements
  <2>1. ASSUME NEW e
        PROVE  e \in Pub!Underway <=>
           \/ \E k \in DOMAIN channel : e = channel[k]
           \/ \E j \in DOMAIN queue : e = queue[j]
    BY <1>0 DEF Pub!Underway, Pub!Elements
  <2>2. ASSUME NEW e, e \in Pub!Underway' PROVE e \in Pub!Underway
    BY <1>1, <2>0, <2>1, <2>2
  <2>3. ASSUME NEW e, e \in Pub!Underway PROVE e \in Pub!Underway'
    <3>1. CASE \E k \in DOMAIN channel : e = channel[k]
      BY <2>0, <3>1
    <3>2. CASE \E j \in DOMAIN queue : e = queue[j]
      <4>1. PICK j \in DOMAIN queue : e = queue[j]
        BY <3>2
      <4>2. CASE j = i
        BY <2>0, <4>1, <4>2
      <4>3. CASE j < i
        <5>1. j \in DOMAIN queue' /\ e = queue'[j]
          BY <1>1, <4>1, <4>3
        <5>. QED  BY <2>0, <5>1
      <4>4. CASE j > i
        <5>1. j - 1 \in DOMAIN queue' /\ e = queue'[j - 1]
          BY <1>1, <4>1, <4>4
        <5>. QED  BY <2>0, <5>1
      <4>. QED  BY <1>1, <4>2, <4>3, <4>4
    <3>. QED  BY <2>1, <2>3, <3>1, <3>2
  <2>. QED  BY <2>2, <2>3
<1>. QED  BY <1>2, <1>3

(* A caller sends what is not on its way. *)
LEMMA SentKeeps ==
  ASSUME PubTyped, PubTyped', Apart, NEW e \in Pub!Envelopes,
         \A d \in Pub!Underway : d.art # e.art,
         channel' = Append(channel, e), queue' = queue, actor' = actor
  PROVE  Apart' /\ Pub!Underway' = Pub!Underway \cup {e}
<1>1. /\ DOMAIN channel' = 1..Len(channel) + 1 /\ Len(channel) \in Nat
      /\ \A j \in DOMAIN channel' : channel'[j] = IF j = Len(channel) + 1 THEN e ELSE channel[j]
      /\ DOMAIN channel = 1..Len(channel)
  <2>1. /\ channel' \in Seq(Pub!Envelopes) /\ Len(channel') = Len(channel) + 1
        /\ \A j \in 1..Len(channel) + 1 :
             channel'[j] = IF j = Len(channel) + 1 THEN e ELSE channel[j]
    BY LanesAre, AppendIs
  <2>2. DOMAIN channel' = 1..Len(channel')
    BY <2>1, SeqIs
  <2>. QED  BY <2>1, <2>2, LanesAre
<1>2. Apart'
  BY <1>1, UnderwayIs DEF Apart, Distinct
<1>3. \A d : d \in Pub!Underway' <=> d \in Pub!Underway \cup {e}
  <2>0. ASSUME NEW d
        PROVE  d \in Pub!Underway' <=>
           \/ \E k \in DOMAIN channel' : d = channel'[k]
           \/ \E j \in DOMAIN queue : d = queue[j]
           \/ actor.at # "Drain" /\ d = actor.env
    BY DEF Pub!Underway, Pub!Elements
  <2>1. e = channel'[Len(channel) + 1] /\ Len(channel) + 1 \in DOMAIN channel'
    BY <1>1
  <2>. QED  BY <1>1, <2>0, <2>1, UnderwayIs
<1>. QED  BY <1>2, <1>3

(* The actor is done with what it held. *)
LEMMA DoneKeeps ==
  ASSUME PubTyped, Apart, actor.at # "Drain", actor' = Pub!Drain,
         channel' = channel, queue' = queue
  PROVE  /\ Apart' /\ Pub!Underway' = Pub!Underway \ {actor.env}
         /\ actor.env \in Pub!Underway
         /\ \A d \in Pub!Underway' : d.art # actor.env.art
<1>1. Apart'
  BY DEF Apart, Distinct, Pub!Drain
<1>2. \A d : d \in Pub!Underway' <=> (\E k \in DOMAIN channel : d = channel[k])
                                      \/ \E j \in DOMAIN queue : d = queue[j]
  BY DEF Pub!Underway, Pub!Elements, Pub!Drain
<1>. QED  BY <1>1, <1>2, UnderwayIs DEF Apart

-----------------------------------------------------------------------------
(* The least of some numbers. *)
LEMMA FirstIs ==
  ASSUME NEW S \in SUBSET Nat, S # {}
  PROVE  Pub!First(S) \in S /\ \A j \in S : Pub!First(S) <= j
<1> DEFINE R == {ss \in Nat \X Nat : ss[1] < ss[2]}
<1>1. IsWellFoundedOn(R, Nat)
  BY NatLessThanWellFounded DEF OpToRel
<1> HIDE DEF R
<1>2. PICK x \in S : \A y \in S : ~ (<<y, x>> \in R)
  BY <1>1, WFMin
<1>3. ASSUME NEW y \in S PROVE x <= y
  <2>1. ~ (y < x)
    BY <1>2 DEF R
  <2>. QED  BY <2>1
<1>. QED  BY <1>3 DEF Pub!First

-----------------------------------------------------------------------------
(* The types. *)

(* A caller moves, and nothing else but what is said. *)
LEMMA CallerMoves ==
  ASSUME PubTyped, NEW c \in Callers, NEW r \in CallerStates, Sound(r),
         caller' = [caller EXCEPT ![c] = r]
  PROVE  caller' \in [Callers -> CallerStates] /\ \A d \in Callers : Sound(caller'[d])
BY DEF PubTyped

LEMMA AskGenerationTyped ==
  ASSUME PubTyped, NEW c \in Callers, Pub!AskGeneration(c)
  PROVE  /\ PubTyped'
         /\ \E r \in CallerStates :
              /\ r.at = "Asked" /\ r.env.art = 0
              /\ caller' = [caller EXCEPT ![c] = r]
<1>1. PICK w \in Work : caller' = [caller EXCEPT ![c] =
              [at |-> "Asked",
               env |-> [Pub!NoEnvelope EXCEPT !.kind = w.kind, !.priority = w.priority,
                                              !.gen = Pub!Larger(layer.core, catalog)]]]
  BY DEF Pub!AskGeneration
<1> DEFINE g == Pub!Larger(layer.core, catalog)
           e == [Pub!NoEnvelope EXCEPT !.kind = w.kind, !.priority = w.priority, !.gen = g]
           r == [at |-> "Asked", env |-> e]
<1>2. g \in 1..MaxGeneration
  BY PublicationAssumption DEF PublicationAssumption, PubTyped, Pub!Larger
<1> HIDE DEF g
<1>3. e \in Envs /\ e.art = 0 /\ ~e.detached /\ e.gen = g
  <2>1. w.kind \in Pub!Kinds /\ w.priority \in Pub!Priorities
    BY PublicationAssumption DEF PublicationAssumption
  <2>2. e.art = 0 /\ e.kind = w.kind /\ e.priority = w.priority /\ e.gen = g /\ ~e.detached
    BY DEF Pub!NoEnvelope
  <2>3. 0 \in 0..Slots /\ 0 \in 0..MaxVersion /\ g \in 0..MaxGeneration
    BY <1>2, PublicationAssumption DEF PublicationAssumption
  <2>4. e \in Envs
    BY <2>1, <2>3, EnvelopeTyped DEF Envs
  <2>. QED  BY <2>2, <2>4
<1>4. caller' = [caller EXCEPT ![c] = r]
  BY <1>1 DEF g
<1> HIDE DEF e
<1>5. r \in CallerStates /\ Sound(r) /\ r.at = "Asked" /\ r.env.art = 0
  BY <1>2, <1>3 DEF CallerStates, Sound
<1> HIDE DEF r
<1>6. caller' \in [Callers -> CallerStates] /\ \A d \in Callers : Sound(caller'[d])
  BY <1>4, <1>5, CallerMoves
<1>7. PubTyped'
  BY <1>6 DEF PubTyped, Pub!AskGeneration, Pub!files, Pub!store, Pub!lanes
<1>. QED  BY <1>4, <1>5, <1>7

LEMMA PrepareTyped ==
  ASSUME PubTyped, NEW c \in Callers, Pub!Prepare(c)
  PROVE  /\ PubTyped'
         /\ \E a \in Pub!FreeSlots, r \in CallerStates :
              /\ r.at = "Prepared" /\ r.env.art = a /\ r.env.ver = disk
              /\ r.env.gen = caller[c].env.gen /\ ~r.env.detached
              /\ caller' = [caller EXCEPT ![c] = r]
              /\ staged' = staged \cup {a}
<1> DEFINE a == Pub!First(Pub!FreeSlots)
           e == caller[c].env
           f == [e EXCEPT !.art = a, !.ver = disk]
           r == [at |-> "Prepared", env |-> f]
<1>1. a \in Pub!FreeSlots /\ a \in 1..Slots
  <2>1. Pub!FreeSlots \in SUBSET (1..Slots) /\ 1..Slots \subseteq Nat
    BY PublicationAssumption DEF Pub!FreeSlots, Pub!Artifacts, PublicationAssumption
  <2>. QED  BY <2>1, FirstIs DEF Pub!Prepare
<1>2. caller' = [caller EXCEPT ![c] = r] /\ staged' = staged \cup {a}
  BY DEF Pub!Prepare
<1>3. e \in Envs /\ ~e.detached /\ e.gen # 0 /\ disk \in 0..MaxVersion /\ caller[c].at = "Asked"
  BY DEF PubTyped, Sound, CallerStates, Pub!Prepare
<1> HIDE DEF a, e
<1>4. f \in Envs /\ f.art = a /\ f.gen = e.gen /\ ~f.detached /\ f.ver = disk /\ a # 0
  <2>1. a \in 0..Slots /\ a # 0
    BY <1>1, PublicationAssumption DEF PublicationAssumption
  <2>2. f \in Envs /\ f.art = a /\ f.ver = disk /\ f.gen = e.gen /\ f.detached = e.detached
    BY <1>3, <2>1 DEF Envs
  <2>. QED  BY <1>3, <2>1, <2>2
<1> HIDE DEF f
<1>5. r \in CallerStates /\ Sound(r) /\ r.at = "Prepared" /\ r.env = f
  BY <1>3, <1>4 DEF CallerStates, Sound
<1> HIDE DEF r
<1>6. caller' \in [Callers -> CallerStates] /\ \A d \in Callers : Sound(caller'[d])
  BY <1>2, <1>5, CallerMoves
<1>7. prepared' \in [0..MaxGeneration -> SUBSET (0..MaxVersion)]
  BY <1>3 DEF PubTyped, Pub!Prepare
<1>8. staged' \subseteq Pub!Artifacts
  BY <1>1, <1>2 DEF PubTyped, Pub!Artifacts
<1>. QED  BY <1>1, <1>2, <1>4, <1>5, <1>6, <1>7, <1>8 DEF e, PubTyped, Pub!Prepare, Pub!files, Pub!store,
          Pub!lanes

(* Where a caller goes without another envelope. *)
LEMMA GoesTyped ==
  ASSUME PubTyped, NEW c \in Callers, caller[c].at \in {"Prepared", "Staged", "Waiting"},
         NEW at \in {"Staged", "Waiting", "Leaving"}, caller' = [caller EXCEPT ![c].at = at]
  PROVE  /\ caller' \in [Callers -> CallerStates] /\ \A d \in Callers : Sound(caller'[d])
         /\ caller'[c].at = at /\ caller'[c].env = caller[c].env
         /\ \A d \in Callers \ {c} : caller'[d] = caller[d]
<1> DEFINE r == [caller[c] EXCEPT !.at = at]
<1>1. r \in CallerStates /\ Sound(r) /\ r.at = at /\ r.env = caller[c].env
  BY DEF PubTyped, CallerStates, Sound
<1>2. caller' = [caller EXCEPT ![c] = r]
  OBVIOUS
<1> HIDE DEF r
<1>. QED  BY <1>1, <1>2, CallerMoves DEF PubTyped

LEMMA LeavesTyped ==
  ASSUME PubTyped, NEW c \in Callers, caller' = [caller EXCEPT ![c] = Pub!Away]
  PROVE  caller' \in [Callers -> CallerStates] /\ \A d \in Callers : Sound(caller'[d])
BY EnvelopeTyped, CallerMoves

LEMMA SentTyped ==
  ASSUME PubTyped, NEW c \in Callers, caller[c].at \in {"Prepared", "Staged", "Detach"},
         Len(channel) < ChannelCapacity, channel' = Append(channel, caller[c].env)
  PROVE  channel' \in Seq(Pub!Envelopes) /\ Len(channel') <= ChannelCapacity
<1>1. caller[c].env \in Pub!Envelopes
  BY EnvelopeTyped DEF PubTyped, CallerStates, Sound
<1>2. channel \in Seq(Pub!Envelopes) /\ Len(channel) \in Nat /\ ChannelCapacity \in Nat
  BY PublicationAssumption DEF PubTyped, PublicationAssumption
<1>. QED  BY <1>1, <1>2

(* The answer of a caller, and where it goes with it. *)
Detached(e, f) ==
  /\ f.art = e.art /\ f.gen = e.gen /\ f.ver = e.ver
  /\ f.detached /\ f.kind = "Substring"

LEMMA ReceiveTyped ==
  ASSUME PubTyped, NEW c \in Callers, Pub!Receive(c)
  PROVE  /\ PubTyped'
         /\ \E r \in CallerStates :
              /\ caller' = [caller EXCEPT ![c] = r]
              /\ IF reply[caller[c].env.art] = "applied" /\ caller[c].env.kind = "Core"
                 THEN r.at = "Detach" /\ Detached(caller[c].env, r.env)
                 ELSE r = Pub!Away
<1> DEFINE e == caller[c].env
           f == [e EXCEPT !.kind = "Substring", !.priority = "Idle", !.detached = TRUE]
           core == reply[e.art] = "applied" /\ e.kind = "Core"
           r == IF core THEN [at |-> "Detach", env |-> f] ELSE Pub!Away
<1>1. caller[c].at = "Waiting" /\ e \in Envs /\ e.art # 0 /\ e.gen # 0
  BY DEF PubTyped, Pub!Receive, CallerStates, Sound
<1>2. caller' = [caller EXCEPT ![c] = r]
  BY DEF Pub!Receive, PubTyped
<1>3. reply' \in [Pub!Artifacts -> {"none", "applied", "failed"}]
  BY DEF PubTyped, Pub!Receive
<1> HIDE DEF e
<1>4. f \in Envs /\ Detached(e, f)
  BY <1>1 DEF Envs, Detached, Pub!Kinds, Pub!Priorities
<1> HIDE DEF f, core
<1>5. r \in CallerStates /\ Sound(r)
        /\ IF core THEN r.at = "Detach" /\ r.env = f ELSE r = Pub!Away
  BY <1>1, <1>4, EnvelopeTyped DEF CallerStates, Sound, Detached
<1> HIDE DEF r
<1>6. caller' \in [Callers -> CallerStates] /\ \A d \in Callers : Sound(caller'[d])
  BY <1>2, <1>5, CallerMoves
<1>7. PubTyped'
  <2>1. UNCHANGED <<disk, catalog, content, layer, staged, leftover, recovered, cancelled,
                    channel, queue, burst, actor, prepared>>
    BY DEF Pub!Receive, Pub!files, Pub!store, Pub!lanes, Pub!history
  <2>. QED  BY <1>3, <1>6, <2>1 DEF PubTyped
<1>. QED  BY <1>2, <1>4, <1>5, <1>7 DEF core, e

LEMMA CallerTyped ==
  ASSUME PubTyped, NEW c \in Callers, Pub!CallerStep(c)
  PROVE  PubTyped'
<1>1. CASE Pub!AskGeneration(c) \/ Pub!Prepare(c) \/ Pub!Receive(c)
  BY <1>1, AskGenerationTyped, PrepareTyped, ReceiveTyped
<1>2. CASE Pub!Recover(c)
  <2>1. staged' \subseteq Pub!Artifacts /\ leftover' \subseteq Pub!Artifacts /\ recovered' = TRUE
    BY <1>2 DEF Pub!Recover, PubTyped
  <2>2. UNCHANGED <<disk, catalog, content, layer, caller, cancelled, reply, channel, queue,
                    burst, actor, prepared>>
    BY <1>2 DEF Pub!Recover, Pub!files, Pub!store, Pub!lanes, Pub!history
  <2>. QED  BY <2>1, <2>2 DEF PubTyped
<1>3. CASE Pub!Send(c)
  <2>1. channel' \in Seq(Pub!Envelopes) /\ Len(channel') <= ChannelCapacity
    BY <1>3, SentTyped DEF Pub!Send
  <2>2. caller' \in [Callers -> CallerStates] /\ \A d \in Callers : Sound(caller'[d])
    BY <1>3, GoesTyped DEF Pub!Send
  <2>. QED  BY <1>3, <2>1, <2>2 DEF Pub!Send, PubTyped, Pub!files, Pub!store, Pub!history
<1>4. CASE Pub!CancelBeforeQueue(c)
  <2>1. caller' \in [Callers -> CallerStates] /\ \A d \in Callers : Sound(caller'[d])
    BY <1>4, LeavesTyped DEF Pub!CancelBeforeQueue
  <2>. QED  BY <1>4, <2>1 DEF Pub!CancelBeforeQueue, PubTyped, Pub!files, Pub!store, Pub!lanes,
               Pub!history
<1>5. CASE Pub!SendDetached(c)
  <2>1. channel' \in Seq(Pub!Envelopes) /\ Len(channel') <= ChannelCapacity
    BY <1>5, SentTyped DEF Pub!SendDetached
  <2>2. caller' \in [Callers -> CallerStates] /\ \A d \in Callers : Sound(caller'[d])
    BY <1>5, LeavesTyped DEF Pub!SendDetached
  <2>. QED  BY <1>5, <2>1, <2>2 DEF Pub!SendDetached, PubTyped, Pub!files, Pub!store, Pub!history
<1>6. CASE Pub!SeeNotStarted(c)
  <2>1. caller' \in [Callers -> CallerStates] /\ \A d \in Callers : Sound(caller'[d])
    BY <1>6, GoesTyped DEF Pub!SeeNotStarted
  <2>. QED  BY <1>6, <2>1 DEF Pub!SeeNotStarted, PubTyped, Pub!files, Pub!store, Pub!lanes,
               Pub!history
<1>7. CASE Pub!Leave(c)
  <2>1. caller' \in [Callers -> CallerStates] /\ \A d \in Callers : Sound(caller'[d])
    BY <1>7, LeavesTyped DEF Pub!Leave
  <2>2. caller[c].env.art \in Pub!Artifacts
    BY <1>7, EnvelopeTyped DEF Pub!Leave, PubTyped, CallerStates, Sound, Pub!Envelopes
  <2>3. cancelled' \subseteq Pub!Artifacts
    BY <1>7, <2>2 DEF Pub!Leave, PubTyped
  <2>4. reply' \in [Pub!Artifacts -> {"none", "applied", "failed"}]
    BY <1>7 DEF Pub!Leave, PubTyped
  <2>. QED  BY <1>7, <2>1, <2>3, <2>4 DEF Pub!Leave, PubTyped, Pub!files, Pub!store, Pub!lanes
<1>8. CASE Pub!TakeDescriptor(c)
  <2>1. caller' \in [Callers -> CallerStates] /\ \A d \in Callers : Sound(caller'[d])
    BY <1>8, GoesTyped DEF Pub!TakeDescriptor
  <2>. QED  BY <1>8, <2>1 DEF Pub!TakeDescriptor, PubTyped, Pub!files, Pub!store, Pub!lanes,
               Pub!history
<1>9. CASE Pub!GiveUp(c)
  <2>1. caller' \in [Callers -> CallerStates] /\ \A d \in Callers : Sound(caller'[d])
    BY <1>9, LeavesTyped DEF Pub!GiveUp
  <2>2. leftover' \subseteq Pub!Artifacts
    BY <1>9 DEF Pub!GiveUp, PubTyped
  <2>. QED  BY <1>9, <2>1, <2>2 DEF Pub!GiveUp, PubTyped, Pub!files, Pub!store, Pub!lanes,
               Pub!history
<1>. QED  BY <1>1, <1>2, <1>3, <1>4, <1>5, <1>6, <1>7, <1>8, <1>9 DEF Pub!CallerStep

-----------------------------------------------------------------------------
(* The turn of the lanes: whichever it is, one of the queue is taken. *)
LEMMA PopsTake ==
  ASSUME PubTyped,
         Pub!PopBackground \/ Pub!PopForeground \/ Pub!PopIdle \/ Pub!PopMaintenance
  PROVE  \E i \in DOMAIN queue, b \in 0..BurstLimit :
           /\ Pub!Take(i, b)
           /\ \/ /\ queue[i].priority # "Maintenance"
                 /\ \A j \in 1..i - 1 : queue[j].priority # "Maintenance"
              \/ i = 1
<1>1. /\ DOMAIN queue = 1..Len(queue) /\ Len(queue) \in Nat
      /\ \A i \in DOMAIN queue : queue[i].priority \in Pub!Priorities
      /\ burst \in 0..BurstLimit /\ BurstLimit \in Nat
  <2>1. \A i \in DOMAIN queue : queue[i].priority \in Pub!Priorities
    BY LanesAre DEF Pub!Envelopes
  <2>. QED  BY <2>1, LanesAre, PublicationAssumption DEF PubTyped, PublicationAssumption
<1>2. ASSUME NEW p \in {"Foreground", "Background", "Idle"}, Pub!Ready(p) # {}
      PROVE  LET i == Pub!First(Pub!Ready(p)) IN
             /\ i \in DOMAIN queue /\ queue[i].priority # "Maintenance"
             /\ \A j \in 1..i - 1 : queue[j].priority # "Maintenance"
  <2>1. Pub!Ready(p) \in SUBSET Nat
    BY <1>1 DEF Pub!Ready, Pub!OfPriority
  <2>2. Pub!First(Pub!Ready(p)) \in Pub!Ready(p)
    BY <1>2, <2>1, FirstIs
  <2> DEFINE i == Pub!First(Pub!Ready(p))
  <2>3. i \in DOMAIN queue /\ queue[i].priority = p /\ \A b \in Pub!Barrier : i < b
    BY <2>2 DEF Pub!Ready, Pub!OfPriority
  <2> HIDE DEF i
  <2>4. \A j \in 1..i - 1 : j \in DOMAIN queue /\ ~ (i < j)
    BY <1>1, <2>3
  <2>5. \A j \in 1..i - 1 : queue[j].priority # "Maintenance"
    BY <2>3, <2>4 DEF Pub!Barrier, Pub!OfPriority
  <2>. QED  BY <2>3, <2>5 DEF i
<1>3. CASE Pub!PopBackground
  BY <1>1, <1>2, <1>3 DEF Pub!PopBackground, Pub!BackgroundTurn
<1>4. CASE Pub!PopForeground
  <2>1. (IF burst < BurstLimit THEN burst + 1 ELSE burst) \in 0..BurstLimit
    BY <1>1
  <2>. QED  BY <1>2, <1>4, <2>1 DEF Pub!PopForeground
<1>5. CASE Pub!PopIdle
  BY <1>1, <1>2, <1>5 DEF Pub!PopIdle
<1>6. CASE Pub!PopMaintenance
  <2> DEFINE i == Pub!First(Pub!Barrier)
  <2>1. Pub!Barrier \in SUBSET Nat /\ Pub!Barrier # {}
    BY <1>1, <1>6 DEF Pub!Barrier, Pub!OfPriority, Pub!PopMaintenance
  <2>2. i \in Pub!Barrier /\ \A j \in Pub!Barrier : i <= j
    BY <2>1, FirstIs
  <2>3. Pub!Take(i, 0)
    BY <1>6 DEF Pub!PopMaintenance
  <2> HIDE DEF i
  <2>4. i \in DOMAIN queue
    BY <2>2 DEF Pub!Barrier, Pub!OfPriority
  <2>5. ASSUME i # 1 PROVE FALSE
    <3>1. 1 \in DOMAIN queue /\ \A b \in Pub!Barrier : 1 < b
      BY <1>1, <2>1, <2>2, <2>4, <2>5
    <3>2. 1 \notin Pub!Barrier
      BY <3>1, <2>1
    <3>3. queue[1].priority \in {"Foreground", "Background", "Idle"}
      BY <1>1, <3>1, <3>2 DEF Pub!Barrier, Pub!OfPriority, Pub!Priorities
    <3>4. 1 \in Pub!Ready(queue[1].priority)
      BY <3>1 DEF Pub!Ready, Pub!OfPriority
    <3>. QED  BY <1>6, <3>3, <3>4 DEF Pub!PopMaintenance, Pub!NothingUrgent
  <2>. QED  BY <1>1, <2>3, <2>4, <2>5
<1>. QED  BY <1>3, <1>4, <1>5, <1>6

LEMMA TakeTyped ==
  ASSUME PubTyped, NEW i \in DOMAIN queue, NEW b \in 0..BurstLimit, Pub!Take(i, b)
  PROVE  PubTyped'
<1>1. /\ queue \in Seq(Pub!Envelopes) /\ i \in 1..Len(queue) /\ queue[i] \in Pub!Envelopes
      /\ queue' = SubSeq(queue, 1, i - 1) \o SubSeq(queue, i + 1, Len(queue))
      /\ Len(queue) <= QueueCapacity /\ Len(queue) \in Nat /\ QueueCapacity \in Nat
  <2>1. Len(queue) <= QueueCapacity
    BY DEF PubTyped
  <2>. QED  BY <2>1, LanesAre, PublicationAssumption DEF Pub!Take, PublicationAssumption
<1>2. queue' \in Seq(Pub!Envelopes) /\ Len(queue') <= QueueCapacity
  <2>1. queue' \in Seq(Pub!Envelopes) /\ Len(queue') = Len(queue) - 1
    BY <1>1, Without
  <2>. QED  BY <1>1, <2>1
<1>3. /\ actor' \in [at : {"Drain", "Yielding", "Started"}, env : Envs]
      /\ actor'.at # "Drain" /\ actor'.env.art # 0
  BY <1>1, EnvelopeTyped DEF Pub!Take
<1>. QED  BY <1>2, <1>3 DEF PubTyped, Pub!Take, Pub!files, Pub!store, Pub!history

LEMMA IngestTyped ==
  ASSUME PubTyped, Pub!Ingest
  PROVE  PubTyped'
<1>1. /\ queue \in Seq(Pub!Envelopes) /\ channel \in Seq(Pub!Envelopes) /\ channel # <<>>
      /\ queue' = Append(queue, Head(channel)) /\ channel' = Tail(channel)
      /\ Len(queue) < QueueCapacity /\ Len(channel) <= ChannelCapacity
      /\ Len(queue) \in Nat /\ QueueCapacity \in Nat /\ ChannelCapacity \in Nat
  BY PublicationAssumption DEF PubTyped, Pub!Ingest, PublicationAssumption
<1>2. /\ queue' \in Seq(Pub!Envelopes) /\ channel' \in Seq(Pub!Envelopes)
      /\ Len(queue') <= QueueCapacity /\ Len(channel') <= ChannelCapacity
  BY <1>1
<1>. QED  BY <1>2 DEF PubTyped, Pub!Ingest, Pub!files, Pub!store, Pub!history

LEMMA AnswerTyped ==
  ASSUME PubTyped, actor.at # "Drain", NEW outcome \in {"applied", "failed"}, NEW keep,
         Pub!Answer(actor.env, outcome, keep),
         content' \in [gen : 0..MaxGeneration, ver : 0..MaxVersion,
                       sub : {"none", "pending", "ready"},
                       subGen : 0..MaxGeneration, subVer : 0..MaxVersion],
         layer' \in [core : 0..MaxGeneration, sub : 0..MaxGeneration]
  PROVE  PubTyped'
<1>1. reply' \in [Pub!Artifacts -> {"none", "applied", "failed"}]
  BY DEF Pub!Answer, PubTyped
<1>2. staged' \subseteq Pub!Artifacts /\ cancelled' \subseteq Pub!Artifacts
  BY DEF Pub!Answer, PubTyped
<1>3. /\ actor' \in [at : {"Drain", "Yielding", "Started"}, env : Envs]
      /\ actor'.at = "Drain" /\ actor'.env.art = 0
  BY EnvelopeTyped DEF Pub!Answer, Pub!Drain
<1>. QED  BY <1>1, <1>2, <1>3 DEF PubTyped, Pub!Answer, Pub!files, Pub!lanes

(* What a publication writes. *)
LEMMA WriteTyped ==
  ASSUME PubTyped, actor.at = "Started", Pub!WriteLayers(actor.env)
  PROVE  /\ content' \in [gen : 0..MaxGeneration, ver : 0..MaxVersion,
                          sub : {"none", "pending", "ready"},
                          subGen : 0..MaxGeneration, subVer : 0..MaxVersion]
         /\ layer' \in [core : 0..MaxGeneration, sub : 0..MaxGeneration]
         /\ LET e == actor.env IN
            \/ UNCHANGED content
            \/ content' = Pub!NoContent
            \/ content'.gen = e.gen /\ content'.ver = e.ver /\ content'.sub = "pending"
            \/ /\ content'.gen = content.gen /\ content'.ver = content.ver
               /\ content'.sub = "ready" /\ content'.subGen = e.gen /\ content'.subVer = e.ver
<1> DEFINE e == actor.env
           Contents == [gen : 0..MaxGeneration, ver : 0..MaxVersion,
                        sub : {"none", "pending", "ready"},
                        subGen : 0..MaxGeneration, subVer : 0..MaxVersion]
<1>1. e \in Envs /\ e.gen \in 0..MaxGeneration /\ e.ver \in 0..MaxVersion /\ content \in Contents
  BY DEF PubTyped, Envs
<1>2. Pub!NoContent \in Contents /\ [core |-> 0, sub |-> 0] \in [core : 0..MaxGeneration, sub : 0..MaxGeneration]
  BY PublicationAssumption DEF Pub!NoContent, PublicationAssumption
<1> HIDE DEF e
<1>3. /\ Pub!WithCore(e) \in Contents
      /\ Pub!WithCore(e).gen = e.gen /\ Pub!WithCore(e).ver = e.ver /\ Pub!WithCore(e).sub = "pending"
  BY <1>1 DEF Pub!WithCore
<1>4. /\ Pub!WithSubstring(e) \in Contents
      /\ Pub!WithSubstring(e).gen = content.gen /\ Pub!WithSubstring(e).ver = content.ver
      /\ Pub!WithSubstring(e).sub = "ready" /\ Pub!WithSubstring(e).subGen = e.gen
      /\ Pub!WithSubstring(e).subVer = e.ver
  BY <1>1 DEF Pub!WithSubstring
<1>5. layer' \in [core : 0..MaxGeneration, sub : 0..MaxGeneration]
  BY <1>1, <1>2 DEF e, Pub!WriteLayers, PubTyped, Pub!store
<1>6. \/ UNCHANGED content \/ content' = Pub!NoContent \/ content' = Pub!WithCore(e)
      \/ content' = Pub!WithSubstring(e)
  BY DEF e, Pub!WriteLayers, Pub!store
<1> HIDE DEF Contents
<1>7. content' \in Contents
  BY <1>1, <1>2, <1>3, <1>4, <1>6
<1>. QED  BY <1>3, <1>4, <1>5, <1>6, <1>7 DEF e, Contents

-----------------------------------------------------------------------------
(* Who has an artifact: each is with one caller or on its way once, or with   *)
(* both while the caller waits for the answer.                                *)

Waits(c) == caller[c].at \in {"Waiting", "Leaving"}

(* What is on its way finds its artifact. *)
ReadersFind == \A e \in Pub!Underway : e.art \in staged /\ (e.detached => e.kind = "Substring")

(* Before it is sent an artifact is with its caller alone. *)
Unsent ==
  \A c \in Callers : caller[c].at \in {"Prepared", "Staged", "Detach"} =>
     LET a == caller[c].env.art IN
     /\ a \in staged /\ a \notin cancelled /\ reply[a] = "none"
     /\ \A e \in Pub!Underway : e.art # a

(* A caller that waits has its envelope on the way, or the answer to it; a     *)
(* core that was applied is left for its substring.                           *)
Sent ==
  \A c \in Callers : Waits(c) =>
     LET e == caller[c].env IN
     /\ e.art \notin cancelled
     /\ reply[e.art] = "none" => e \in Pub!Underway
     /\ reply[e.art] # "none" =>
          /\ \A d \in Pub!Underway : d.art # e.art
          /\ e.art \in staged <=> reply[e.art] = "applied" /\ e.kind = "Core"

OneOwner ==
  \A c, d \in Callers : caller[c].env.art = caller[d].env.art /\ caller[c].env.art # 0 => c = d

(* A mark is for an envelope on its way whose caller is gone. *)
MarksMatter ==
  \A a \in cancelled : /\ \E e \in Pub!Underway : e.art = a
                       /\ \A c \in Callers : caller[c].env.art # a

(* An answer has a reader. *)
AnswersMatter ==
  \A a \in Pub!Artifacts : reply[a] # "none" => \E c \in Callers : Waits(c) /\ caller[c].env.art = a

(* Who is not waited for is marked, or was not to be waited for. *)
Awaited ==
  \A e \in Pub!Underway : ~e.detached /\ e.art \notin cancelled =>
     \E c \in Callers : Waits(c) /\ caller[c].env = e

(* What an earlier process left is nobody's. *)
LeftoversIdle ==
  \A a \in leftover : /\ a \in staged
                      /\ \A e \in Pub!Underway : e.art # a
                      /\ \A c \in Callers : caller[c].env.art # a

(* An artifact has somebody, or is one of those that may be lost. *)
Accounted ==
  \A a \in staged :
     \/ \E c \in Callers : caller[c].env.art = a
     \/ \E e \in Pub!Underway : e.art = a
     \/ a \in leftover \cup raced

(* Every artifact is of a text its generation was prepared from, and so is     *)
(* what was written of it.                                                    *)
OfItsText(e) == e.gen # 0 /\ e.ver \in prepared[e.gen]

TextsKnown ==
  /\ \A c \in Callers : caller[c].env.art # 0 => OfItsText(caller[c].env)
  /\ \A e \in Pub!Underway : OfItsText(e)
  /\ content.gen # 0 => content.ver \in prepared[content.gen]
  /\ content.sub = "ready" => content.subGen # 0 /\ content.subVer \in prepared[content.subGen]

Owned ==
  /\ ReadersFind
  /\ Unsent
  /\ Sent
  /\ OneOwner
  /\ MarksMatter
  /\ AnswersMatter
  /\ Awaited
  /\ LeftoversIdle
  /\ Accounted

PubInv == PubTyped /\ Apart /\ Owned /\ TextsKnown

LEMMA CallerIs ==
  ASSUME PubTyped, NEW c \in Callers
  PROVE  /\ caller[c] \in CallerStates /\ Sound(caller[c]) /\ caller[c].env \in Envs
         /\ caller[c].env.art # 0 => /\ caller[c].env \in Pub!Envelopes
                                     /\ caller[c].env.art \in Pub!Artifacts
BY EnvelopeTyped DEF PubTyped, CallerStates, Pub!Envelopes

LEMMA LanesStand ==
  ASSUME UNCHANGED <<channel, queue, actor>>
  PROVE  Pub!Underway' = Pub!Underway /\ (Apart => Apart')
BY DEF Pub!Underway, Pub!Elements, Apart, Distinct

(* The texts are known of envelopes that only change hands. *)
LEMMA TextsStand ==
  ASSUME TextsKnown, prepared' = prepared, content' = content,
         \A c \in Callers : caller'[c].env.art # 0 =>
            /\ caller[c].env.art # 0
            /\ caller'[c].env.gen = caller[c].env.gen /\ caller'[c].env.ver = caller[c].env.ver,
         \A e \in Pub!Underway' :
            e \in Pub!Underway \/ \E c \in Callers : caller[c].env = e /\ e.art # 0
  PROVE  TextsKnown'
BY DEF TextsKnown, OfItsText

LEMMA AskGenerationOwned ==
  ASSUME PubInv, NEW c \in Callers, Pub!AskGeneration(c)
  PROVE  PubInv'
<1>1. PICK r \in CallerStates : /\ r.at = "Asked" /\ r.env.art = 0
                                /\ caller' = [caller EXCEPT ![c] = r]
  BY AskGenerationTyped DEF PubInv
<1>2. caller'[c] = r /\ \A d \in Callers \ {c} : caller'[d] = caller[d]
  BY <1>1 DEF PubInv, PubTyped
<1>3. caller[c].at = "Idle" /\ caller[c].env.art = 0
  BY CallerIs DEF PubInv, Sound, Pub!AskGeneration
<1>4. /\ UNCHANGED <<content, staged, leftover, cancelled, reply, raced, prepared>>
      /\ UNCHANGED <<channel, queue, actor>>
  BY DEF Pub!AskGeneration, Pub!store, Pub!lanes
<1>5. Pub!Underway' = Pub!Underway /\ Apart'
  BY <1>4, LanesStand DEF PubInv
<1>6. \A d \in Callers : caller'[d].env.art = caller[d].env.art
  BY <1>1, <1>2, <1>3
<1>7. \A d \in Callers : caller'[d].env.art # 0 => caller'[d] = caller[d]
  BY <1>1, <1>2
<1>8. \A d \in Callers : caller'[d].at \notin {"Idle", "Asked"} => caller'[d] = caller[d]
  BY <1>1, <1>2
<1>9. \A d \in Callers : caller[d].at \notin {"Idle", "Asked"} => caller'[d] = caller[d]
  BY <1>2, <1>3
<1>10. TextsKnown'
  BY <1>4, <1>5, <1>7, TextsStand DEF PubInv
<1>11. ReadersFind' /\ LeftoversIdle' /\ MarksMatter' /\ OneOwner' /\ Accounted'
  BY <1>4, <1>5, <1>6 DEF PubInv, Owned, ReadersFind, LeftoversIdle, MarksMatter, OneOwner,
     Accounted
<1>12. Unsent' /\ Sent'
  BY <1>4, <1>5, <1>8 DEF PubInv, Owned, Unsent, Sent, Waits
<1>13. AnswersMatter' /\ Awaited'
  BY <1>4, <1>5, <1>9 DEF PubInv, Owned, AnswersMatter, Awaited, Waits
<1>. QED  BY <1>5, <1>10, <1>11, <1>12, <1>13, AskGenerationTyped DEF PubInv, Owned

LEMMA PrepareOwned ==
  ASSUME PubInv, NEW c \in Callers, Pub!Prepare(c)
  PROVE  PubInv'
<1>1. PICK a \in Pub!FreeSlots, r \in CallerStates :
              /\ r.at = "Prepared" /\ r.env.art = a /\ r.env.ver = disk
              /\ r.env.gen = caller[c].env.gen /\ ~r.env.detached
              /\ caller' = [caller EXCEPT ![c] = r]
              /\ staged' = staged \cup {a}
  BY PrepareTyped DEF PubInv
<1>2. caller'[c] = r /\ \A d \in Callers \ {c} : caller'[d] = caller[d]
  BY <1>1 DEF PubInv, PubTyped
<1>3. caller[c].at = "Asked" /\ caller[c].env.art = 0 /\ caller[c].env.gen # 0
      /\ caller[c].env \in Envs
  BY CallerIs DEF PubInv, Sound, Pub!Prepare
<1>4. /\ UNCHANGED <<content, leftover, cancelled, reply, raced>>
      /\ UNCHANGED <<channel, queue, actor>>
      /\ prepared' = [prepared EXCEPT ![caller[c].env.gen] = @ \cup {disk}]
  BY DEF Pub!Prepare, Pub!store, Pub!lanes
<1>5. Pub!Underway' = Pub!Underway /\ Apart'
  BY <1>4, LanesStand DEF PubInv
<1>6. /\ a \in Pub!Artifacts /\ a # 0 /\ a \notin staged
      /\ \A d \in Callers : caller[d].env.art # a
      /\ \A e \in Pub!Underway : e.art # a
  <2>1. a \in Pub!Artifacts /\ a \notin staged /\ a \notin Pub!Held
    BY <1>1 DEF Pub!FreeSlots
  <2>2. a # 0
    BY <2>1, PublicationAssumption DEF Pub!Artifacts, PublicationAssumption
  <2>. QED  BY <2>1, <2>2 DEF Pub!Held, Pub!Underway
<1>7. a \notin cancelled /\ reply[a] = "none" /\ a \notin leftover
  BY <1>6 DEF PubInv, Owned, MarksMatter, AnswersMatter, LeftoversIdle
<1>8. \A d \in Callers : caller[d].at \notin {"Idle", "Asked"} => caller'[d] = caller[d]
  BY <1>2, <1>3
<1>9. \A d \in Callers : caller'[d] = IF d = c THEN r ELSE caller[d]
  BY <1>2
<1>10. TextsKnown'
  <2>1. caller[c].env.gen \in 0..MaxGeneration
    BY <1>3 DEF Envs
  <2>2. /\ \A g \in 0..MaxGeneration : prepared[g] \subseteq prepared'[g]
        /\ disk \in prepared'[caller[c].env.gen]
    BY <1>4, <2>1 DEF PubInv, PubTyped
  <2>3. \A e \in Envs : OfItsText(e) => e.gen # 0 /\ e.ver \in prepared'[e.gen]
    BY <2>2 DEF OfItsText, Envs
  <2>4. ASSUME NEW d \in Callers, caller'[d].env.art # 0
        PROVE  caller'[d].env.gen # 0 /\ caller'[d].env.ver \in prepared'[caller'[d].env.gen]
    <3>1. CASE d = c
      BY <1>1, <1>2, <1>3, <2>2, <3>1
    <3>2. CASE d # c
      <4>1. caller'[d] = caller[d] /\ OfItsText(caller[d].env) /\ caller[d].env \in Envs
        BY <1>2, <2>4, <3>2, CallerIs DEF PubInv, TextsKnown
      <4>. QED  BY <2>3, <4>1
    <3>. QED  BY <3>1, <3>2
  <2>5. \A e \in Pub!Underway : OfItsText(e) /\ e \in Envs
    BY UnderwayTyped, EnvelopeTyped DEF PubInv, TextsKnown
  <2>6. \A e \in Pub!Underway' : e.gen # 0 /\ e.ver \in prepared'[e.gen]
    BY <1>5, <2>2, <2>5 DEF OfItsText, Envs
  <2>7. /\ content.gen # 0 => content.ver \in prepared'[content.gen]
        /\ content.sub = "ready" => content.subGen # 0 /\ content.subVer \in prepared'[content.subGen]
    <3>1. content.gen \in 0..MaxGeneration /\ content.subGen \in 0..MaxGeneration
      BY DEF PubInv, PubTyped
    <3>. QED  BY <2>2, <3>1 DEF PubInv, TextsKnown
  <2>. QED  BY <1>4, <2>4, <2>6, <2>7 DEF TextsKnown, OfItsText
<1>11. ReadersFind' /\ LeftoversIdle' /\ MarksMatter' /\ OneOwner'
  BY <1>1, <1>4, <1>5, <1>6, <1>7, <1>9
     DEF PubInv, Owned, ReadersFind, LeftoversIdle, MarksMatter, OneOwner
<1>12. Accounted'
  <2>1. caller'[c].env.art = a
    BY <1>1, <1>2
  <2>2. \A b \in staged : (\E d \in Callers : caller[d].env.art = b) =>
            \E d \in Callers : caller'[d].env.art = b
    <3>1. \A d \in Callers, b \in staged : caller[d].env.art = b => d # c
      BY <1>3 DEF PubInv, PubTyped, Pub!Artifacts
    <3>. QED  BY <1>2, <3>1
  <2>. QED  BY <1>1, <1>4, <1>5, <2>1, <2>2 DEF PubInv, Owned, Accounted
<1>13. Unsent'
  BY <1>1, <1>4, <1>5, <1>6, <1>7, <1>9 DEF PubInv, Owned, Unsent
<1>14. Sent'
  <2>1. \A d \in Callers : Waits(d)' => d # c /\ Waits(d) /\ caller'[d] = caller[d]
    BY <1>1, <1>2 DEF Waits
  <2>2. \A d \in Callers : caller[d].env.art \in staged' <=> caller[d].env.art \in staged
    BY <1>1, <1>6
  <2>. QED  BY <1>4, <1>5, <2>1, <2>2 DEF PubInv, Owned, Sent
<1>15. AnswersMatter' /\ Awaited'
  BY <1>4, <1>5, <1>8 DEF PubInv, Owned, AnswersMatter, Awaited, Waits
<1>. QED  BY <1>5, <1>10, <1>11, <1>12, <1>13, <1>14, <1>15, PrepareTyped DEF PubInv, Owned

(* The descriptor arrives: the artifact was its caller's before. *)
LEMMA TakeDescriptorOwned ==
  ASSUME PubInv, PubTyped', NEW c \in Callers, Pub!TakeDescriptor(c)
  PROVE  PubInv'
<1>1. /\ caller[c].at = "Prepared"
      /\ UNCHANGED <<content, staged, leftover, cancelled, reply, raced, prepared>>
      /\ UNCHANGED <<channel, queue, actor>>
  BY DEF Pub!TakeDescriptor, Pub!store, Pub!lanes, Pub!history
<1>2. /\ caller'[c].at = "Staged" /\ caller'[c].env = caller[c].env
      /\ \A d \in Callers \ {c} : caller'[d] = caller[d]
  BY <1>1, GoesTyped DEF PubInv, Pub!TakeDescriptor
<1>3. Apart' /\ Pub!Underway' = Pub!Underway
  BY <1>1, LanesStand DEF PubInv
<1>4. \A d \in Callers : caller'[d].env = caller[d].env
  BY <1>2
<1>5. \A d \in Callers : Waits(d)' <=> Waits(d)
  BY <1>1, <1>2 DEF Waits
<1>6. TextsKnown'
  BY <1>1, <1>3, <1>4, TextsStand DEF PubInv
<1>7. ReadersFind' /\ LeftoversIdle' /\ MarksMatter' /\ OneOwner' /\ Accounted'
  BY <1>1, <1>3, <1>4
     DEF PubInv, Owned, ReadersFind, LeftoversIdle, MarksMatter, OneOwner, Accounted
<1>8. Unsent'
  <2>1. \A d \in Callers : caller'[d].at \in {"Prepared", "Staged", "Detach"} =>
            caller[d].at \in {"Prepared", "Staged", "Detach"}
    BY <1>1, <1>2
  <2>. QED  BY <1>1, <1>3, <1>4, <2>1 DEF PubInv, Owned, Unsent
<1>9. Sent' /\ AnswersMatter' /\ Awaited'
  BY <1>1, <1>3, <1>4, <1>5 DEF PubInv, Owned, Sent, AnswersMatter, Awaited
<1>. QED  BY <1>3, <1>6, <1>7, <1>8, <1>9 DEF PubInv, Owned

(* A caller gives its request up: what was staged for it, if anything was, has *)
(* nobody else.                                                               *)
LEMMA GiveUpOwned ==
  ASSUME PubInv, PubTyped', NEW c \in Callers, Pub!GiveUp(c)
  PROVE  PubInv'
<1> DEFINE a == caller[c].env.art
<1>1. /\ caller[c].at \in {"Asked", "Prepared"} /\ leftover' = leftover \cup ({a} \cap staged)
      /\ UNCHANGED <<content, staged, cancelled, reply, raced, prepared>>
      /\ UNCHANGED <<channel, queue, actor>>
  BY DEF Pub!GiveUp, Pub!store, Pub!lanes, Pub!history
<1>2. /\ caller'[c] = Pub!Away /\ caller'[c].env.art = 0 /\ caller'[c].at = "Idle"
      /\ \A d \in Callers \ {c} : caller'[d] = caller[d]
  BY EnvelopeTyped DEF PubInv, PubTyped, Pub!GiveUp
<1>3. 0 \notin Pub!Artifacts
  BY PublicationAssumption DEF Pub!Artifacts, PublicationAssumption
<1>4. a \in staged => /\ a # 0 /\ \A d \in Pub!Underway : d.art # a
                      /\ \A d \in Callers \ {c} : caller[d].env.art # a
  <2>1. a \in staged => a # 0
    BY <1>3 DEF PubInv, PubTyped
  <2>2. a # 0 => caller[c].at = "Prepared"
    BY <1>1, CallerIs DEF PubInv, Sound
  <2>. QED  BY <2>1, <2>2 DEF PubInv, Owned, Unsent, OneOwner
<1>5. Apart' /\ Pub!Underway' = Pub!Underway
  BY <1>1, LanesStand DEF PubInv
<1> HIDE DEF a
<1>6. \A d \in Callers : caller'[d].env.art # 0 => d # c /\ caller'[d] = caller[d]
  BY <1>2
<1>7. TextsKnown'
  BY <1>1, <1>5, <1>6, TextsStand DEF PubInv
<1>8. ReadersFind' /\ OneOwner'
  BY <1>1, <1>5, <1>6 DEF PubInv, Owned, ReadersFind, OneOwner
<1>9. \A d \in Callers : caller'[d].env.art = caller[d].env.art \/ caller'[d].env.art = 0
  BY <1>2
<1>10. LeftoversIdle'
  <2>1. \A b \in leftover' : b \in leftover \/ (b = a /\ a \in staged)
    BY <1>1
  <2>2. 0 \notin leftover
    BY <1>3 DEF PubInv, PubTyped
  <2>3. a \in staged => \A d \in Callers : caller'[d].env.art # a
    BY <1>2, <1>4
  <2>. QED  BY <1>1, <1>4, <1>5, <1>9, <2>1, <2>2, <2>3 DEF PubInv, Owned, LeftoversIdle
<1>11. MarksMatter'
  <2>1. 0 \notin cancelled
    BY <1>3 DEF PubInv, PubTyped
  <2>. QED  BY <1>1, <1>5, <1>9, <2>1 DEF PubInv, Owned, MarksMatter
<1>12. Accounted'
  <2>1. \A d \in Callers : caller[d].env.art # a => caller'[d] = caller[d]
    BY <1>2 DEF a
  <2>. QED  BY <1>1, <1>5, <2>1 DEF PubInv, Owned, Accounted
<1>13. \A d \in Callers : caller'[d].at # "Idle" => d # c /\ caller'[d] = caller[d]
  BY <1>2
<1>14. Unsent' /\ Sent'
  BY <1>1, <1>5, <1>13 DEF PubInv, Owned, Unsent, Sent, Waits
<1>15. \A d \in Callers : Waits(d) => Waits(d)' /\ caller'[d] = caller[d]
  BY <1>1, <1>2 DEF Waits
<1>16. AnswersMatter' /\ Awaited'
  BY <1>1, <1>5, <1>15 DEF PubInv, Owned, AnswersMatter, Awaited
<1>. QED  BY <1>5, <1>7, <1>8, <1>10, <1>11, <1>12, <1>14, <1>16 DEF PubInv, Owned

(* Only what nobody has is removed. *)
LEMMA RecoverOwned ==
  ASSUME PubInv, PubTyped', NEW c \in Callers, Pub!Recover(c)
  PROVE  PubInv'
<1>1. PICK expired \in SUBSET leftover : staged' = staged \ expired /\ leftover' = leftover \ expired
  BY DEF Pub!Recover
<1>2. /\ UNCHANGED <<content, caller, cancelled, reply, raced, prepared>>
      /\ UNCHANGED <<channel, queue, actor>>
  BY DEF Pub!Recover, Pub!store, Pub!lanes, Pub!history
<1>3. Pub!Underway' = Pub!Underway /\ Apart'
  BY <1>2, LanesStand DEF PubInv
<1>4. \A a \in expired : /\ \A e \in Pub!Underway : e.art # a
                         /\ \A d \in Callers : caller[d].env.art # a
  BY <1>1 DEF PubInv, Owned, LeftoversIdle
<1>5. TextsKnown'
  BY <1>2, <1>3 DEF PubInv, TextsKnown, OfItsText
<1>6. ReadersFind' /\ LeftoversIdle' /\ Accounted'
  BY <1>1, <1>2, <1>3, <1>4 DEF PubInv, Owned, ReadersFind, LeftoversIdle, Accounted
<1>7. Unsent' /\ Sent'
  BY <1>1, <1>2, <1>3, <1>4 DEF PubInv, Owned, Unsent, Sent, Waits
<1>8. OneOwner' /\ MarksMatter' /\ AnswersMatter' /\ Awaited'
  BY <1>2, <1>3 DEF PubInv, Owned, OneOwner, MarksMatter, AnswersMatter, Awaited, Waits
<1>. QED  BY <1>3, <1>5, <1>6, <1>7, <1>8 DEF PubInv, Owned

LEMMA SendOwned ==
  ASSUME PubInv, PubTyped', NEW c \in Callers, Pub!Send(c)
  PROVE  PubInv'
<1> DEFINE e == caller[c].env
<1>1. /\ caller[c].at = "Staged" /\ channel' = Append(channel, e)
      /\ UNCHANGED <<content, staged, leftover, cancelled, reply, raced, prepared>>
      /\ queue' = queue /\ actor' = actor
  BY DEF Pub!Send, Pub!store, Pub!history
<1>2. /\ caller'[c].at = "Waiting" /\ caller'[c].env = e
      /\ \A d \in Callers \ {c} : caller'[d] = caller[d]
  BY <1>1, GoesTyped DEF PubInv, Pub!Send
<1>3. e.art # 0 /\ e \in Pub!Envelopes /\ ~e.detached
  BY <1>1, CallerIs DEF PubInv, Sound
<1>4. /\ e.art \in staged /\ e.art \notin cancelled /\ reply[e.art] = "none"
      /\ \A d \in Pub!Underway : d.art # e.art
  BY <1>1 DEF PubInv, Owned, Unsent
<1>5. Apart' /\ Pub!Underway' = Pub!Underway \cup {e}
  BY <1>1, <1>3, <1>4, SentKeeps DEF PubInv
<1>6. \A d \in Callers : caller'[d].env = caller[d].env
  BY <1>2
<1>7. \A d \in Callers \ {c} : caller[d].env.art # e.art
  BY <1>3 DEF PubInv, Owned, OneOwner
<1>8. e.art # 0
  BY <1>3
<1> HIDE DEF e
<1>9. TextsKnown'
  <2>1. \A d \in Pub!Underway' : d \in Pub!Underway \/ \E b \in Callers : caller[b].env = d /\ d.art # 0
    BY <1>5, <1>8 DEF e
  <2>. QED  BY <1>1, <1>6, <2>1, TextsStand DEF PubInv
<1>10. ReadersFind' /\ LeftoversIdle' /\ MarksMatter' /\ OneOwner' /\ Accounted'
  <2>1. \A a \in leftover : a # e.art
    BY DEF PubInv, Owned, LeftoversIdle, e
  <2>. QED  BY <1>1, <1>3, <1>4, <1>5, <1>6, <2>1
               DEF PubInv, Owned, ReadersFind, LeftoversIdle, MarksMatter, OneOwner, Accounted
<1>11. Unsent'
  <2>1. \A d \in Callers : caller'[d].at \in {"Prepared", "Staged", "Detach"} => d # c /\ caller'[d] = caller[d]
    BY <1>2
  <2>. QED  BY <1>1, <1>5, <1>7, <2>1 DEF PubInv, Owned, Unsent
<1>12. Sent'
  <2>1. \A d \in Callers : d # c => caller'[d] = caller[d]
    BY <1>2
  <2>. QED  BY <1>1, <1>2, <1>4, <1>5, <1>7, <2>1 DEF PubInv, Owned, Sent, Waits
<1>13. \A d \in Callers : Waits(d) => Waits(d)' /\ caller'[d] = caller[d]
  BY <1>1, <1>2 DEF Waits
<1>14. Waits(c)'
  BY <1>2 DEF Waits
<1>15. AnswersMatter' /\ Awaited'
  BY <1>1, <1>2, <1>5, <1>13, <1>14 DEF PubInv, Owned, AnswersMatter, Awaited
<1>. QED  BY <1>5, <1>9, <1>10, <1>11, <1>12, <1>15 DEF PubInv, Owned

(* A caller goes away, with an artifact that is only its own. *)
LEMMA CancelBeforeQueueOwned ==
  ASSUME PubInv, PubTyped', NEW c \in Callers, Pub!CancelBeforeQueue(c)
  PROVE  PubInv'
<1> DEFINE a == caller[c].env.art
<1>1. /\ caller[c].at = "Staged" /\ staged' = staged \ {a}
      /\ UNCHANGED <<content, leftover, cancelled, reply, raced, prepared>>
      /\ UNCHANGED <<channel, queue, actor>>
  BY DEF Pub!CancelBeforeQueue, Pub!store, Pub!lanes, Pub!history
<1>2. /\ caller'[c] = Pub!Away /\ caller'[c].env.art = 0 /\ caller'[c].at = "Idle"
      /\ \A d \in Callers \ {c} : caller'[d] = caller[d]
  BY EnvelopeTyped DEF PubInv, PubTyped, Pub!CancelBeforeQueue
<1>3. a # 0
  BY <1>1, CallerIs DEF PubInv, Sound
<1>4. /\ reply[a] = "none" /\ \A d \in Pub!Underway : d.art # a
      /\ \A d \in Callers \ {c} : caller[d].env.art # a
      /\ a \notin leftover
  BY <1>1, <1>3 DEF PubInv, Owned, Unsent, OneOwner, LeftoversIdle
<1>5. Apart' /\ Pub!Underway' = Pub!Underway
  BY <1>1, LanesStand DEF PubInv
<1> HIDE DEF a
<1>6. \A d \in Callers : caller'[d].env.art # 0 => d # c /\ caller'[d] = caller[d]
  BY <1>2
<1>7. TextsKnown'
  BY <1>1, <1>5, <1>6, TextsStand DEF PubInv
<1>8. 0 \notin Pub!Artifacts
  BY PublicationAssumption DEF Pub!Artifacts, PublicationAssumption
<1>9. ReadersFind' /\ OneOwner'
  BY <1>1, <1>4, <1>5, <1>6 DEF PubInv, Owned, ReadersFind, OneOwner
<1>10. LeftoversIdle' /\ MarksMatter'
  <2>1. 0 \notin leftover /\ 0 \notin cancelled
    BY <1>8 DEF PubInv, PubTyped
  <2>2. \A d \in Callers : caller'[d].env.art = caller[d].env.art \/ caller'[d].env.art = 0
    BY <1>2
  <2>. QED  BY <1>1, <1>4, <1>5, <2>1, <2>2 DEF PubInv, Owned, LeftoversIdle, MarksMatter
<1>11. Accounted'
  <2>1. \A d \in Callers : caller[d].env.art # a => caller'[d] = caller[d]
    BY <1>2 DEF a
  <2>. QED  BY <1>1, <1>5, <2>1 DEF PubInv, Owned, Accounted
<1>12. \A d \in Callers : caller'[d].at # "Idle" => d # c /\ caller'[d] = caller[d]
  BY <1>2
<1>13. Unsent' /\ Sent'
  BY <1>1, <1>4, <1>5, <1>12 DEF PubInv, Owned, Unsent, Sent, Waits
<1>14. \A d \in Callers : Waits(d) => Waits(d)' /\ caller'[d] = caller[d]
  BY <1>1, <1>2 DEF Waits
<1>15. AnswersMatter' /\ Awaited'
  BY <1>1, <1>5, <1>14 DEF PubInv, Owned, AnswersMatter, Awaited
<1>. QED  BY <1>5, <1>7, <1>9, <1>10, <1>11, <1>13, <1>15 DEF PubInv, Owned

(* A caller hears its answer: nothing is left of it, or the core's artifact    *)
(* for the substring.                                                         *)
LEMMA ReceiveOwned ==
  ASSUME PubInv, NEW c \in Callers, Pub!Receive(c)
  PROVE  PubInv'
<1> DEFINE e == caller[c].env
           applied == reply[e.art] = "applied" /\ e.kind = "Core"
<1>1. PICK r \in CallerStates :
        /\ caller' = [caller EXCEPT ![c] = r]
        /\ IF applied THEN r.at = "Detach" /\ Detached(e, r.env) ELSE r = Pub!Away
  BY ReceiveTyped DEF PubInv
<1>2. caller'[c] = r /\ \A d \in Callers \ {c} : caller'[d] = caller[d]
  BY <1>1 DEF PubInv, PubTyped
<1>3. /\ caller[c].at = "Waiting" /\ reply[e.art] # "none"
      /\ reply' = [reply EXCEPT ![e.art] = "none"]
      /\ UNCHANGED <<content, staged, leftover, cancelled, raced, prepared>>
      /\ UNCHANGED <<channel, queue, actor>>
  BY DEF Pub!Receive, Pub!store, Pub!lanes, Pub!history
<1>4. e.art # 0 /\ e.art \in Pub!Artifacts
  BY <1>3, CallerIs DEF PubInv, Sound
<1>5. /\ e.art \notin cancelled /\ \A d \in Pub!Underway : d.art # e.art
      /\ e.art \in staged <=> applied
      /\ \A d \in Callers \ {c} : caller[d].env.art # e.art
  BY <1>3, <1>4 DEF PubInv, Owned, Sent, OneOwner, Waits
<1>6. Apart' /\ Pub!Underway' = Pub!Underway
  BY <1>3, LanesStand DEF PubInv
<1>7. reply'[e.art] = "none" /\ \A a \in Pub!Artifacts \ {e.art} : reply'[a] = reply[a]
  BY <1>3, <1>4 DEF PubInv, PubTyped
<1>8. /\ r.env.art = IF applied THEN e.art ELSE 0
      /\ r.at = IF applied THEN "Detach" ELSE "Idle"
      /\ applied => r.env.gen = e.gen /\ r.env.ver = e.ver
  BY <1>1, EnvelopeTyped DEF Detached
<1> HIDE DEF e, applied
<1>9. \A d \in Callers : caller'[d].env.art # 0 => caller'[d].env.art = caller[d].env.art
  BY <1>2, <1>8 DEF e
<1>10. TextsKnown'
  <2>1. \A d \in Callers : caller'[d].env.art # 0 =>
            /\ caller[d].env.art # 0
            /\ caller'[d].env.gen = caller[d].env.gen /\ caller'[d].env.ver = caller[d].env.ver
    BY <1>2, <1>4, <1>8 DEF e
  <2>. QED  BY <1>3, <1>6, <2>1, TextsStand DEF PubInv
<1>11. ReadersFind' /\ OneOwner'
  BY <1>3, <1>6, <1>9 DEF PubInv, Owned, ReadersFind, OneOwner
<1>12. LeftoversIdle' /\ MarksMatter'
  <2>1. 0 \notin leftover /\ 0 \notin cancelled
    BY PublicationAssumption DEF PubInv, PubTyped, Pub!Artifacts, PublicationAssumption
  <2>. QED  BY <1>3, <1>6, <1>9, <2>1 DEF PubInv, Owned, LeftoversIdle, MarksMatter
<1>13. Accounted'
  <2>1. \A a \in staged, d \in Callers : caller[d].env.art = a => caller'[d].env.art = a
    BY <1>2, <1>5, <1>8 DEF e
  <2>. QED  BY <1>3, <1>6, <2>1 DEF PubInv, Owned, Accounted
<1>14. Unsent'
  <2>1. \A d \in Callers : d # c /\ caller[d].at \in {"Prepared", "Staged", "Detach"} =>
            reply'[caller[d].env.art] = reply[caller[d].env.art]
    BY <1>5, <1>7, CallerIs DEF PubInv, Sound
  <2>2. \A d \in Callers : d # c => caller'[d] = caller[d]
    BY <1>2
  <2>3. CASE applied
    BY <1>2, <1>3, <1>5, <1>6, <1>7, <1>8, <2>1, <2>2, <2>3 DEF PubInv, Owned, Unsent
  <2>4. CASE ~applied
    BY <1>2, <1>3, <1>6, <1>8, <2>1, <2>2, <2>4 DEF PubInv, Owned, Unsent
  <2>. QED  BY <2>3, <2>4
<1>15. Sent'
  <2>1. \A d \in Callers : Waits(d)' => d # c /\ Waits(d) /\ caller'[d] = caller[d]
    BY <1>2, <1>8 DEF Waits
  <2>2. \A d \in Callers : d # c /\ Waits(d) => reply'[caller[d].env.art] = reply[caller[d].env.art]
    BY <1>5, <1>7, CallerIs DEF PubInv, Sound, Waits
  <2>. QED  BY <1>3, <1>6, <2>1, <2>2 DEF PubInv, Owned, Sent
<1>16. \A d \in Callers : d # c /\ Waits(d) => Waits(d)' /\ caller'[d] = caller[d]
  BY <1>2 DEF Waits
<1>17. AnswersMatter'
  BY <1>7, <1>16 DEF PubInv, Owned, AnswersMatter, e
<1>18. Awaited'
  BY <1>3, <1>5, <1>6, <1>16 DEF PubInv, Owned, Awaited, e
<1>. QED  BY <1>6, <1>10, <1>11, <1>12, <1>13, <1>14, <1>15, <1>17, <1>18, ReceiveTyped
          DEF PubInv, Owned

LEMMA SendDetachedOwned ==
  ASSUME PubInv, PubTyped', NEW c \in Callers, Pub!SendDetached(c)
  PROVE  PubInv'
<1> DEFINE e == caller[c].env
<1>1. /\ caller[c].at = "Detach" /\ channel' = Append(channel, e)
      /\ UNCHANGED <<content, staged, leftover, cancelled, reply, raced, prepared>>
      /\ queue' = queue /\ actor' = actor
  BY DEF Pub!SendDetached, Pub!store, Pub!history
<1>2. /\ caller'[c].at = "Idle" /\ caller'[c].env.art = 0
      /\ \A d \in Callers \ {c} : caller'[d] = caller[d]
  BY EnvelopeTyped DEF PubInv, PubTyped, Pub!SendDetached
<1>3. e.art # 0 /\ e \in Pub!Envelopes /\ e.detached /\ e.kind = "Substring"
  BY <1>1, CallerIs DEF PubInv, Sound
<1>4. /\ e.art \in staged /\ e.art \notin cancelled /\ e.art \notin leftover
      /\ \A d \in Pub!Underway : d.art # e.art
      /\ \A d \in Callers \ {c} : caller[d].env.art # e.art
  BY <1>1, <1>3 DEF PubInv, Owned, Unsent, LeftoversIdle, OneOwner
<1>5. Apart' /\ Pub!Underway' = Pub!Underway \cup {e}
  BY <1>1, <1>3, <1>4, SentKeeps DEF PubInv
<1>6. \A d \in Callers : caller'[d].env.art # 0 => d # c /\ caller'[d] = caller[d]
  BY <1>2
<1>7. TextsKnown'
  BY <1>1, <1>3, <1>5, <1>6, TextsStand DEF PubInv
<1> HIDE DEF e
<1>8. ReadersFind' /\ OneOwner'
  BY <1>1, <1>3, <1>4, <1>5, <1>6 DEF PubInv, Owned, ReadersFind, OneOwner
<1>9. LeftoversIdle' /\ MarksMatter'
  <2>1. 0 \notin leftover /\ 0 \notin cancelled
    BY PublicationAssumption DEF PubInv, PubTyped, Pub!Artifacts, PublicationAssumption
  <2>2. \A d \in Callers : caller'[d].env.art = caller[d].env.art \/ caller'[d].env.art = 0
    BY <1>2
  <2>. QED  BY <1>1, <1>4, <1>5, <2>1, <2>2 DEF PubInv, Owned, LeftoversIdle, MarksMatter
<1>10. Accounted'
  <2>1. \A d \in Callers : caller[d].env.art # e.art => caller'[d] = caller[d]
    BY <1>2 DEF e
  <2>. QED  BY <1>1, <1>5, <2>1 DEF PubInv, Owned, Accounted
<1>11. \A d \in Callers : caller'[d].at # "Idle" => d # c /\ caller'[d] = caller[d]
  BY <1>2
<1>12. Unsent' /\ Sent'
  BY <1>1, <1>4, <1>5, <1>11 DEF PubInv, Owned, Unsent, Sent, Waits
<1>13. \A d \in Callers : Waits(d) => Waits(d)' /\ caller'[d] = caller[d]
  BY <1>1, <1>2 DEF Waits
<1>14. AnswersMatter' /\ Awaited'
  BY <1>1, <1>3, <1>5, <1>13 DEF PubInv, Owned, AnswersMatter, Awaited
<1>. QED  BY <1>5, <1>7, <1>8, <1>9, <1>10, <1>12, <1>14 DEF PubInv, Owned

LEMMA SeeNotStartedOwned ==
  ASSUME PubInv, PubTyped', NEW c \in Callers, Pub!SeeNotStarted(c)
  PROVE  PubInv'
<1>1. /\ caller[c].at = "Waiting"
      /\ UNCHANGED <<content, staged, leftover, cancelled, reply, raced, prepared>>
      /\ UNCHANGED <<channel, queue, actor>>
  BY DEF Pub!SeeNotStarted, Pub!store, Pub!lanes, Pub!history
<1>2. /\ caller'[c].at = "Leaving" /\ caller'[c].env = caller[c].env
      /\ \A d \in Callers \ {c} : caller'[d] = caller[d]
  BY <1>1, GoesTyped DEF PubInv, Pub!SeeNotStarted
<1>3. Apart' /\ Pub!Underway' = Pub!Underway
  BY <1>1, LanesStand DEF PubInv
<1>4. \A d \in Callers : caller'[d].env = caller[d].env
  BY <1>2
<1>5. \A d \in Callers : Waits(d)' <=> Waits(d)
  BY <1>1, <1>2 DEF Waits
<1>6. TextsKnown'
  BY <1>1, <1>3, <1>4, TextsStand DEF PubInv
<1>7. ReadersFind' /\ LeftoversIdle' /\ MarksMatter' /\ OneOwner' /\ Accounted'
  BY <1>1, <1>3, <1>4
     DEF PubInv, Owned, ReadersFind, LeftoversIdle, MarksMatter, OneOwner, Accounted
<1>8. Unsent'
  <2>1. \A d \in Callers : caller'[d].at \in {"Prepared", "Staged", "Detach"} => caller'[d] = caller[d]
    BY <1>2
  <2>. QED  BY <1>1, <1>3, <2>1 DEF PubInv, Owned, Unsent
<1>9. Sent' /\ AnswersMatter' /\ Awaited'
  BY <1>1, <1>3, <1>4, <1>5 DEF PubInv, Owned, Sent, AnswersMatter, Awaited
<1>. QED  BY <1>3, <1>6, <1>7, <1>8, <1>9 DEF PubInv, Owned

(* A caller that leaves marks what is still on its way; a core that was        *)
(* applied meanwhile stays behind.                                            *)
LEMMA LeaveOwned ==
  ASSUME PubInv, PubTyped', NEW c \in Callers, Pub!Leave(c)
  PROVE  PubInv'
<1> DEFINE e == caller[c].env
           answered == reply[e.art] # "none"
<1>1. /\ caller[c].at = "Leaving"
      /\ cancelled' = (IF answered THEN cancelled ELSE cancelled \cup {e.art})
      /\ raced' = (IF reply[e.art] = "applied" /\ e.kind = "Core" THEN raced \cup {e.art} ELSE raced)
      /\ reply' = [reply EXCEPT ![e.art] = "none"]
      /\ UNCHANGED <<content, staged, leftover, prepared>> /\ UNCHANGED <<channel, queue, actor>>
  BY DEF Pub!Leave, Pub!store, Pub!lanes
<1>2. /\ caller'[c].at = "Idle" /\ caller'[c].env.art = 0
      /\ \A d \in Callers \ {c} : caller'[d] = caller[d]
  BY EnvelopeTyped DEF PubInv, PubTyped, Pub!Leave
<1>3. e.art # 0 /\ e.art \in Pub!Artifacts
  BY <1>1, CallerIs DEF PubInv, Sound
<1>4. /\ ~answered => e \in Pub!Underway
      /\ answered => /\ \A d \in Pub!Underway : d.art # e.art
                     /\ e.art \in staged => reply[e.art] = "applied" /\ e.kind = "Core"
      /\ \A d \in Callers \ {c} : caller[d].env.art # e.art
  BY <1>1, <1>3 DEF PubInv, Owned, Sent, OneOwner, Waits
<1>5. Apart' /\ Pub!Underway' = Pub!Underway
  BY <1>1, LanesStand DEF PubInv
<1>6. reply'[e.art] = "none" /\ \A a \in Pub!Artifacts \ {e.art} : reply'[a] = reply[a]
  BY <1>1, <1>3 DEF PubInv, PubTyped
<1> HIDE DEF e, answered
<1>7. \A d \in Callers : caller'[d].env.art # 0 => d # c /\ caller'[d] = caller[d]
  BY <1>2
<1>8. TextsKnown'
  BY <1>1, <1>5, <1>7, TextsStand DEF PubInv
<1>9. ReadersFind' /\ OneOwner'
  BY <1>1, <1>5, <1>7 DEF PubInv, Owned, ReadersFind, OneOwner
<1>10. 0 \notin leftover /\ 0 \notin cancelled
  BY PublicationAssumption DEF PubInv, PubTyped, Pub!Artifacts, PublicationAssumption
<1>11. \A d \in Callers : caller'[d].env.art = caller[d].env.art \/ caller'[d].env.art = 0
  BY <1>2
<1>12. LeftoversIdle'
  BY <1>1, <1>5, <1>10, <1>11 DEF PubInv, Owned, LeftoversIdle
<1>13. MarksMatter'
  <2>1. \A a \in cancelled' : a \in cancelled \/ (a = e.art /\ ~answered)
    BY <1>1
  <2>2. \A d \in Callers : caller'[d].env.art # e.art
    BY <1>2, <1>3, <1>4
  <2>. QED  BY <1>4, <1>5, <1>10, <1>11, <2>1, <2>2 DEF PubInv, Owned, MarksMatter
<1>14. Accounted'
  <2>1. \A d \in Callers : caller[d].env.art # e.art => caller'[d] = caller[d]
    BY <1>2 DEF e
  <2>2. e.art \in staged => e.art \in raced' \/ e \in Pub!Underway
    BY <1>1, <1>4
  <2>3. raced \subseteq raced'
    BY <1>1
  <2>4. ASSUME NEW a \in staged
        PROVE  \/ \E d \in Callers : caller'[d].env.art = a
               \/ \E d \in Pub!Underway : d.art = a
               \/ a \in leftover \cup raced'
    <3>1. CASE a = e.art
      BY <2>2, <3>1
    <3>2. CASE a # e.art
      BY <2>1, <2>3, <3>2 DEF PubInv, Owned, Accounted, e
    <3>. QED  BY <3>1, <3>2
  <2>5. staged' = staged /\ leftover' = leftover
    BY <1>1
  <2>. QED  BY <1>5, <2>4, <2>5 DEF Accounted
<1>15. \A d \in Callers : caller'[d].at # "Idle" => d # c /\ caller'[d] = caller[d]
  BY <1>2
<1>16. \A d \in Callers : d # c /\ caller[d].env.art # 0 =>
          /\ reply'[caller[d].env.art] = reply[caller[d].env.art]
          /\ caller[d].env.art \in cancelled' <=> caller[d].env.art \in cancelled
  BY <1>1, <1>4, <1>6, CallerIs DEF PubInv
<1>17. Unsent'
  <2>1. \A d \in Callers : caller[d].at \in {"Prepared", "Staged", "Detach"} => caller[d].env.art # 0
    BY CallerIs DEF PubInv, Sound
  <2>. QED  BY <1>1, <1>5, <1>15, <1>16, <2>1 DEF PubInv, Owned, Unsent
<1>18. Sent'
  <2>1. \A d \in Callers : Waits(d) => caller[d].env.art # 0
    BY CallerIs DEF PubInv, Sound, Waits
  <2>2. \A d \in Callers : Waits(d)' => d # c /\ Waits(d) /\ caller'[d] = caller[d]
    BY <1>15 DEF Waits
  <2>. QED  BY <1>1, <1>5, <1>16, <2>1, <2>2 DEF PubInv, Owned, Sent
<1>19. \A d \in Callers : d # c /\ Waits(d) => Waits(d)' /\ caller'[d] = caller[d]
  BY <1>2 DEF Waits
<1>20. AnswersMatter'
  BY <1>6, <1>19 DEF PubInv, Owned, AnswersMatter, e
<1>21. Awaited'
  <2>1. \A d \in Pub!Underway : d.art # e.art => (d.art \in cancelled' <=> d.art \in cancelled)
    BY <1>1
  <2>2. \A d \in Pub!Underway : d.art = e.art => d.art \in cancelled'
    BY <1>1, <1>4
  <2>. QED  BY <1>5, <1>19, <2>1, <2>2 DEF PubInv, Owned, Awaited, e
<1>. QED  BY <1>5, <1>8, <1>9, <1>12, <1>13, <1>14, <1>17, <1>18, <1>20, <1>21 DEF PubInv, Owned

-----------------------------------------------------------------------------
(* The queue only hands on. *)
LEMMA HandedOn ==
  ASSUME PubInv, PubTyped', Apart', Pub!Underway' = Pub!Underway,
         UNCHANGED <<content, staged, leftover, caller, cancelled, reply, raced, prepared>>
  PROVE  PubInv'
<1>1. TextsKnown'
  BY DEF PubInv, TextsKnown, OfItsText
<1>2. ReadersFind' /\ Unsent' /\ Sent' /\ OneOwner' /\ MarksMatter' /\ AnswersMatter'
      /\ Awaited' /\ LeftoversIdle' /\ Accounted'
  BY DEF PubInv, Owned, ReadersFind, Unsent, Sent, OneOwner, MarksMatter, AnswersMatter, Awaited,
     LeftoversIdle, Accounted, Waits
<1>. QED  BY <1>1, <1>2 DEF PubInv, Owned

LEMMA QueueOwned ==
  ASSUME PubInv,
         \/ Pub!Ingest \/ Pub!SeeNotCancelled
         \/ Pub!PopBackground \/ Pub!PopForeground \/ Pub!PopIdle \/ Pub!PopMaintenance
  PROVE  PubInv'
<1>1. CASE Pub!Ingest
  <2>1. PubTyped'
    BY <1>1, IngestTyped DEF PubInv
  <2>2. Apart' /\ Pub!Underway' = Pub!Underway
    BY <1>1, <2>1, IngestKeeps DEF PubInv
  <2>. QED  BY <1>1, <2>1, <2>2, HandedOn DEF Pub!Ingest, Pub!store, Pub!history
<1>2. CASE Pub!SeeNotCancelled
  <2>1. /\ actor' \in [at : {"Drain", "Yielding", "Started"}, env : Envs]
        /\ actor'.at = "Started" /\ actor'.env = actor.env /\ actor.at # "Drain"
    BY <1>2 DEF Pub!SeeNotCancelled, PubInv, PubTyped
  <2>2. PubTyped'
    BY <1>2, <2>1 DEF Pub!SeeNotCancelled, PubInv, PubTyped, Pub!files, Pub!store, Pub!lanes,
       Pub!history
  <2>3. Apart' /\ Pub!Underway' = Pub!Underway
    BY <1>2, <2>1 DEF Pub!SeeNotCancelled, Pub!lanes, PubInv, Apart, Distinct, Pub!Underway,
       Pub!Elements
  <2>. QED  BY <1>2, <2>2, <2>3, HandedOn DEF Pub!SeeNotCancelled, Pub!store, Pub!history
<1>3. CASE Pub!PopBackground \/ Pub!PopForeground \/ Pub!PopIdle \/ Pub!PopMaintenance
  <2>1. PICK i \in DOMAIN queue, b \in 0..BurstLimit : Pub!Take(i, b)
    BY <1>3, PopsTake DEF PubInv
  <2>2. PubTyped'
    BY <2>1, TakeTyped DEF PubInv
  <2>3. Apart' /\ Pub!Underway' = Pub!Underway
    BY <2>1, <2>2, TakeKeeps DEF PubInv
  <2>. QED  BY <2>1, <2>2, <2>3, HandedOn DEF Pub!Take, Pub!store, Pub!history
<1>. QED  BY <1>1, <1>2, <1>3

(* The actor is done with an envelope: its artifact is gone, or a core's, and  *)
(* its answer is with the caller that waits for it.                           *)
LEMMA DoneOwned ==
  ASSUME PubInv, PubTyped', TextsKnown', actor.at # "Drain", actor' = Pub!Drain,
         UNCHANGED <<leftover, caller, channel, queue>>,
         NEW outcome \in {"applied", "failed"},
         NEW keep \in BOOLEAN, keep => outcome = "applied" /\ actor.env.kind = "Core",
         ~keep /\ outcome = "applied" => actor.env.kind # "Core",
         staged' = IF keep THEN staged ELSE staged \ {actor.env.art},
         raced' = IF keep /\ Pub!Left(actor.env) THEN raced \cup {actor.env.art} ELSE raced,
         cancelled' = cancelled \ {actor.env.art},
         reply' = IF actor.env.detached \/ Pub!Left(actor.env) THEN reply
                  ELSE [reply EXCEPT ![actor.env.art] = outcome]
  PROVE  PubInv'
<1> DEFINE e == actor.env
           U == Pub!Underway
           silent == e.detached \/ e.art \in cancelled
<1>1. /\ Apart' /\ Pub!Underway' = U \ {e} /\ e \in U
      /\ \A d \in Pub!Underway' : d.art # e.art
  BY DoneKeeps DEF PubInv
<1>2. /\ \A d \in U : d.art = e.art => d = e
      /\ e \in Pub!Envelopes /\ e.art \in Pub!Artifacts /\ e.art # 0
      /\ e.art \in staged
      /\ e.detached => e.kind = "Substring"
  BY <1>1, UnderwayOnce, UnderwayTyped, EnvelopeTyped DEF PubInv, Owned, ReadersFind, Pub!Envelopes
<1>3. /\ staged' = (IF keep THEN staged ELSE staged \ {e.art})
      /\ raced' = (IF keep /\ e.art \in cancelled THEN raced \cup {e.art} ELSE raced)
      /\ cancelled' = cancelled \ {e.art}
      /\ reply' = (IF silent THEN reply ELSE [reply EXCEPT ![e.art] = outcome])
      /\ keep => outcome = "applied" /\ e.kind = "Core"
      /\ ~keep /\ outcome = "applied" => e.kind # "Core"
  BY DEF Pub!Left
<1> HIDE DEF e, U
<1>4. /\ \A a \in Pub!Artifacts \ {e.art} : reply'[a] = reply[a]
      /\ ~silent => reply'[e.art] = outcome
      /\ silent => reply' = reply
  <2>1. CASE silent
    BY <1>3, <2>1
  <2>2. CASE ~silent
    <3>1. reply' = [reply EXCEPT ![e.art] = outcome]
      BY <1>3, <2>2
    <3>2. DOMAIN reply = Pub!Artifacts
      BY DEF PubInv, PubTyped
    <3>. QED  BY <1>2, <2>2, <3>1, <3>2
  <2>. QED  BY <2>1, <2>2
<1>5. ReadersFind'
  BY <1>1, <1>3 DEF PubInv, Owned, ReadersFind, U
<1>6. OneOwner'
  BY DEF PubInv, Owned, OneOwner
<1>7. LeftoversIdle'
  BY <1>1, <1>3 DEF PubInv, Owned, LeftoversIdle, U
<1>8. MarksMatter'
  BY <1>1, <1>3 DEF PubInv, Owned, MarksMatter, U
<1>9. \A c \in Callers : caller[c].env.art = e.art => Waits(c) /\ reply[e.art] = "none"
  <2>1. SUFFICES ASSUME NEW c \in Callers, caller[c].env.art = e.art
                 PROVE  Waits(c) /\ reply[e.art] = "none"
    OBVIOUS
  <2>2. caller[c].at \in {"Prepared", "Staged", "Waiting", "Leaving", "Detach"}
    BY <1>2, <2>1, CallerIs DEF PubInv, Sound, CallerStates
  <2>. QED  BY <1>1, <2>1, <2>2 DEF PubInv, Owned, Unsent, Sent, Waits, U
<1>10. ~silent => \E c \in Callers : Waits(c) /\ caller[c].env = e
  BY <1>1 DEF PubInv, Owned, Awaited, U
<1>11. silent => \A c \in Callers : caller[c].env.art # e.art
  <2>1. CASE e.art \in cancelled
    BY <2>1 DEF PubInv, Owned, MarksMatter
  <2>2. CASE e.detached
    <3>1. SUFFICES ASSUME NEW c \in Callers, caller[c].env.art = e.art PROVE FALSE
      OBVIOUS
    <3>2. Waits(c) /\ reply[e.art] = "none"
      BY <1>9, <3>1
    <3>3. caller[c].env = e
      BY <1>2, <3>1, <3>2 DEF PubInv, Owned, Sent, U
    <3>. QED  BY <2>2, <3>2, <3>3, CallerIs DEF PubInv, Sound, Waits
  <2>. QED  BY <2>1, <2>2
<1>12. Accounted'
  <2>1. \A a \in staged' : a = e.art => keep
    BY <1>3
  <2>2. keep => e.art \in raced' \/ \E c \in Callers : caller[c].env.art = e.art
    BY <1>2, <1>3, <1>10
  <2>3. raced \subseteq raced' /\ staged' \subseteq staged
    BY <1>3
  <2>4. \A d \in U : d.art # e.art => d \in Pub!Underway'
    BY <1>1
  <2>. QED  BY <2>1, <2>2, <2>3, <2>4 DEF PubInv, Owned, Accounted, U
<1>13. Unsent'
  <2>1. \A c \in Callers : caller[c].at \in {"Prepared", "Staged", "Detach"} =>
            caller[c].env.art # e.art /\ caller[c].env.art \in Pub!Artifacts
    BY <1>9, CallerIs DEF PubInv, Sound, Waits
  <2>. QED  BY <1>1, <1>3, <1>4, <2>1 DEF PubInv, Owned, Unsent, U
<1>14. Sent'
  <2>1. SUFFICES ASSUME NEW c \in Callers, Waits(c)
                 PROVE  LET f == caller[c].env IN
                        /\ f.art \notin cancelled'
                        /\ reply'[f.art] = "none" => f \in Pub!Underway'
                        /\ reply'[f.art] # "none" =>
                             /\ \A d \in Pub!Underway' : d.art # f.art
                             /\ f.art \in staged' <=> reply'[f.art] = "applied" /\ f.kind = "Core"
    BY DEF Sent, Waits
  <2> DEFINE f == caller[c].env
  <2>2. f.art \in Pub!Artifacts
    BY <2>1, CallerIs DEF PubInv, Sound, Waits
  <2>3. CASE f.art # e.art
    <3>1. reply'[f.art] = reply[f.art] /\ (f.art \in staged' <=> f.art \in staged)
      BY <1>3, <1>4, <2>2, <2>3
    <3>. QED  BY <1>1, <1>3, <2>1, <2>3, <3>1 DEF PubInv, Owned, Sent, U
  <2>4. CASE f.art = e.art
    <3>1. ~silent /\ reply'[f.art] = outcome
      BY <1>4, <1>11, <2>4
    <3>2. f = e
      BY <1>2, <1>9, <2>1, <2>4 DEF PubInv, Owned, Sent, U
    <3>3. f.art \in staged' <=> keep
      BY <1>2, <1>3, <3>2
    <3>. QED  BY <1>1, <1>3, <3>1, <3>2, <3>3
  <2>. QED  BY <2>3, <2>4
<1>15. AnswersMatter'
  <2>1. \A a \in Pub!Artifacts : reply'[a] # "none" => reply[a] # "none" \/ (a = e.art /\ ~silent)
    BY <1>4
  <2>. QED  BY <1>10, <2>1 DEF PubInv, Owned, AnswersMatter, Waits
<1>16. Awaited'
  BY <1>1, <1>3 DEF PubInv, Owned, Awaited, Waits, U
<1>. QED  BY <1>1, <1>5, <1>6, <1>7, <1>8, <1>12, <1>13, <1>14, <1>15, <1>16 DEF PubInv, Owned

(* What the actor writes is of a text it was prepared from. *)
LEMMA ActorOwned ==
  ASSUME PubInv, Pub!DropCancelled \/ Pub!Publish \/ Pub!FailPublication
  PROVE  PubInv'
<1>1. actor.at # "Drain" /\ UNCHANGED <<leftover, caller, channel, queue, prepared>>
      /\ actor' = Pub!Drain
  BY DEF Pub!DropCancelled, Pub!Publish, Pub!FailPublication, Pub!Answer, Pub!lanes, Pub!history
<1>2. \A e \in Pub!Underway' : e \in Pub!Underway
  BY <1>1, DoneKeeps DEF PubInv
<1>3. actor.env \in Pub!Underway
  BY <1>1, DoneKeeps DEF PubInv
<1>4. content' = content => TextsKnown'
  BY <1>1, <1>2, TextsStand DEF PubInv
<1>5. CASE Pub!DropCancelled
  <2>1. /\ UNCHANGED <<disk, catalog, content, layer, leftover, recovered, caller, reply, channel,
                       queue, burst, raced, prepared>>
        /\ staged' = staged \ {actor.env.art} /\ cancelled' = cancelled \ {actor.env.art}
        /\ actor' = Pub!Drain /\ Pub!Left(actor.env)
    BY <1>5 DEF Pub!DropCancelled, Pub!files, Pub!store, Pub!lanes, Pub!history
  <2>2. /\ actor' \in [at : {"Drain", "Yielding", "Started"}, env : Envs]
        /\ actor'.at = "Drain" /\ actor'.env.art = 0
    BY <2>1, EnvelopeTyped DEF Pub!Drain
  <2>3. PubTyped'
    BY <2>1, <2>2 DEF PubInv, PubTyped
  <2>. QED  BY <1>1, <1>4, <2>1, <2>3, DoneOwned
<1>6. CASE Pub!FailPublication
  <2>1. Pub!Answer(actor.env, "failed", FALSE) /\ content' = content /\ layer' = layer
    BY <1>6 DEF Pub!FailPublication, Pub!store
  <2>2. PubTyped'
    BY <1>1, <2>1, AnswerTyped DEF PubInv, PubTyped
  <2>. QED  BY <1>1, <1>4, <2>1, <2>2, DoneOwned DEF Pub!Answer
<1>7. CASE Pub!Publish
  <2> DEFINE e == actor.env
             keep == e.kind = "Core"
  <2>1. /\ Pub!Answer(e, "applied", keep) /\ Pub!WriteLayers(e) /\ actor.at = "Started"
    BY <1>7 DEF Pub!Publish
  <2>2. PubTyped'
    BY <1>1, <2>1, AnswerTyped, WriteTyped DEF PubInv
  <2>3. \/ UNCHANGED content
        \/ content' = Pub!NoContent
        \/ content'.gen = e.gen /\ content'.ver = e.ver /\ content'.sub = "pending"
        \/ /\ content'.gen = content.gen /\ content'.ver = content.ver
           /\ content'.sub = "ready" /\ content'.subGen = e.gen /\ content'.subVer = e.ver
    BY <2>1, WriteTyped DEF PubInv
  <2>4. e.gen # 0 /\ e.ver \in prepared[e.gen]
    BY <1>3 DEF PubInv, TextsKnown, OfItsText
  <2>5. /\ content.gen # 0 => content.ver \in prepared[content.gen]
        /\ content.sub = "ready" => content.subGen # 0 /\ content.subVer \in prepared[content.subGen]
    BY DEF PubInv, TextsKnown
  <2> HIDE DEF e
  <2>6. /\ content'.gen # 0 => content'.ver \in prepared[content'.gen]
        /\ content'.sub = "ready" => content'.subGen # 0 /\ content'.subVer \in prepared[content'.subGen]
    BY <2>3, <2>4, <2>5 DEF Pub!NoContent
  <2>7. TextsKnown'
    BY <1>1, <1>2, <2>6 DEF PubInv, TextsKnown, OfItsText
  <2>. QED  BY <1>1, <2>1, <2>2, <2>7, DoneOwned DEF Pub!Answer, e
<1>. QED  BY <1>5, <1>6, <1>7

(* Nothing in memory outlives the program; what is staged becomes leftover. *)
LEMMA RestartOwned ==
  ASSUME PubInv, Pub!Restart
  PROVE  PubInv'
<1>1. /\ leftover' = staged /\ recovered' = FALSE /\ caller' = [c \in Callers |-> Pub!Away]
      /\ cancelled' = {} /\ reply' = [a \in Pub!Artifacts |-> "none"]
      /\ channel' = <<>> /\ queue' = <<>> /\ burst' = 0 /\ actor' = Pub!Drain
      /\ UNCHANGED <<disk, catalog, content, layer, staged, prepared>>
  BY DEF Pub!Restart, Pub!files, Pub!store
<1>2. \A c \in Callers : caller'[c] = Pub!Away /\ caller'[c].env.art = 0 /\ caller'[c].at = "Idle"
  BY <1>1, EnvelopeTyped
<1>3. actor'.at = "Drain" /\ actor'.env.art = 0
      /\ actor' \in [at : {"Drain", "Yielding", "Started"}, env : Envs]
  BY <1>1, EnvelopeTyped DEF Pub!Drain
<1>4. /\ caller' \in [Callers -> CallerStates] /\ \A c \in Callers : Sound(caller'[c])
      /\ reply' \in [Pub!Artifacts -> {"none", "applied", "failed"}]
  BY <1>1, <1>2, EnvelopeTyped
<1>5. /\ channel' \in Seq(Pub!Envelopes) /\ queue' \in Seq(Pub!Envelopes)
      /\ Len(channel') <= ChannelCapacity /\ Len(queue') <= QueueCapacity
      /\ burst' \in 0..BurstLimit
  BY <1>1, PublicationAssumption DEF PublicationAssumption
<1>6. PubTyped'
  BY <1>1, <1>3, <1>4, <1>5 DEF PubInv, PubTyped
<1>7. Pub!Underway' = {}
  BY <1>1, <1>3 DEF Pub!Underway, Pub!Elements
<1>8. Apart'
  BY <1>1, <1>3 DEF Apart, Distinct
<1>9. TextsKnown'
  BY <1>1, <1>2, <1>7 DEF PubInv, TextsKnown
<1>10. 0 \notin staged
  BY PublicationAssumption DEF PubInv, PubTyped, Pub!Artifacts, PublicationAssumption
<1>11. ReadersFind' /\ OneOwner' /\ MarksMatter' /\ Awaited' /\ LeftoversIdle' /\ Accounted'
  BY <1>1, <1>2, <1>7, <1>10
     DEF ReadersFind, OneOwner, MarksMatter, Awaited, LeftoversIdle, Accounted
<1>12. AnswersMatter' /\ Unsent' /\ Sent'
  BY <1>1, <1>2 DEF AnswersMatter, Unsent, Sent, Waits
<1>. QED  BY <1>6, <1>8, <1>9, <1>11, <1>12 DEF PubInv, Owned

LEMMA PubInitially == Pub!Init => PubInv
<1> SUFFICES ASSUME Pub!Init PROVE PubInv
  OBVIOUS
<1>1. /\ disk = 0 /\ catalog = 1 /\ content = Pub!NoContent /\ layer = [core |-> 0, sub |-> 0]
      /\ staged = {} /\ leftover = {} /\ recovered = FALSE
      /\ caller = [c \in Callers |-> Pub!Away] /\ cancelled = {}
      /\ reply = [a \in Pub!Artifacts |-> "none"]
      /\ channel = <<>> /\ queue = <<>> /\ burst = 0 /\ actor = Pub!Drain
      /\ prepared = [g \in 0..MaxGeneration |-> {}]
  BY DEF Pub!Init
<1>2. \A c \in Callers : caller[c] = Pub!Away /\ caller[c].env.art = 0 /\ caller[c].at = "Idle"
  BY <1>1, EnvelopeTyped
<1>3. actor.at = "Drain" /\ actor.env.art = 0
      /\ actor \in [at : {"Drain", "Yielding", "Started"}, env : Envs]
  BY <1>1, EnvelopeTyped DEF Pub!Drain
<1>4. /\ caller \in [Callers -> CallerStates] /\ \A c \in Callers : Sound(caller[c])
      /\ reply \in [Pub!Artifacts -> {"none", "applied", "failed"}]
  BY <1>1, <1>2, EnvelopeTyped
<1>5. /\ channel \in Seq(Pub!Envelopes) /\ queue \in Seq(Pub!Envelopes)
      /\ Len(channel) <= ChannelCapacity /\ Len(queue) <= QueueCapacity
      /\ burst \in 0..BurstLimit
  BY <1>1, PublicationAssumption DEF PublicationAssumption
<1>6. /\ content.gen = 0 /\ content.sub = "none"
      /\ content \in [gen : 0..MaxGeneration, ver : 0..MaxVersion,
                      sub : {"none", "pending", "ready"},
                      subGen : 0..MaxGeneration, subVer : 0..MaxVersion]
      /\ layer \in [core : 0..MaxGeneration, sub : 0..MaxGeneration]
      /\ disk \in 0..MaxVersion /\ catalog \in 1..MaxGeneration
      /\ prepared \in [0..MaxGeneration -> SUBSET (0..MaxVersion)]
  BY <1>1, PublicationAssumption DEF PublicationAssumption, Pub!NoContent
<1>7. PubTyped
  BY <1>1, <1>3, <1>4, <1>5, <1>6 DEF PubTyped
<1>8. Pub!Underway = {}
  BY <1>1, <1>3 DEF Pub!Underway, Pub!Elements
<1>9. Apart
  BY <1>1, <1>3 DEF Apart, Distinct
<1>10. TextsKnown
  BY <1>2, <1>6, <1>8 DEF TextsKnown
<1>11. ReadersFind /\ OneOwner /\ MarksMatter /\ Awaited /\ LeftoversIdle /\ Accounted
  BY <1>1, <1>2, <1>8 DEF ReadersFind, OneOwner, MarksMatter, Awaited, LeftoversIdle, Accounted
<1>12. AnswersMatter /\ Unsent /\ Sent
  BY <1>1, <1>2 DEF AnswersMatter, Unsent, Sent, Waits
<1>. QED  BY <1>7, <1>9, <1>10, <1>11, <1>12 DEF PubInv, Owned

-----------------------------------------------------------------------------
(* Every step keeps the invariant. *)
LEMMA PubStep == PubInv /\ [Pub!Next]_(Pub!vars) => PubInv'
<1> SUFFICES ASSUME PubInv, [Pub!Next]_(Pub!vars) PROVE PubInv'
  OBVIOUS
<1>1. ASSUME UNCHANGED <<content, staged, leftover, caller, cancelled, reply, raced, prepared>>,
             UNCHANGED <<layer, recovered, channel, queue, burst, actor>>,
             disk' \in 0..MaxVersion, catalog' \in 1..MaxGeneration
      PROVE  PubInv'
  <2>1. PubTyped'
    BY <1>1 DEF PubInv, PubTyped
  <2>2. Apart' /\ Pub!Underway' = Pub!Underway
    BY <1>1, LanesStand DEF PubInv
  <2>. QED  BY <1>1, <2>1, <2>2, HandedOn
<1>2. disk \in 0..MaxVersion /\ catalog \in 1..MaxGeneration
  BY DEF PubInv, PubTyped
<1>3. CASE UNCHANGED Pub!vars
  BY <1>1, <1>2, <1>3 DEF Pub!vars, Pub!files, Pub!store, Pub!lanes, Pub!history
<1>4. CASE Pub!Edit
  <2>1. disk' \in 0..MaxVersion
    BY <1>2, <1>4, PublicationAssumption DEF Pub!Edit, PublicationAssumption
  <2>. QED  BY <1>1, <1>2, <1>4, <2>1 DEF Pub!Edit, Pub!store, Pub!lanes, Pub!history
<1>5. CASE Pub!RefreshCatalog
  <2>1. catalog' \in 1..MaxGeneration
    BY <1>2, <1>5, PublicationAssumption DEF Pub!RefreshCatalog, PublicationAssumption
  <2>. QED  BY <1>1, <1>2, <1>5, <2>1 DEF Pub!RefreshCatalog, Pub!store, Pub!lanes, Pub!history
<1>6. CASE Pub!Restart
  BY <1>6, RestartOwned
<1>7. CASE Pub!ActorStep
  BY <1>7, QueueOwned, ActorOwned DEF Pub!ActorStep
<1>8. ASSUME NEW c \in Callers, Pub!CallerStep(c)
      PROVE  PubInv'
  <2>1. PubTyped'
    BY <1>8, CallerTyped DEF PubInv
  <2>. QED  BY <1>8, <2>1, AskGenerationOwned, PrepareOwned, TakeDescriptorOwned,
               GiveUpOwned, RecoverOwned, SendOwned,
               CancelBeforeQueueOwned, ReceiveOwned, SendDetachedOwned, SeeNotStartedOwned,
               LeaveOwned DEF Pub!CallerStep
<1>. QED  BY <1>3, <1>4, <1>5, <1>6, <1>7, <1>8 DEF Pub!Next

LEMMA PubInvariant == Pub!Spec => []PubInv
BY PubInitially, PubStep, PTL DEF Pub!Spec

(* Type correctness of the publication, its channel and its queue within their *)
(* capacities.                                                                *)
THEOREM PublicationTypeCorrect == Pub!Spec => []PubTyped
<1>1. PubInv => PubTyped
  BY DEF PubInv
<1>. QED  BY <1>1, PubInvariant, PTL

(* publish removes the artifact of what it wrote only when no substring will   *)
(* follow, process_envelope that of a caller that is gone, recovery only what  *)
(* no descriptor names: the actor always finds what it is to write.  What      *)
(* nobody has was left by a restart, by a caller that gave its request up      *)
(* before the descriptor came, or by a cancellation that raced with the start. *)
THEOREM ArtifactsAreKept == Pub!Spec => []StagingIsExact
<1>1. PubInv => StagingIsExact
  <2> SUFFICES ASSUME PubInv PROVE StagingIsExact
    OBVIOUS
  <2>1. \A e \in Pub!Underway : e.art \in staged
    BY DEF PubInv, Owned, ReadersFind
  <2>2. ASSUME NEW a \in staged
        PROVE  a \in Pub!Held \cup leftover \cup raced
    <3>1. CASE \E c \in Callers : caller[c].env.art = a
      BY <3>1 DEF Pub!Held
    <3>2. CASE \E e \in Pub!Underway : e.art = a
      BY <3>2 DEF Pub!Held, Pub!Underway
    <3>. QED  BY <3>1, <3>2 DEF PubInv, Owned, Accounted
  <2>. QED  BY <2>1, <2>2 DEF StagingIsExact, Pub!StagingIsExact
<1>. QED  BY <1>1, PubInvariant, PTL

(* The core of a generation and the substring that is ready for it are of one  *)
(* text, when the generation was prepared from one text only.                 *)
THEOREM TrigramsMatch == Pub!Spec => []TrigramsAreOfTheCore
<1>1. PubInv => TrigramsAreOfTheCore
  <2> SUFFICES ASSUME PubInv PROVE Pub!TrigramsAreOfTheCore
    BY DEF TrigramsAreOfTheCore
  <2> SUFFICES ASSUME content.sub = "ready", content.subGen = content.gen,
                      Cardinality(prepared[content.gen]) = 1
               PROVE  content.subVer = content.ver
    BY DEF Pub!TrigramsAreOfTheCore, Pub!Cardinality, Cardinality
  <2> DEFINE P == prepared[content.gen]
  <2>1. content.subVer \in P /\ content.ver \in P
    BY DEF PubInv, TextsKnown
  <2>2. P \subseteq 0..MaxVersion
    BY DEF PubInv, PubTyped
  <2>3. IsFiniteSet(P)
    <3>1. IsFiniteSet(0..MaxVersion)
      BY PublicationAssumption, FS_Interval DEF PublicationAssumption
    <3>. QED  BY <2>2, <3>1, FS_Subset
  <2>4. Cardinality(P) = 1
    OBVIOUS
  <2> HIDE DEF P
  <2>5. \E x : P = {x}
    BY <2>3, <2>4, FS_Singleton
  <2>. QED  BY <2>1, <2>5
<1>. QED  BY <1>1, PubInvariant, PTL

(* pop_ready gives the lanes before the next maintenance their turns and then  *)
(* the maintenance: what it takes has no maintenance before it, and is the     *)
(* oldest when it is one.                                                     *)
THEOREM BarrierHolds == Pub!Spec => MaintenanceIsABarrier
<1> DEFINE A == \A i \in DOMAIN queue :
          /\ Len(queue') = Len(queue) - 1
          /\ queue' = SubSeq(queue, 1, i - 1) \o SubSeq(queue, i + 1, Len(queue))
          /\ actor'.env = queue[i]
          => \/ queue[i].priority # "Maintenance"
                  /\ \A j \in 1..i - 1 : queue[j].priority # "Maintenance"
             \/ i = 1
<1>1. ASSUME PubInv, [Pub!Next]_(Pub!vars) PROVE A
  <2> SUFFICES ASSUME NEW i \in DOMAIN queue, Len(queue') = Len(queue) - 1, actor'.env = queue[i]
               PROVE  \/ queue[i].priority # "Maintenance"
                           /\ \A j \in 1..i - 1 : queue[j].priority # "Maintenance"
                      \/ i = 1
    OBVIOUS
  <2>1. Len(queue) \in Nat /\ queue[i] \in Pub!Envelopes /\ queue[i].art # 0
    BY <1>1, LanesAre, EnvelopeTyped DEF PubInv
  <2>2. queue' # queue
    BY <2>1
  <2>3. CASE Pub!PopBackground \/ Pub!PopForeground \/ Pub!PopIdle \/ Pub!PopMaintenance
    <3>1. PICK k \in DOMAIN queue, b \in 0..BurstLimit :
            /\ Pub!Take(k, b)
            /\ \/ /\ queue[k].priority # "Maintenance"
                  /\ \A j \in 1..k - 1 : queue[j].priority # "Maintenance"
               \/ k = 1
      BY <1>1, <2>3, PopsTake DEF PubInv
    <3>2. queue[k] = queue[i]
      BY <3>1 DEF Pub!Take
    <3>3. k = i
      BY <1>1, <3>2 DEF PubInv, Apart, Distinct
    <3>. QED  BY <3>1, <3>3
  <2>4. CASE Pub!Restart
    BY <2>1, <2>4, EnvelopeTyped DEF Pub!Restart, Pub!Drain
  <2>5. CASE Pub!Ingest
    <3>1. Len(queue') = Len(queue) + 1
      <4>1. channel # <<>> /\ queue' = Append(queue, Head(channel))
        BY <2>5 DEF Pub!Ingest
      <4>2. Head(channel) \in Pub!Envelopes
        BY <1>1, <4>1, LanesAre, TailIs DEF PubInv
      <4>. QED  BY <1>1, <4>1, <4>2, LanesAre, AppendIs DEF PubInv
    <3>. QED  BY <2>1, <3>1
  <2>6. CASE Pub!Edit \/ Pub!RefreshCatalog \/ UNCHANGED Pub!vars \/ Pub!DropCancelled
               \/ Pub!SeeNotCancelled \/ Pub!Publish \/ Pub!FailPublication
    BY <2>2, <2>6 DEF Pub!Edit, Pub!RefreshCatalog, Pub!vars, Pub!DropCancelled,
       Pub!SeeNotCancelled, Pub!Publish, Pub!FailPublication, Pub!Answer, Pub!lanes
  <2>7. ASSUME NEW c \in Callers, Pub!CallerStep(c) PROVE queue' = queue
    BY <2>7 DEF Pub!CallerStep, Pub!AskGeneration, Pub!Prepare, Pub!TakeDescriptor, Pub!GiveUp,
       Pub!Recover, Pub!Send, Pub!CancelBeforeQueue, Pub!Receive, Pub!SendDetached, Pub!SeeNotStarted, Pub!Leave,
       Pub!lanes
  <2>. QED  BY <1>1, <2>2, <2>3, <2>4, <2>5, <2>6, <2>7 DEF Pub!Next, Pub!ActorStep
<1>2. PubInv /\ [Pub!Next]_(Pub!vars) => [A]_(Pub!vars)
  BY <1>1
<1>3. []PubInv /\ [][Pub!Next]_(Pub!vars) => [][A]_(Pub!vars)
  BY <1>2, PTL
<1>. QED  BY <1>3, PubInvariant, PTL DEF Pub!Spec, MaintenanceIsABarrier, Pub!MaintenanceIsABarrier
=============================================================================
