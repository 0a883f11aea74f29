------------------------------ MODULE Semantic ------------------------------
(***************************************************************************)
(* The semantic host and, beside it, one document on its way from the      *)
(* editor to a worker.  The host carries calls and knows nothing of what   *)
(* they carry; the document's calls take a thread and a session as the     *)
(* host gives them, lose them as it loses them, and have their own state.  *)
(***************************************************************************)
EXTENDS SemanticHost

CONSTANTS Queries, MaxEdits, MaxFaults,  \* as in SemanticDocuments
          DocumentSessions               \* bound: sessions the document sees

ASSUME DocumentAssumption == MaxEdits \in Nat /\ DocumentSessions \in Nat

VARIABLES text, entry, query, closes, calls, active, started, tracker, worker, gone, failures

document == <<text, entry, query, closes, calls, active, started, tracker, worker, gone,
              failures>>

Doc == INSTANCE SemanticDocuments WITH
    MaxSessions <- DocumentSessions, current <- active, made <- started

\* A query is answered from an older text only where there is no version to
\* compare: from a document that was replayed to a new worker or read from the
\* file, while the queue has not closed the document.
VersionsProtect == Doc!VersionsProtect

\* No sync comes to a worker that has a later version, which would cost the
\* session, while the queue has not closed the document.
SyncsComeInOrder == Doc!SyncsComeInOrder
=============================================================================
