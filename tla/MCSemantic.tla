------------------------------ MODULE MCSemantic ------------------------------
(* TLC instances of the semantic host and of the way of a document to its      *)
(* worker: part says which of them runs, the variables of the others stay      *)
(* initial.  The document comes with faults, or with one more edit.            *)
EXTENDS Semantic

CONSTANT q1

VARIABLE part

OneQuery == {q1}

Faults == INSTANCE SemanticDocuments WITH
    MaxEdits <- 1, MaxSessions <- 2, MaxFaults <- 1, current <- active, made <- started

AllInit ==
    /\ Init
    /\ \/ part \in {"host", "faults"} /\ Faults!Init
       \/ part = "edits" /\ Doc!Init

AllNext ==
    /\ part' = part
    /\ \/ part = "host" /\ Next /\ UNCHANGED document
       \/ part = "faults" /\ Faults!Next /\ UNCHANGED vars
       \/ part = "edits" /\ Doc!Next /\ UNCHANGED vars

AllSpec == AllInit /\ [][AllNext]_<<part, vars, document>>

\* The threads of the host run and deadlines pass; timers fire, calls go on.
AllFairSpec ==
    /\ AllSpec /\ Fairness
    /\ WF_document(part = "faults" /\ Faults!Timer)
    /\ WF_document(part = "faults" /\ Faults!CallGoesOn)
    /\ WF_document(part = "edits" /\ Doc!Timer)
    /\ WF_document(part = "edits" /\ Doc!CallGoesOn)

\* What was edited is published though no further edit follows.
EditsArePublished == Doc!EditsArePublished

\* A query that waits for a version that is yet to be answered is settled.
WaitersAreSettled == Doc!WaitersAreSettled

\* A query that is answered while the queue still has the document it was made of
\* is not answered from an older text.
AnswersAreCurrent == Faults!AnswersAreCurrent
=============================================================================
