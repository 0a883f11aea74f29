---------------------------- MODULE IndexerHost ----------------------------
(* The host of the indexing processes.  Discovery, content and symbols each   *)
(* have a lane with at most one process, which the worker's task takes out of *)
(* the lane for a request and puts back when it may be used again.  A task on *)
(* changed files uses the lanes of content and symbols at once.               *)
(*                                                                            *)
(* A session belongs to the lane or to the call that took it; whoever drops   *)
(* it kills its process.  The host is enabled: with the lanes switched off a  *)
(* task does its work itself.                                                 *)
EXTENDS Naturals

CONSTANTS MaxConsecutiveFailures, \* MAX_CONSECUTIVE_FAILURES
          Chunks                  \* bound: chunks of the paths of a task

VARIABLES lanes,      \* IndexerHostState
          calls,      \* the request of every lane, and the session it holds
          task,       \* what the worker runs, and how it ended
          token,      \* the task is cancelled
          latency,    \* the task is to yield to the user interface
          installed   \* the executable exists

vars == <<lanes, calls, task, token, latency, installed>>

Lanes == {"discovery", "content", "stub"}
Kinds == {"discovery", "content", "stub", "both"}

LanesOf(kind) == IF kind = "both" THEN {"content", "stub"} ELSE {kind}

NoSession == [up |-> FALSE, owes |-> FALSE, open |-> FALSE]
Spawned   == [up |-> TRUE, owes |-> FALSE, open |-> TRUE]

NewLane == [session |-> NoSession, inFlight |-> FALSE, failures |-> 0, backoff |-> FALSE]
NoCall  == [at |-> "none", session |-> NoSession, left |-> 0, outcome |-> "none"]
NoTask  == [kind |-> "none", outcome |-> "none"]

Init ==
    /\ lanes = [l \in Lanes |-> NewLane]
    /\ calls = [l \in Lanes |-> NoCall]
    /\ task = NoTask
    /\ token = FALSE /\ latency = FALSE
    /\ installed \in BOOLEAN

At(l, where) == calls[l].at = where

-----------------------------------------------------------------------------
(* The ends of a request.  The caller drops the session it holds after the    *)
(* lane is free again, unless it was put back.                                *)

Settle(l, session, failures, backoff) ==
    lanes' = [lanes EXCEPT ![l] = [session |-> session, inFlight |-> FALSE,
                                   failures |-> failures, backoff |-> backoff]]

FinishSuccess(l) == Settle(l, calls[l].session, 0, FALSE)

FinishSuperseded(l) == Settle(l, calls[l].session, 0, FALSE)

(* Mutant: as if superseded, the session is kept. *)
FinishCancelledKept(l) == Settle(l, calls[l].session, 0, FALSE)

FinishCancelled(l) == Settle(l, NoSession, 0, FALSE)

(* Mutant: the failure is counted, the lane is not reset. *)
FinishFailureInFlight(l) ==
    lanes' = [lanes EXCEPT ![l].backoff = TRUE,
                           ![l].failures = IF @ < MaxConsecutiveFailures THEN @ + 1 ELSE @]

(* The count is not told apart above the limit, nor the backoff's length.     *)
FinishFailure(l) ==
    Settle(l, NoSession,
           IF lanes[l].failures < MaxConsecutiveFailures THEN lanes[l].failures + 1
           ELSE lanes[l].failures, TRUE)

(* refresh_content_chunks and refresh_stub_chunks: the next chunk, if there is *)
(* one, or the outcome.                                                        *)
Ended(l, outcome) ==
    calls' = [calls EXCEPT ![l] =
        IF outcome = "applied" /\ @.left > 1
        THEN [NoCall EXCEPT !.at = "ask", !.left = calls[l].left - 1]
        ELSE [NoCall EXCEPT !.at = "done", !.outcome = outcome]]

(* A request given up for the user interface is put off, one given up because *)
(* the task is cancelled ends the task.                                       *)
GivenUp == IF latency /\ ~token THEN "deferred" ELSE "cancelled"

-----------------------------------------------------------------------------
(* checkout_session *)

(* should_defer_background before a chunk *)
Defer(l) ==
    /\ At(l, "ask") /\ l # "discovery" /\ latency
    /\ Ended(l, "deferred")
    /\ UNCHANGED <<lanes, task, token, latency, installed>>

Unavailable(l) ==
    /\ At(l, "ask")
    /\ lanes[l].inFlight \/ lanes[l].backoff
    /\ Ended(l, "unavailable")
    /\ UNCHANGED <<lanes, task, token, latency, installed>>

Checkout(l) ==
    /\ At(l, "ask") /\ (latency => l = "discovery")
    /\ ~lanes[l].inFlight /\ ~lanes[l].backoff
    /\ lanes' = [lanes EXCEPT ![l].inFlight = TRUE, ![l].session = NoSession]
    /\ calls' = [calls EXCEPT ![l].at = IF lanes[l].session.open THEN "send" ELSE "launch",
                              ![l].session = lanes[l].session]
    /\ UNCHANGED <<task, token, latency, installed>>

(* IndexerHostSession::start, and the question health asks. *)
Launch(l) ==
    /\ At(l, "launch") /\ installed
    /\ calls' = [calls EXCEPT ![l].at = "health", ![l].session = [Spawned EXCEPT !.owes = TRUE]]
    /\ UNCHANGED <<lanes, task, token, latency, installed>>

LaunchFails(l) ==
    /\ At(l, "launch")
    /\ FinishFailure(l) /\ Ended(l, "unavailable")
    /\ UNCHANGED <<task, token, latency, installed>>

Healthy(l) ==
    /\ At(l, "health") /\ calls[l].session.up
    /\ calls' = [calls EXCEPT ![l].at = "send", ![l].session.owes = FALSE]
    /\ UNCHANGED <<lanes, task, token, latency, installed>>

(* No answer in time, another protocol or a capability missing. *)
Unhealthy(l) ==
    /\ At(l, "health")
    /\ FinishFailure(l) /\ Ended(l, "unavailable")
    /\ UNCHANGED <<task, token, latency, installed>>

-----------------------------------------------------------------------------
(* exchange_cancellable; a discovery is not cancelled. *)

Interrupted(l) == l # "discovery" /\ (token \/ latency)

Send(l) ==
    /\ At(l, "send") /\ ~Interrupted(l) /\ calls[l].session.up
    /\ calls' = [calls EXCEPT ![l].at = "wait", ![l].session.owes = TRUE]
    /\ UNCHANGED <<lanes, task, token, latency, installed>>

SendFails(l) ==
    /\ At(l, "send") /\ ~Interrupted(l) /\ ~calls[l].session.up
    /\ FinishFailure(l) /\ Ended(l, "unavailable")
    /\ UNCHANGED <<task, token, latency, installed>>

Cancel(l) ==
    /\ calls[l].at \in {"send", "wait"} /\ Interrupted(l)
    /\ FinishCancelled(l) /\ Ended(l, GivenUp)
    /\ UNCHANGED <<task, token, latency, installed>>

(* Prepared rows, to be published by this process. *)
Prepared(l) ==
    /\ At(l, "wait") /\ calls[l].session.up
    /\ calls' = [calls EXCEPT ![l].at = "publish", ![l].session.owes = FALSE]
    /\ UNCHANGED <<lanes, task, token, latency, installed>>

(* is_stale_generation_error: the answer that a newer generation is there. *)
StaleAnswer(l) ==
    /\ At(l, "wait") /\ calls[l].session.up
    /\ lanes' = [lanes EXCEPT ![l] = [NewLane EXCEPT !.session = [calls[l].session EXCEPT !.owes = FALSE]]]
    /\ Ended(l, "cancelled")
    /\ UNCHANGED <<task, token, latency, installed>>

(* Another error, an answer that does not fit, none in time or no process. *)
ExchangeFails(l) ==
    /\ At(l, "wait")
    /\ FinishFailure(l) /\ Ended(l, "unavailable")
    /\ UNCHANGED <<task, token, latency, installed>>

-----------------------------------------------------------------------------
(* The writer, which IndexPublication models, and what is made of its answer. *)

Published(l) ==
    /\ At(l, "publish")
    /\ FinishSuccess(l) /\ Ended(l, "applied")
    /\ UNCHANGED <<task, token, latency, installed>>

(* The core of a content chunk is published, its trigrams cannot be queued. *)
DetachedFails(l) ==
    /\ At(l, "publish") /\ l = "content" /\ task.kind = "both"
    /\ FinishFailure(l) /\ Ended(l, "applied")
    /\ UNCHANGED <<task, token, latency, installed>>

(* The task may have yielded while the writer was at it. *)
PublicationStale(l) ==
    /\ At(l, "publish")
    /\ FinishSuperseded(l) /\ \E outcome \in {"cancelled", GivenUp} : Ended(l, outcome)
    /\ UNCHANGED <<task, token, latency, installed>>

PublicationCancelled(l) ==
    /\ At(l, "publish") /\ Interrupted(l)
    /\ FinishCancelled(l) /\ Ended(l, GivenUp)
    /\ UNCHANGED <<task, token, latency, installed>>

PublicationFails(l) ==
    /\ At(l, "publish")
    /\ FinishFailure(l) /\ Ended(l, "unavailable")
    /\ UNCHANGED <<task, token, latency, installed>>

-----------------------------------------------------------------------------
(* The worker's task. *)

Idle == task.kind = "none" \/ task.outcome # "none"

Asking(chunks) == [NoCall EXCEPT !.at = "ask", !.left = chunks]

(* Without an executable the layers are refreshed one after the other. *)
Run ==
    /\ Idle
    /\ \E kind \in Kinds, n \in 1..Chunks :   \* a discovery is one chunk
          /\ task' = [kind |-> kind, outcome |-> "none"]
          /\ calls' = [l \in Lanes |->
                          IF l \notin LanesOf(kind) THEN NoCall
                          ELSE [Asking(IF l = "discovery" THEN 1 ELSE n) EXCEPT
                                   !.at = IF kind = "both" /\ l = "stub" /\ ~installed THEN "next" ELSE @]]
    /\ token' = FALSE /\ latency' = FALSE
    /\ UNCHANGED <<lanes, installed>>

(* The catalog does not have the paths: nobody is asked. *)
RunUnready ==
    /\ Idle
    /\ \E kind \in Kinds \ {"discovery"} :
          /\ task' = [kind |-> kind, outcome |-> "none"]
          /\ calls' = [l \in Lanes |-> IF l \in LanesOf(kind)
                                       THEN [NoCall EXCEPT !.at = "done", !.outcome = "unavailable"]
                                       ELSE NoCall]
    /\ token' = FALSE /\ latency' = FALSE
    /\ UNCHANGED <<lanes, installed>>

(* refresh_sidecar_layers without the parallel scope *)
StubAfterContent ==
    /\ At("stub", "next") /\ At("content", "done")
    /\ IF calls["content"].outcome = "applied"
       THEN calls' = [calls EXCEPT !["stub"].at = "ask"]
       ELSE Ended("stub", "unavailable")
    /\ UNCHANGED <<lanes, task, token, latency, installed>>

ConsecutiveFailures ==
    CHOOSE n \in {lanes[l].failures : l \in Lanes} : \A l \in Lanes : lanes[l].failures <= n

(* terminal_unavailability_message, of degraded_sidecar_update *)
Terminal == ~installed \/ ConsecutiveFailures >= MaxConsecutiveFailures
Degraded == IF Terminal THEN "failed" ELSE "deferred"

Outcomes == {calls[l].outcome : l \in LanesOf(task.kind)}

(* update_background_deep_layer, update_background_deep_layer_phase *)
LayerUpdate ==
    IF "cancelled" \in Outcomes THEN "cancelled"
    ELSE IF "deferred" \in Outcomes THEN "deferred"
    ELSE IF "unavailable" \in Outcomes THEN Degraded
    ELSE "applied"

(* A discovery the process cannot do is done by the program itself. *)
DiscoveryUpdate == IF "cancelled" \in Outcomes THEN "cancelled" ELSE "applied"

Finish ==
    /\ ~Idle /\ \A l \in LanesOf(task.kind) : At(l, "done")
    /\ task' = [task EXCEPT !.outcome = IF task.kind = "discovery" THEN DiscoveryUpdate ELSE LayerUpdate]
    /\ calls' = [l \in Lanes |-> NoCall]
    /\ UNCHANGED <<lanes, token, latency, installed>>

-----------------------------------------------------------------------------
(* Around the worker. *)

CancelTask ==
    /\ ~Idle /\ ~token
    /\ token' = TRUE
    /\ UNCHANGED <<lanes, calls, task, latency, installed>>

(* should_defer_background, of a task of the background only. *)
ChangeSensitivity ==
    /\ ~Idle
    /\ latency' = ~latency
    /\ UNCHANGED <<lanes, calls, task, token, installed>>

(* A process ends by itself, with the lane's session or the call's. *)
Crash(l) ==
    \/ /\ lanes[l].session.up
       /\ lanes' = [lanes EXCEPT ![l].session.up = FALSE]
       /\ UNCHANGED <<calls, task, token, latency, installed>>
    \/ /\ calls[l].session.up
       /\ calls' = [calls EXCEPT ![l].session.up = FALSE]
       /\ UNCHANGED <<lanes, task, token, latency, installed>>

(* The executable is removed, between two tasks. *)
Remove ==
    /\ installed /\ Idle
    /\ installed' = FALSE
    /\ UNCHANGED <<lanes, calls, task, token, latency>>

BackoffEnds(l) ==
    /\ lanes[l].backoff
    /\ lanes' = [lanes EXCEPT ![l].backoff = FALSE]
    /\ UNCHANGED <<calls, task, token, latency, installed>>

Request(l) ==
    \/ Defer(l) \/ Unavailable(l) \/ Checkout(l) \/ Launch(l) \/ LaunchFails(l)
    \/ Healthy(l) \/ Unhealthy(l) \/ Send(l) \/ SendFails(l) \/ Cancel(l)
    \/ Prepared(l) \/ StaleAnswer(l) \/ ExchangeFails(l)
    \/ Published(l) \/ DetachedFails(l) \/ PublicationStale(l) \/ PublicationCancelled(l)
    \/ PublicationFails(l)

Next ==
    \/ \E l \in Lanes : Request(l) \/ Crash(l) \/ BackoffEnds(l)
    \/ Run \/ RunUnready \/ StubAfterContent \/ Finish \/ CancelTask \/ ChangeSensitivity \/ Remove

Spec == Init /\ [][Next]_vars

-----------------------------------------------------------------------------
(* A process in a lane has answered every request: the next request of the    *)
(* lane cannot read the answer to an earlier one that was given up            *)
(* (finish_cancelled, finish_failure, finish_superseded).                     *)
KeptSessionsOweNothing == \A l \in Lanes : lanes[l].session.open => ~lanes[l].session.owes

(* A lane is in flight exactly while a request of the task holds it, whatever *)
(* became of the one before: none is left taken, none is taken twice.         *)
InFlightIsHeld ==
    \A l \in Lanes : lanes[l].inFlight <=> calls[l].at \in {"launch", "health", "send", "wait", "publish"}
=============================================================================
