---------------------------- MODULE SemanticHost ----------------------------
(***************************************************************************)
(* The host of the semantic worker process: the manager that starts,       *)
(* shares and discards sessions, the threads that call it, its watchdog,   *)
(* and in each session the actor that feeds the requests of all threads to *)
(* one worker process, one at a time.                                      *)
(*                                                                         *)
(* Sessions are numbered as they are made.  The queue of an actor, its     *)
(* channel and what it drained from it, is the set of the requests in it:  *)
(* their numbers are their order.  Time is whether the deadline of a       *)
(* request has passed and whether a restart has to wait.  Of a request     *)
(* there is only the method, which decides how it is treated.              *)
(***************************************************************************)
EXTENDS Integers, FiniteSets, FiniteSetsExt

CONSTANTS Interactive,  \* threads whose calls are tried once
          Retrying,     \* threads whose calls are tried again on a new session
          Methods,      \* what they ask for
          Capacity,     \* requests an actor accepts
          MaxSessions,  \* bound: launches that succeed
          MaxCalls      \* bound: calls and probes, without the retries

Watchdog == "watchdog"
Nobody == "nobody"
Threads == Interactive \cup Retrying \cup {Watchdog}
Sessions == 1..MaxSessions
None == 0

ASSUME HostAssumption ==
    /\ Capacity \in Nat \ {0} /\ MaxSessions \in Nat /\ MaxCalls \in Nat
    /\ IsFiniteSet(Interactive) /\ IsFiniteSet(Retrying)
    /\ Interactive \cap Retrying = {}
    /\ Watchdog \notin Interactive \cup Retrying
    /\ Nobody \notin Threads

VARIABLES
    current,   \* the manager's session
    lock,      \* who holds the manager's lock while it starts one
    made,      \* how many sessions were launched
    backoff,   \* a restart has to wait
    pc, work,  \* per thread: where it is, and its call
    held,      \* per thread: the sessions it has a reference to
    actor,     \* per session: its actor's thread
    process,   \* per session: the worker process; a deaf one reads its input no more
    queue,     \* per session: the requests in the actor's channel and backlog
    queued,    \* per session: the counter that admits them
    running,   \* per session: the request the actor is at
    wire,      \* per session: what was written to the worker and whose answer was not read
    asked      \* how many calls and probes were made

manager == <<current, lock, made>>
thread == <<pc, work, held>>
session == <<actor, process, queue, queued, running, wire>>
vars == <<manager, backoff, thread, session, asked>>

\* The queued requests of these methods but the last are not worth executing.
Replaceable == {"completion", "gotoDefinition"}

\* The methods for which nothing is an answer: for others a superseded request failed.
NothingIsAnAnswer == {"completion", "gotoDefinition", "usages"}

NoWork == [method |-> "none", session |-> None, call |-> None, answer |-> "none",
           retried |-> FALSE]
NoRequest == [call |-> None, method |-> "none", late |-> FALSE]

Init ==
    /\ current = None /\ lock = Nobody /\ made = 0
    /\ backoff = FALSE
    /\ pc = [t \in Threads |-> "idle"]
    /\ work = [t \in Threads |-> NoWork]
    /\ held = [t \in Threads |-> {}]
    /\ actor = [s \in Sessions |-> "none"]
    /\ process = [s \in Sessions |-> "none"]
    /\ queue = [s \in Sessions |-> {}]
    /\ queued = [s \in Sessions |-> 0]
    /\ running = [s \in Sessions |-> NoRequest]
    /\ wire = [s \in Sessions |-> {}]
    /\ asked = 0

Goto(t, where) == pc' = [pc EXCEPT ![t] = where]

-----------------------------------------------------------------------------
(* The manager gives a thread its session or starts one. *)

Call(t, m) ==
    /\ t # Watchdog /\ pc[t] = "idle"
    /\ asked < MaxCalls
    /\ asked' = asked + 1
    /\ Goto(t, "acquire")
    /\ work' = [work EXCEPT ![t] = [NoWork EXCEPT !.method = m]]
    /\ UNCHANGED <<manager, backoff, held, session>>

Acquires(t) == pc[t] = "acquire" /\ lock = Nobody

Has(t, s) ==
    /\ held' = [held EXCEPT ![t] = @ \cup {s}]
    /\ work' = [work EXCEPT ![t].session = s]

Reuse(t) ==
    /\ Acquires(t) /\ current # None
    /\ Has(t, current)
    /\ Goto(t, "send")
    /\ UNCHANGED <<manager, backoff, session, asked>>

\* Only a retry does not wait.
Refuse(t) ==
    /\ Acquires(t) /\ current = None
    /\ backoff /\ ~ work[t].retried
    /\ Goto(t, "release")
    /\ UNCHANGED <<manager, backoff, work, held, session, asked>>

MayLaunch(t) == Acquires(t) /\ current = None /\ (work[t].retried \/ ~ backoff)

Launch(t) ==
    /\ MayLaunch(t) /\ made < MaxSessions
    /\ made' = made + 1
    /\ Has(t, made')
    /\ actor' = [actor EXCEPT ![made'] = "serving"]
    /\ process' = [process EXCEPT ![made'] = "up"]
    /\ lock' = t
    /\ backoff' = FALSE
    /\ Goto(t, "starting")
    /\ UNCHANGED <<current, queue, queued, running, wire, asked>>

LaunchFails(t) ==
    /\ MayLaunch(t)
    /\ backoff' = TRUE
    /\ Goto(t, "release")
    /\ UNCHANGED <<manager, work, held, session, asked>>

\* It answered for its health and took the documents it was given.
Started(t) ==
    /\ pc[t] = "starting"
    /\ process[work[t].session] = "up"
    /\ current' = work[t].session
    /\ lock' = Nobody
    /\ backoff' = FALSE
    /\ Goto(t, "send")
    /\ UNCHANGED <<made, work, held, session, asked>>

\* It did not, or uses too much memory: dropped before the lock is.  Whoever drops
\* it waits for its actor, with a deaf worker until that ends of itself.
StartFails(t) ==
    /\ pc[t] = "starting"
    /\ LET s == work[t].session IN
       /\ held' = [held EXCEPT ![t] = @ \ {s}]
       /\ actor' = [actor EXCEPT ![s] = "ended"]
       /\ process' = [process EXCEPT ![s] = "gone"]
    /\ lock' = Nobody
    /\ backoff' = TRUE
    /\ Goto(t, "release")
    /\ UNCHANGED <<current, made, work, queue, queued, running, wire, asked>>

-----------------------------------------------------------------------------
(* An exchange: a place is reserved, the request is queued, the answer awaited. *)

Reserve(t) ==
    /\ pc[t] = "send"
    /\ LET s == work[t].session IN
       /\ queued[s] < Capacity
       /\ queued' = [queued EXCEPT ![s] = @ + 1]
    /\ Goto(t, "push")
    /\ UNCHANGED <<manager, backoff, work, held, actor, process, queue, running, wire, asked>>

QueueFull(t) ==
    /\ pc[t] = "send"
    /\ queued[work[t].session] >= Capacity
    /\ work' = [work EXCEPT ![t].answer = "error"]
    /\ Goto(t, "wait")
    /\ UNCHANGED <<manager, backoff, held, session, asked>>

\* Behind all that are queued, executed or with the worker.
Outstanding(s) == queue[s] \cup {running[s]}
NextCall(s) == 1 + Max({r.call : r \in Outstanding(s)} \cup wire[s])

\* try_send: that it finds room and a receiver is what QueueIsCounted and NoOrphans say.
Push(t) ==
    /\ pc[t] = "push"
    /\ LET s == work[t].session
           c == NextCall(s) IN
       /\ queue' = [queue EXCEPT ![s] =
                       @ \cup {[call |-> c, method |-> work[t].method, late |-> FALSE]}]
       /\ work' = [work EXCEPT ![t].call = c]
    /\ Goto(t, "wait")
    /\ UNCHANGED <<manager, backoff, held, actor, process, queued, running, wire, asked>>

\* A deadline passes, of a request that is queued or executed.
Late(r) == [r EXCEPT !.late = TRUE]

Expire(s) ==
    /\ \/ \E r \in queue[s] :
            /\ ~ r.late
            /\ queue' = [queue EXCEPT ![s] = (@ \ {r}) \cup {Late(r)}]
            /\ UNCHANGED running
       \/ /\ running[s] # NoRequest /\ ~ running[s].late
          /\ running' = [running EXCEPT ![s] = Late(@)]
          /\ UNCHANGED queue
    /\ UNCHANGED <<manager, backoff, thread, actor, process, queued, wire, asked>>

\* The grace after the deadline is over as well.
GiveUp(t) ==
    /\ pc[t] = "wait" /\ work[t].answer = "none"
    /\ \E r \in Outstanding(work[t].session) : r.call = work[t].call /\ r.late
    /\ work' = [work EXCEPT ![t].answer = "error"]
    /\ UNCHANGED <<manager, backoff, pc, held, session, asked>>

-----------------------------------------------------------------------------
(* The actor of session s. *)

\* Nobody listens to the answer of a call that was given up.
Deliver(s, requests, answer) ==
    work' = [t \in Threads |->
                IF /\ pc[t] = "wait" /\ work[t].answer = "none" /\ work[t].session = s
                   /\ \E r \in requests : r.call = work[t].call
                THEN [work[t] EXCEPT !.answer = answer] ELSE work[t]]

Replaced(q) ==
    {r \in q : /\ r.method \in Replaceable
               /\ \E n \in q : n.call > r.call /\ n.method = r.method}

\* The first of those that stay when the channel was drained and compacted.
FirstKept(q, r) ==
    /\ r \in q \ Replaced(q)
    /\ \A o \in q \ Replaced(q) : r.call <= o.call

\* Mutant: what is answered unexecuted is not counted out.
TakesOne(s, r, dropped) ==
    /\ actor[s] = "serving" /\ running[s] = NoRequest
    /\ FirstKept(queue[s], r)
    /\ queue' = [queue EXCEPT ![s] = @ \ (dropped \cup {r})]
    /\ queued' = [queued EXCEPT ![s] = @ - 1]
    /\ Deliver(s, dropped, "superseded")
    /\ UNCHANGED <<manager, backoff, pc, held, actor, process, asked>>

\* r leaves the queue, and with it those that are answered unexecuted.  A message
\* that tells the actor to end does not get into a full channel.
Takes(s, r, dropped) ==
    /\ \/ actor[s] = "serving"
       \/ actor[s] = "stopping" /\ Cardinality(queue[s]) = Capacity
    /\ running[s] = NoRequest
    /\ FirstKept(queue[s], r)
    /\ queue' = [queue EXCEPT ![s] = @ \ (dropped \cup {r})]
    /\ queued' = [queued EXCEPT ![s] = @ - Cardinality(dropped \cup {r})]
    /\ Deliver(s, dropped, "superseded")
    /\ UNCHANGED <<manager, backoff, pc, held, actor, process, asked>>

Execute(s, r) ==
    /\ ~ r.late
    /\ Takes(s, r, Replaced(queue[s]))
    /\ running' = [running EXCEPT ![s] = r]
    /\ wire' = IF process[s] = "up" THEN [wire EXCEPT ![s] = @ \cup {r.call}] ELSE wire

SkipLate(s, r) ==
    /\ r.late
    /\ Takes(s, r, Replaced(queue[s]) \cup {r})
    /\ UNCHANGED <<running, wire>>

\* The worker answers in the order in which it reads.
NextLine(s) == CHOOSE c \in wire[s] : \A d \in wire[s] : c <= d

\* The worker answers, with a result or with an error, and the actor reads a line.
Answer(s, answer) ==
    /\ running[s] # NoRequest
    /\ process[s] = "up" /\ wire[s] # {}
    /\ wire' = [wire EXCEPT ![s] = @ \ {NextLine(s)}]
    /\ running' = [running EXCEPT ![s] = NoRequest]
    /\ Deliver(s, {running[s]}, answer)
    /\ UNCHANGED <<manager, backoff, pc, held, actor, process, queue, queued, asked>>

\* The worker stops reading, and the write of a request or of a first message has
\* no deadline.  One that reads again is only slow.
Deafen(s) ==
    /\ process[s] = "up"
    /\ running[s] # NoRequest \/ \E t \in Threads : pc[t] = "starting" /\ work[t].session = s
    /\ process' = [process EXCEPT ![s] = "deaf"]
    /\ UNCHANGED <<manager, backoff, thread, actor, queue, queued, running, wire, asked>>

Breaks(s) ==
    /\ running[s] # NoRequest
    /\ running' = [running EXCEPT ![s] = NoRequest]
    /\ process' = [process EXCEPT ![s] = "gone"]
    /\ wire' = [wire EXCEPT ![s] = {}]
    /\ Deliver(s, {running[s]}, "error")
    /\ UNCHANGED <<manager, backoff, pc, held, actor, queue, queued, asked>>

\* The worker process turns out to have ended.
Crash(s) == process[s] \in {"up", "deaf"} /\ Breaks(s)

\* Mutant: the line of the worker is awaited without a deadline.
LoseTheDead(s) == process[s] = "gone" /\ Breaks(s)

\* Mutant: a worker that is late is kept for the next request.
LoseOne(s) ==
    /\ running[s].late /\ process[s] = "up"
    /\ running' = [running EXCEPT ![s] = NoRequest]
    /\ Deliver(s, {running[s]}, "error")
    /\ UNCHANGED <<manager, backoff, pc, held, actor, process, queue, queued, wire, asked>>

\* The worker took the request and does not answer in time, or was killed before:
\* the actor kills it and goes on.
Lose(s) ==
    /\ process[s] = "gone" \/ (running[s].late /\ process[s] = "up")
    /\ Breaks(s)

\* Told to end: what is queued is superseded and the process killed.
Stop(s) ==
    /\ actor[s] = "stopping" /\ running[s] = NoRequest
    /\ actor' = [actor EXCEPT ![s] = "ended"]
    /\ process' = [process EXCEPT ![s] = "gone"]
    /\ queue' = [queue EXCEPT ![s] = {}]
    /\ queued' = [queued EXCEPT ![s] = @ - Cardinality(queue[s])]
    /\ Deliver(s, queue[s], "superseded")
    /\ UNCHANGED <<manager, backoff, pc, held, running, wire, asked>>

-----------------------------------------------------------------------------
(* What the call makes of its answer. *)

Answered(t) == pc[t] = "wait" /\ work[t].answer # "none"

IsOk(t) ==
    \/ work[t].answer = "ok"
    \/ work[t].answer = "superseded" /\ work[t].method \in NothingIsAnAnswer

Succeed(t) ==
    /\ Answered(t) /\ IsOk(t)
    /\ backoff' = FALSE
    /\ Goto(t, "release")
    /\ work' = [work EXCEPT ![t] = NoWork]
    /\ UNCHANGED <<manager, held, session, asked>>

\* Mutant: whatever session the manager has is taken from it.
InvalidateAny(s) ==
    /\ lock = Nobody
    /\ current' = None

\* Only the session that failed is taken from the manager.
Invalidate(s) ==
    /\ lock = Nobody
    /\ current' = IF current = s THEN None ELSE current

\* The worker reported more memory than it is given.
SucceedTooBig(t) ==
    /\ Answered(t) /\ IsOk(t)
    /\ backoff' = FALSE
    /\ Invalidate(work[t].session)
    /\ Goto(t, "release")
    /\ work' = [work EXCEPT ![t] = NoWork]
    /\ UNCHANGED <<lock, made, held, session, asked>>

FailOnce(t) ==
    /\ Answered(t) /\ ~ IsOk(t)
    /\ t \in Retrying /\ ~ work[t].retried
    /\ Invalidate(work[t].session)
    /\ Goto(t, "acquire")
    /\ work' = [work EXCEPT ![t] = [NoWork EXCEPT !.method = work[t].method, !.retried = TRUE]]
    /\ UNCHANGED <<lock, made, backoff, held, session, asked>>

Fail(t) ==
    /\ Answered(t) /\ ~ IsOk(t)
    /\ t \in Retrying => work[t].retried
    /\ backoff' = (backoff \/ t \notin Interactive)
    /\ Invalidate(work[t].session)
    /\ Goto(t, "release")
    /\ work' = [work EXCEPT ![t] = NoWork]
    /\ UNCHANGED <<lock, made, held, session, asked>>

-----------------------------------------------------------------------------
(* The references are dropped when the call returns, the newer one first. *)

\* Mutant: the manager ends the session that it discards.
SharedByManager(s, t) == s = current

\* The other reference to s is the manager's or another thread's.
Shared(s, t) == s = current \/ \E u \in Threads \ {t} : s \in held[u]

Drops(t, s) ==
    /\ pc[t] = "release"
    /\ s \in held[t] /\ \A r \in held[t] : r <= s
    /\ held' = [held EXCEPT ![t] = @ \ {s}]

Release(t, s) ==
    /\ Drops(t, s) /\ Shared(s, t)
    /\ UNCHANGED <<manager, backoff, pc, work, session, asked>>

\* The last one tells the actor to end and waits for it.
ReleaseLast(t, s) ==
    /\ Drops(t, s) /\ ~ Shared(s, t)
    /\ actor' = [actor EXCEPT ![s] = "stopping"]
    /\ work' = [work EXCEPT ![t].session = s]
    /\ Goto(t, "join")
    /\ UNCHANGED <<manager, backoff, process, queue, queued, running, wire, asked>>

Join(t) ==
    /\ pc[t] = "join"
    /\ actor[work[t].session] = "ended"
    /\ Goto(t, "release")
    /\ UNCHANGED <<manager, backoff, work, held, session, asked>>

Return(t) ==
    /\ pc[t] = "release" /\ held[t] = {}
    /\ Goto(t, "idle")
    /\ work' = [work EXCEPT ![t] = NoWork]
    /\ UNCHANGED <<manager, backoff, held, session, asked>>

-----------------------------------------------------------------------------
(* The watchdog looks at a session that has been silent, if it is not busy. *)

Probe ==
    /\ pc[Watchdog] = "idle"
    /\ asked < MaxCalls
    /\ asked' = asked + 1
    /\ lock = Nobody /\ current # None
    /\ held' = [held EXCEPT ![Watchdog] = {current}]
    /\ work' = [work EXCEPT ![Watchdog] =
                   [NoWork EXCEPT !.method = "health", !.session = current]]
    /\ Goto(Watchdog, "check")
    /\ UNCHANGED <<manager, backoff, session>>

Check ==
    /\ pc[Watchdog] = "check"
    /\ LET s == work[Watchdog].session
           busy == running[s] # NoRequest \/ queued[s] > 0 IN
       Goto(Watchdog, IF busy THEN "release" ELSE "send")
    /\ UNCHANGED <<manager, backoff, work, held, session, asked>>

\* The restart's delay is over.
BackoffEnds ==
    /\ backoff
    /\ backoff' = FALSE
    /\ UNCHANGED <<manager, thread, session, asked>>

-----------------------------------------------------------------------------

\* What a thread does of its own once it is in a call.
Acquire(t) == Reuse(t) \/ Refuse(t) \/ Launch(t) \/ LaunchFails(t)
Start(t) == Started(t) \/ StartFails(t)
Exchange(t) == Reserve(t) \/ QueueFull(t) \/ Push(t)
Finish(t) == Succeed(t) \/ SucceedTooBig(t) \/ FailOnce(t) \/ Fail(t)
Drop(t) == (\E s \in Sessions : Release(t, s) \/ ReleaseLast(t, s)) \/ Join(t) \/ Return(t)

Proceed(t) ==
    \/ Acquire(t) \/ Start(t) \/ Exchange(t) \/ Finish(t) \/ Drop(t)
    \/ t = Watchdog /\ Check

Turn(s) == (\E r \in queue[s] : Execute(s, r) \/ SkipLate(s, r)) \/ Stop(s)

Next ==
    \/ \E t \in Threads : Proceed(t) \/ GiveUp(t) \/ \E m \in Methods : Call(t, m)
    \/ Probe \/ BackoffEnds
    \/ \E s \in Sessions :
         \/ Turn(s) \/ Lose(s) \/ Expire(s) \/ Crash(s) \/ Deafen(s)
         \/ \E a \in {"ok", "error"} : Answer(s, a)

Spec == Init /\ [][Next]_vars

Stuck(t) == pc[t] = "starting" /\ process[work[t].session] = "deaf"

\* Threads run and deadlines pass; a worker need not answer, nor read, nor end.
Fairness ==
    /\ \A t \in Threads : WF_vars(~ Stuck(t) /\ (Proceed(t) \/ GiveUp(t)))
    /\ \A s \in Sessions : WF_vars(Turn(s)) /\ WF_vars(Lose(s)) /\ WF_vars(Expire(s))
FairSpec == Spec /\ Fairness

-----------------------------------------------------------------------------
(* Properties. *)

Request == [call : Nat, method : Methods \cup {"health", "none"}, late : BOOLEAN]

TypeOK ==
    /\ current \in Sessions \cup {None} /\ lock \in Threads \cup {Nobody}
    /\ made \in 0..MaxSessions /\ backoff \in BOOLEAN /\ asked \in Nat
    /\ pc \in [Threads -> {"idle", "acquire", "starting", "send", "push", "wait", "release",
                           "join", "check"}]
    /\ work \in [Threads ->
            [method : Methods \cup {"none", "health"}, session : Sessions \cup {None}, call : Nat,
             answer : {"none", "ok", "error", "superseded"}, retried : BOOLEAN]]
    /\ held \in [Threads -> SUBSET Sessions]
    /\ actor \in [Sessions -> {"none", "serving", "stopping", "ended"}]
    /\ process \in [Sessions -> {"none", "up", "deaf", "gone"}]
    /\ queue \in [Sessions -> SUBSET Request] /\ queued \in [Sessions -> Nat]
    /\ running \in [Sessions -> Request] /\ wire \in [Sessions -> SUBSET Nat]

\* The threads that reserved a place in the queue of s and have not queued yet.
Reserving(s) == {t \in Threads : pc[t] = "push" /\ work[t].session = s}

\* The counter that admits requests counts what is queued and what is about to
\* be, so that the channel has room for whatever was admitted, and never fills
\* up for good.
QueueIsCounted ==
    \A s \in Sessions :
        /\ queued[s] = Cardinality(queue[s]) + Cardinality(Reserving(s))
        /\ queued[s] <= Capacity

\* A worker process that runs belongs to the manager or to a call that is still
\* on its way: none is left behind when sessions are discarded and replaced, and
\* no request is queued where no actor is left to answer it.
NoOrphans ==
    /\ \A s \in Sessions :
        process[s] \in {"up", "deaf"} =>
            \/ s = current
            \/ \E t \in Threads : s \in held[t] \/ (pc[t] = "join" /\ work[t].session = s)
    /\ \A t \in Threads : \A s \in held[t] : actor[s] = "serving"

\* The answer that a call gets is the one the worker gave to it: a line that
\* comes after the actor gave up waiting for it is never read as the answer of
\* the next request, whose caller would take its session for broken.
AnswersAreOwn ==
    [][\A t \in Threads :
         work[t].answer = "none" /\ work'[t].answer = "ok" =>
            NextLine(work[t].session) = work[t].call]_vars

\* A session is only taken from the manager by a call that was answered on that
\* very session: a caller of an older session does not discard the newer one.
OnlyItsCallersDiscardIt ==
    [][current # None /\ current' # current =>
         /\ current' = None
         /\ \E t \in Threads : Answered(t) /\ work[t].session = current]_vars

\* A call that has not been answered.
Unanswered(t) == pc[t] \in {"send", "push"} \/ (pc[t] = "wait" /\ work[t].answer = "none")

\* Every exchange ends, whatever the worker does.  And every call returns, though
\* the worker may never answer and though dropping a session waits for its actor,
\* unless a worker has stopped reading: as no more than MaxCalls are made, there
\* comes a time when no thread is in a call.
EveryCallReturns ==
    /\ \A t \in Threads : []<>(~ Unanswered(t))
    /\ []<>(\/ \A t \in Threads : pc[t] = "idle"
           \/ \E s \in Sessions : process[s] = "deaf")
=============================================================================
