-------------------------- MODULE SemanticDocuments --------------------------
(***************************************************************************)
(* One document on its way from the editor to the semantic worker: the     *)
(* queue in the editor that numbers its versions and publishes them, the   *)
(* queries that wait until a version is acknowledged, the threads of the   *)
(* host that take these calls to a session, the tracker from which a new   *)
(* worker gets what the old one knew, and the store of each worker.        *)
(*                                                                         *)
(* A text is a number; a newer one is greater, 0 is what the file holds.   *)
(* Calls that are in the host at a time reach a worker in any order.       *)
(***************************************************************************)
EXTENDS Integers

CONSTANTS Queries,      \* queries the user makes
          MaxEdits,     \* bound: texts after the one in the file
          MaxSessions,  \* bound: sessions started
          MaxFaults     \* bound: how often the document is closed or a call lost

Texts == 0..MaxEdits
Sessions == 1..MaxSessions
None == 0
NoText == -1

VARIABLES
    text,      \* what the editor shows
    entry,     \* the document in the queue
    query,     \* per query: how far it is and what it was answered from
    closes,    \* how often the document was closed: its life in the queue
    calls,     \* the calls in the host
    current,   \* the manager's session
    made,      \* how many were started
    tracker,   \* what a new worker is given
    worker,    \* per session: the document in the worker's store
    gone,      \* sessions whose worker process has ended
    failures   \* how many calls were lost

editor == <<text, entry, query, closes>>
host == <<current, made, tracker>>
workers == <<worker, gone, failures>>
vars == <<editor, calls, host, workers>>

NoEntry == [text |-> NoText, version |-> 0, published |-> 0, ready |-> 0,
            timer |-> FALSE, warm |-> 0, inFlight |-> FALSE]
NoQuery == [stage |-> "none", version |-> 0, of |-> NoText, inline |-> FALSE,
            served |-> NoText, from |-> "none", life |-> 0]
NoDocument == [text |-> NoText, generation |-> 0, version |-> 0, origin |-> "none"]
Untracked == [text |-> NoText, generation |-> 0]
NewCall == [kind |-> "none", version |-> 0, text |-> NoText, query |-> None, life |-> 0,
            stage |-> "new", session |-> None, generation |-> 0, retried |-> FALSE,
            answer |-> "none"]

Init ==
    /\ text = 0 /\ entry = NoEntry /\ closes = 0
    /\ query = [q \in Queries |-> NoQuery]
    /\ calls = {}
    /\ current = None /\ made = 0 /\ tracker = Untracked
    /\ worker = [s \in Sessions |-> NoDocument]
    /\ gone = {} /\ failures = 0

-----------------------------------------------------------------------------
(* The queue in the editor. *)

\* open, change, or nothing for a snapshot the queue has.
Snapshot(t, fresh) ==
    IF entry = NoEntry
    THEN [NoEntry EXCEPT !.text = t, !.version = 1, !.timer = TRUE]
    ELSE IF fresh THEN [entry EXCEPT !.text = t, !.version = @ + 1, !.timer = TRUE]
    ELSE entry

\* Mutant: a sync under way does not hold back the next.
MayPublishAnyway(e) == e.version > e.published

MayPublish(e) == ~ e.inFlight /\ e.version > e.published

Published(e) ==
    IF MayPublish(e) THEN [e EXCEPT !.inFlight = TRUE, !.published = e.version] ELSE e

SyncOf(e) ==
    IF MayPublish(e)
    THEN {[NewCall EXCEPT !.kind = "sync", !.version = e.version, !.text = e.text,
                          !.life = closes]}
    ELSE {}

\* A query goes to the host, with the version its promise resolved to or with none (0).
QueryCall(q, r, v) ==
    [NewCall EXCEPT !.kind = "query", !.query = q, !.version = v,
                    !.text = IF v = 0 \/ r.inline THEN r.of ELSE NoText]

\* The promises of these queries resolve to v.
Resolve(qs, v) ==
    query' = [q \in Queries |-> IF q \in qs THEN [query[q] EXCEPT !.stage = "asked"] ELSE query[q]]
Resolved(qs, v) == {QueryCall(q, query[q], v) : q \in qs}

\* Mutant: what is acknowledged answers for every version that is waited for.
WaitingForAny(v) == {q \in Queries : query[q].stage = "waiting"}

Waiting(v) == {q \in Queries : query[q].stage = "waiting" /\ query[q].version <= v}

Type ==
    /\ text < MaxEdits
    /\ text' = text + 1
    /\ UNCHANGED <<entry, query, closes, calls, host, workers>>

\* The file has changed and was read again.
Change ==
    /\ text < MaxEdits
    /\ text' = text + 1
    /\ entry' = Snapshot(text', TRUE)
    /\ UNCHANGED <<query, closes, calls, host, workers>>

\* A query is made of this snapshot; inline: it also carries the text.
Makes(q, fresh, inline, stage) ==
    /\ query[q] = NoQuery
    /\ entry.text \notin {text, NoText} => fresh
    /\ query' = [query EXCEPT ![q] =
         [NoQuery EXCEPT !.stage = stage, !.version = Snapshot(text, fresh).version,
                         !.of = text, !.inline = inline, !.life = closes]]
    /\ UNCHANGED <<text, closes, host, workers>>

EnsureReady(q, fresh, inline) ==
    LET e == Snapshot(text, fresh) IN
    /\ e.ready >= e.version
    /\ Makes(q, fresh, inline, "asked")
    /\ entry' = e
    /\ calls' = calls \cup {QueryCall(q, query'[q], e.version)}

\* What is not published yet is, unless a sync is under way.
EnsureWaits(q, fresh, inline) ==
    LET e == Snapshot(text, fresh) IN
    /\ e.ready < e.version
    /\ Makes(q, fresh, inline, "waiting")
    /\ entry' = IF e.inFlight THEN e ELSE Published([e EXCEPT !.timer = FALSE])
    /\ calls' = calls \cup SyncOf(e)

Timer ==
    /\ entry.timer
    /\ entry' = Published([entry EXCEPT !.timer = FALSE])
    /\ calls' = calls \cup SyncOf(entry)
    /\ UNCHANGED <<text, query, closes, host, workers>>

WarmTimer ==
    /\ entry.warm # 0
    /\ entry' = [entry EXCEPT !.warm = 0]
    /\ calls' = calls \cup
         (IF entry.ready >= entry.warm /\ entry.version = entry.warm
          THEN {[NewCall EXCEPT !.kind = "prepare", !.version = entry.warm, !.life = closes]}
          ELSE {})
    /\ UNCHANGED <<text, query, closes, host, workers>>

\* Because other documents were used since, or the file was taken away.
Close ==
    /\ entry # NoEntry /\ closes + failures < MaxFaults
    /\ entry' = NoEntry
    /\ closes' = closes + 1
    /\ LET all == Waiting(entry.version) IN
       /\ Resolve(all, 0)
       /\ calls' = calls \cup Resolved(all, 0) \cup
                      {[NewCall EXCEPT !.kind = "close", !.life = closes]}
    /\ UNCHANGED <<text, host, workers>>

-----------------------------------------------------------------------------
(* The host: a thread takes each call to a session. *)

Become(c, d) == calls' = (calls \ {c}) \cup {d}
Answers(c, answer) == Become(c, [c EXCEPT !.stage = "answered", !.answer = answer])

\* What carries a text is registered before it is sent.
Has(c, s) ==
    Become(c, [c EXCEPT !.stage = IF c.text = NoText THEN "sent" ELSE "held", !.session = s])

Acquire(c) ==
    /\ c.stage = "new" /\ current # None
    /\ Has(c, current)
    /\ UNCHANGED <<editor, host, workers>>

\* The new worker is given what the tracker holds: text and generation, no version.
StartSession(c) ==
    /\ c.stage = "new" /\ current = None /\ made < MaxSessions
    /\ made' = made + 1 /\ current' = made'
    /\ worker' = [worker EXCEPT ![made'] =
         IF tracker = Untracked THEN NoDocument
         ELSE [text |-> tracker.text, generation |-> tracker.generation, version |-> 0,
               origin |-> "replay"]]
    /\ Has(c, made')
    /\ UNCHANGED <<editor, tracker, gone, failures>>

\* It is not started, or a restart has to wait.
Refuse(c) ==
    /\ c.stage = "new" /\ current = None
    /\ \/ closes + failures < MaxFaults /\ failures' = failures + 1
       \/ made = MaxSessions /\ UNCHANGED failures
    /\ Answers(c, "error")
    /\ UNCHANGED <<editor, host, worker, gone>>

\* generation_for: the text decides the generation.
Register(c) ==
    /\ c.stage = "held"
    /\ tracker' = IF c.text = tracker.text THEN tracker
                   ELSE [text |-> c.text, generation |-> tracker.generation + 1]
    /\ Become(c, [c EXCEPT !.stage = "sent",
                            !.generation = IF c.kind = "query" THEN tracker'.generation ELSE 0])
    /\ UNCHANGED <<editor, current, made, workers>>

\* The call is answered without the worker: it was too late or one too many, or
\* the worker did not answer in time and is killed.
Lose(c) ==
    /\ c.stage = "sent" /\ closes + failures < MaxFaults
    /\ failures' = failures + 1
    /\ \/ gone' = gone \cup {c.session}
       \/ UNCHANGED gone
    /\ Answers(c, "error")
    /\ UNCHANGED <<editor, host, worker>>

-----------------------------------------------------------------------------
(* The store of the worker of session s. *)

IsOverlay(d) == d.origin \in {"sync", "replay"}

\* A version that was superseded, or the same one with another text.
SyncIsStale(c, d) ==
    d.version # 0 /\ (c.version < d.version \/ (c.version = d.version /\ c.text # d.text))

\* The text decides the generation.
Synced(c, d) ==
    IF c.version = d.version THEN d
    ELSE [text |-> c.text, version |-> c.version, origin |-> "sync",
          generation |-> IF c.text = d.text THEN d.generation ELSE d.generation + 1]

QueryIsStale(c, d) ==
    \/ c.text # NoText /\ c.generation < d.generation
    \/ d.version # 0 /\ c.version # 0 /\ c.version # d.version
    \/ c.text \notin {NoText, d.text} /\ c.generation = d.generation

FromDisk(d) ==
    IF IsOverlay(d) \/ d.origin = "disk" THEN d
    ELSE [text |-> 0, generation |-> d.generation + 1, version |-> 0, origin |-> "disk"]

\* What is served: the text of the query, or what is stored, or the file.
Loaded(c, d) ==
    IF c.text = NoText THEN FromDisk(d)
    ELSE IF c.text = d.text THEN d
    ELSE [text |-> c.text, generation |-> c.generation, version |-> 0, origin |-> "inline"]

\* The worker takes call c and leaves its document as d.
Serves(c, d) ==
    /\ c.stage = "sent" /\ c.session \notin gone
    /\ worker' = [worker EXCEPT ![c.session] = d]
    /\ UNCHANGED <<text, entry, closes, host, gone, failures>>

WorkerSync(c) ==
    /\ c.kind = "sync" /\ c.stage = "sent"
    /\ LET d == worker[c.session]
           stale == SyncIsStale(c, d) IN
       /\ Serves(c, IF stale THEN d ELSE Synced(c, d))
       /\ Answers(c, IF stale THEN "error" ELSE "ok")
    /\ UNCHANGED query

\* A text that the call carries must be served under the generation it was given.
Fits(c, d) ==
    ~ QueryIsStale(c, d) /\ (c.text # NoText => Loaded(c, d).generation = c.generation)

\* The query or the preparation is answered, and the call is over.
WorkerLoad(c) ==
    /\ c.kind \in {"query", "prepare"} /\ c.stage = "sent"
    /\ LET d == worker[c.session]
           l == Loaded(c, d) IN
       /\ Fits(c, d)
       /\ Serves(c, l)
       /\ query' = IF c.kind = "prepare" THEN query
                   ELSE [query EXCEPT ![c.query].stage = "answered",
                                      ![c.query].served = l.text,
                                      ![c.query].from = IF l.version # 0 THEN "version"
                                                        ELSE l.origin]
    /\ calls' = calls \ {c}

WorkerRejects(c) ==
    /\ c.kind \in {"query", "prepare"} /\ c.stage = "sent"
    /\ LET d == worker[c.session] IN
       /\ ~ Fits(c, d)
       /\ Serves(c, IF QueryIsStale(c, d) THEN d ELSE Loaded(c, d))
    /\ Answers(c, "error")
    /\ UNCHANGED query

WorkerClose(c) ==
    /\ c.kind = "close"
    /\ Serves(c, NoDocument)
    /\ Answers(c, "ok")
    /\ UNCHANGED query

WorkerGone(c) ==
    /\ c.stage = "sent" /\ c.session \in gone
    /\ Answers(c, "error")
    /\ UNCHANGED <<editor, host, workers>>

\* A query of another document needs this one.
LoadDependency(s) ==
    /\ s <= made /\ s \notin gone
    /\ worker' = [worker EXCEPT ![s] = FromDisk(@)]
    /\ worker' # worker
    /\ UNCHANGED <<editor, calls, host, gone, failures>>

-----------------------------------------------------------------------------
(* What the host and the editor make of the answer. *)

\* A call that failed takes its session from the manager.
Discards(c) ==
    current' = IF c.answer = "error" /\ c.session = current THEN None ELSE current

Ends(c) == c.stage = "answered" /\ c \in calls

\* The queue of a document that was closed since has forgotten the sync.
SyncForgotten(c) ==
    /\ Ends(c) /\ c.kind = "sync" /\ c.life # closes
    /\ Discards(c)
    /\ calls' = calls \ {c}
    /\ UNCHANGED <<editor, made, tracker, workers>>

\* Mutant: what changed while the sync was under way waits for the next change.
SettlesOnly(c, e, v) ==
    LET waiters == Waiting(c.version) IN
    /\ Ends(c) /\ c.kind = "sync" /\ c.life = closes
    /\ Discards(c)
    /\ entry' = [e EXCEPT !.inFlight = FALSE]
    /\ Resolve(waiters, v)
    /\ calls' = (calls \ {c}) \cup Resolved(waiters, v)
    /\ UNCHANGED <<text, closes, made, tracker, workers>>

\* The sync is over: what changed meanwhile is published if no timer will do it.
Settles(c, e, v) ==
    LET next == [e EXCEPT !.inFlight = FALSE]
        waiters == Waiting(c.version) IN
    /\ Ends(c) /\ c.kind = "sync" /\ c.life = closes
    /\ Discards(c)
    /\ entry' = IF next.timer THEN next ELSE Published(next)
    /\ Resolve(waiters, v)
    /\ calls' = (calls \ {c}) \cup Resolved(waiters, v)
                   \cup (IF next.timer THEN {} ELSE SyncOf(next))
    /\ UNCHANGED <<text, closes, made, tracker, workers>>

SyncReady(c) ==
    /\ c.answer = "ok"
    /\ Settles(c, [entry EXCEPT !.ready = c.version, !.warm = c.version], c.version)

\* Mutant: a failed sync answers nobody.
SyncFailedSilently(c) ==
    /\ c.answer = "error"
    /\ Ends(c) /\ c.kind = "sync" /\ c.life = closes
    /\ Discards(c)
    /\ entry' = Published([entry EXCEPT !.inFlight = FALSE])
    /\ calls' = (calls \ {c}) \cup SyncOf([entry EXCEPT !.inFlight = FALSE])
    /\ UNCHANGED <<query, text, closes, made, tracker, workers>>

SyncFailed(c) == c.answer = "error" /\ Settles(c, entry, 0)

QueryFails(c) ==
    /\ Ends(c) /\ c.kind = "query"
    /\ Discards(c)
    /\ query' = [query EXCEPT ![c.query].stage = "failed"]
    /\ calls' = calls \ {c}
    /\ UNCHANGED <<text, entry, closes, made, tracker, workers>>

\* prepareDocument is tried once more, with another session.
PrepareAgain(c) ==
    /\ Ends(c) /\ c.kind = "prepare"
    /\ ~ c.retried /\ c.session # None
    /\ Discards(c)
    /\ Become(c, [c EXCEPT !.stage = "new", !.session = None, !.answer = "none",
                            !.retried = TRUE])
    /\ UNCHANGED <<editor, made, tracker, workers>>

PrepareFails(c) ==
    /\ Ends(c) /\ c.kind = "prepare"
    /\ c.retried \/ c.session = None
    /\ Discards(c)
    /\ calls' = calls \ {c}
    /\ UNCHANGED <<editor, made, tracker, workers>>

\* The tracker forgets the document once the worker has.
CloseEnds(c) ==
    /\ Ends(c) /\ c.kind = "close"
    /\ tracker' = IF c.answer = "ok" THEN Untracked ELSE tracker
    /\ Discards(c)
    /\ calls' = calls \ {c}
    /\ UNCHANGED <<editor, made, workers>>

-----------------------------------------------------------------------------

Query(q) ==
    \E fresh, inline \in BOOLEAN : EnsureReady(q, fresh, inline) \/ EnsureWaits(q, fresh, inline)

Take(c) == Acquire(c) \/ StartSession(c) \/ Refuse(c) \/ Register(c)
Serve(c) ==
    \/ WorkerSync(c) \/ WorkerLoad(c) \/ WorkerRejects(c) \/ WorkerClose(c)
    \/ WorkerGone(c) \/ Lose(c)
End(c) ==
    \/ SyncForgotten(c) \/ SyncReady(c) \/ SyncFailed(c) \/ QueryFails(c)
    \/ PrepareAgain(c) \/ PrepareFails(c) \/ CloseEnds(c)

Next ==
    \/ Type \/ Change \/ Timer \/ WarmTimer \/ Close
    \/ \E q \in Queries : Query(q)
    \/ \E c \in calls : Take(c) \/ Serve(c) \/ End(c)
    \/ \E s \in Sessions : LoadDependency(s)

Spec == Init /\ [][Next]_vars

\* Timers fire, and a call is answered or given up.
CallGoesOn == \E c \in calls : Take(c) \/ Serve(c) \/ End(c)
Fairness == WF_vars(Timer) /\ WF_vars(CallGoesOn)
FairSpec == Spec /\ Fairness

-----------------------------------------------------------------------------
(* Properties. *)

TypeOK ==
    /\ text \in Texts /\ closes \in Nat /\ failures \in Nat
    /\ entry \in [text : Texts \cup {NoText}, version : Nat, published : Nat, ready : Nat,
                  timer : BOOLEAN, warm : Nat, inFlight : BOOLEAN]
    /\ query \in [Queries ->
            [stage : {"none", "waiting", "asked", "answered", "failed"}, version : Nat,
             of : Texts \cup {NoText}, inline : BOOLEAN, served : Texts \cup {NoText},
             from : {"none", "version", "replay", "inline", "disk"}, life : Nat]]
    /\ calls \subseteq
            [kind : {"sync", "query", "prepare", "close"}, version : Nat,
             text : Texts \cup {NoText}, query : Queries \cup {None}, life : Nat,
             stage : {"new", "held", "sent", "answered"}, session : Sessions \cup {None},
             generation : Nat, retried : BOOLEAN, answer : {"none", "ok", "error"}]
    /\ current \in Sessions \cup {None} /\ made \in 0..MaxSessions
    /\ tracker \in [text : Texts \cup {NoText}, generation : Nat]
    /\ worker \in [Sessions ->
            [text : Texts \cup {NoText}, generation : Nat, version : Nat,
             origin : {"none", "sync", "replay", "inline", "disk"}]]
    /\ gone \subseteq Sessions

Answered(q) == query[q].stage = "answered"

\* A query that is answered while the queue still has the document it was made
\* of is not answered from an older text.
AnswersAreCurrent ==
    \A q \in Queries :
        Answered(q) /\ query[q].life = closes => query[q].served >= query[q].of

\* While the queue has not closed the document, a query is answered from an older
\* text only where there is no version to compare: from a document that was
\* replayed to a new worker or read from the file.
VersionsProtect ==
    closes = 0 =>
        \A q \in Queries :
            Answered(q) /\ query[q].served < query[q].of => query[q].from \in {"replay", "disk"}

\* While the queue has not closed the document, no sync comes to a worker that has
\* a later version, which would cost the session, though the calls of the host
\* overtake each other.
SyncsComeInOrder ==
    closes = 0 =>
        \A c \in calls :
            c.kind = "sync" /\ c.stage = "sent" => ~ SyncIsStale(c, worker[c.session])

\* What was edited is published though no further edit follows.
EditsArePublished == entry.version > entry.published ~> entry.version = entry.published

\* A query that waits for a version that is yet to be answered does not wait for ever.
WaitersAreSettled ==
    \A q \in Queries :
        query[q].stage = "waiting" /\ (entry.inFlight \/ query[q].version > entry.published)
            ~> query[q].stage # "waiting"
=============================================================================
