-------------------------- MODULE IndexPublication --------------------------
(***************************************************************************)
(* Publication into the index store: callers that stage an artifact and    *)
(* hand it to the one writer actor, the bounded channel and the queue with *)
(* its lanes, the actor, and the two content layers of one file (core and  *)
(* substring) that a publication writes.                                   *)
(*                                                                         *)
(* The text of the file is a number that every edit increases; catalog is  *)
(* the generation of the workspace's catalog (its indexed_at).  The queue  *)
(* is one sequence in order of arrival: the front of a lane is the first   *)
(* of its priority, and a maintenance publication is a barrier to what     *)
(* arrived after it.  An artifact is a slot that is used again when nobody *)
(* has it any more.  When a publication started, its answer follows in the *)
(* same step: a caller that is not answered yet has not seen it started.   *)
(***************************************************************************)
EXTENDS Integers, Sequences, FiniteSets

CONSTANTS Callers,        \* threads that publish
          Slots,          \* staged artifacts at a time
          Work,           \* what callers publish: [kind, priority]
          ChannelCapacity, QueueCapacity, BurstLimit,
          MaxAsked,       \* bound: publications of content, resets too
          MaxVersion,     \* bound: edits of the file
          MaxGeneration,  \* bound: generations of the catalog
          MaxRestarts     \* bound: restarts of the program

Artifacts == 1..Slots
Kinds == {"Core", "CoreOnly", "Substring", "Other", "Reset"}
Priorities == {"Maintenance", "Foreground", "Background", "Idle"}
Envelopes == [art : Artifacts, kind : Kinds, priority : Priorities,
              gen : 0..MaxGeneration, ver : 0..MaxVersion, detached : BOOLEAN]
NoEnvelope == [art |-> 0, kind |-> "Other", priority |-> "Idle",
               gen |-> 0, ver |-> 0, detached |-> FALSE]

VARIABLES
    disk, catalog,   \* the file's text, the catalog's generation
    content,         \* the rows of the file: core and substring
    layer,           \* the newest published generation of each layer
    staged,          \* the artifacts in the staging directory
    leftover,        \* those of them that no descriptor names any more: of an
                     \* earlier process, or of a request that was given up
    recovered,       \* this process has looked for leftovers
    caller,          \* per caller: where it is and its envelope
    cancelled,       \* envelopes whose caller has left, by artifact
    reply,           \* per artifact: the answer that waits for the caller
    channel, queue, burst,
    actor,           \* where the actor is and the envelope it holds
    asked, restarts, \* counters of the bounds
    raced,           \* history: cores that were published and whose caller left
    prepared         \* history: per generation, the texts artifacts were made of

files == <<disk, catalog>>
store == <<content, layer>>
lanes == <<channel, queue, burst>>
history == <<asked, restarts, raced, prepared>>
vars == <<files, store, staged, leftover, recovered, caller, cancelled, reply,
          lanes, actor, history>>

NoContent == [gen |-> 0, ver |-> 0, sub |-> "none", subGen |-> 0, subVer |-> 0]
Away == [at |-> "Idle", env |-> NoEnvelope]
Drain == [at |-> "Drain", env |-> NoEnvelope]

Init ==
    /\ disk = 0 /\ catalog = 1
    /\ content = NoContent
    /\ layer = [core |-> 0, sub |-> 0]
    /\ staged = {} /\ leftover = {} /\ recovered = FALSE
    /\ caller = [c \in Callers |-> Away]
    /\ cancelled = {}
    /\ reply = [a \in Artifacts |-> "none"]
    /\ channel = <<>> /\ queue = <<>> /\ burst = 0
    /\ actor = Drain
    /\ asked = 0 /\ restarts = 0 /\ raced = {}
    /\ prepared = [g \in 0..MaxGeneration |-> {}]

-----------------------------------------------------------------------------
Elements(s) == {s[i] : i \in DOMAIN s}

\* Who will still read an artifact.
Held == {caller[c].env.art : c \in Callers}
            \cup {e.art : e \in Elements(channel) \cup Elements(queue)} \cup {actor.env.art}

First(positions) == CHOOSE i \in positions : \A j \in positions : i <= j
FreeSlots == Artifacts \ (staged \cup Held)
Larger(a, b) == IF a > b THEN a ELSE b

Edit ==
    /\ disk < MaxVersion
    /\ disk' = disk + 1
    /\ UNCHANGED <<catalog, store, staged, leftover, recovered, caller, cancelled,
                   reply, lanes, actor, history>>

\* The file layer of a refresh: the catalog gets a new generation.
RefreshCatalog ==
    /\ catalog < MaxGeneration
    /\ catalog' = catalog + 1
    /\ UNCHANGED <<disk, store, staged, leftover, recovered, caller, cancelled,
                   reply, lanes, actor, history>>

-----------------------------------------------------------------------------
(* Callers. *)

\* The generation of a page: the layer's newest or the catalog's.
AskGeneration(c) ==
    /\ caller[c].at = "Idle"
    /\ \E w \in Work :
       /\ w.kind # "Other" => asked < MaxAsked
       /\ asked' = IF w.kind = "Other" THEN asked ELSE asked + 1
       /\ caller' = [caller EXCEPT ![c] =
              [at |-> "Asked",
               env |-> [NoEnvelope EXCEPT !.kind = w.kind, !.priority = w.priority,
                                          !.gen = Larger(layer.core, catalog)]]]
    /\ UNCHANGED <<files, store, staged, leftover, recovered, cancelled, reply,
                   lanes, actor, restarts, raced, prepared>>

\* The indexing process reads the file and stages the artifact; its answer with
\* the descriptor is on the way.
Prepare(c) ==
    /\ caller[c].at = "Asked"
    /\ FreeSlots # {}
    /\ LET a == First(FreeSlots)
       IN  /\ caller' = [caller EXCEPT ![c] =
                 [at |-> "Prepared", env |-> [caller[c].env EXCEPT !.art = a, !.ver = disk]]]
           /\ staged' = staged \cup {a}
    /\ prepared' = [prepared EXCEPT ![caller[c].env.gen] = @ \cup {disk}]
    /\ UNCHANGED <<files, store, leftover, recovered, cancelled, reply, lanes, actor,
                   asked, restarts, raced>>

TakeDescriptor(c) ==
    /\ caller[c].at = "Prepared"
    /\ caller' = [caller EXCEPT ![c].at = "Staged"]
    /\ UNCHANGED <<files, store, staged, leftover, recovered, cancelled, reply, lanes,
                   actor, history>>

\* The caller is cancelled or past its deadline, or the answer is not the one it
\* waits for: it ends the process and knows nothing of what that has staged.  A
\* reset is staged by the program itself, which is not told to stop.
GiveUp(c) ==
    /\ \/ caller[c].at = "Asked"
       \/ caller[c].at = "Prepared" /\ caller[c].env.kind # "Reset"
    /\ caller' = [caller EXCEPT ![c] = Away]
    /\ leftover' = leftover \cup ({caller[c].env.art} \cap staged)
    /\ UNCHANGED <<files, store, staged, recovered, cancelled, reply, lanes, actor,
                   history>>

\* The first publication of a process removes the artifacts that are older
\* than the grace period: some of those nobody knows of.
Recover(c) ==
    /\ caller[c].at = "Staged"
    /\ ~ recovered
    /\ recovered' = TRUE
    /\ \E expired \in SUBSET leftover :
          /\ staged' = staged \ expired
          /\ leftover' = leftover \ expired
    /\ UNCHANGED <<files, store, caller, cancelled, reply, lanes, actor, history>>

Send(c) ==
    /\ caller[c].at = "Staged"
    /\ recovered
    /\ Len(channel) < ChannelCapacity
    /\ channel' = Append(channel, caller[c].env)
    /\ caller' = [caller EXCEPT ![c].at = "Waiting"]
    /\ UNCHANGED <<files, store, staged, leftover, recovered, cancelled, reply,
                   queue, burst, actor, history>>

\* A reset of the index is never cancelled.
Cancellable(e) == e.kind # "Reset"

CancelBeforeQueue(c) ==
    /\ caller[c].at = "Staged"
    /\ recovered /\ Cancellable(caller[c].env)
    /\ staged' = staged \ {caller[c].env.art}
    /\ caller' = [caller EXCEPT ![c] = Away]
    /\ UNCHANGED <<files, store, leftover, recovered, cancelled, reply, lanes,
                   actor, history>>

\* A core publication that was applied is followed by its substring, which
\* reuses the artifact.
Receive(c) ==
    /\ caller[c].at = "Waiting"
    /\ reply[caller[c].env.art] # "none"
    /\ caller' = [caller EXCEPT ![c] =
          IF reply[@.env.art] = "applied" /\ @.env.kind = "Core"
          THEN [at |-> "Detach",
                env |-> [@.env EXCEPT !.kind = "Substring", !.priority = "Idle",
                                      !.detached = TRUE]]
          ELSE Away]
    /\ reply' = [reply EXCEPT ![caller[c].env.art] = "none"]
    /\ UNCHANGED <<files, store, staged, leftover, recovered, cancelled, lanes, actor,
                   history>>

SendDetached(c) ==
    /\ caller[c].at = "Detach"
    /\ Len(channel) < ChannelCapacity
    /\ channel' = Append(channel, caller[c].env)
    /\ caller' = [caller EXCEPT ![c] = Away]
    /\ UNCHANGED <<files, store, staged, leftover, recovered, cancelled, reply,
                   queue, burst, actor, history>>

\* The wait timed out, the task is cancelled and the publication not started:
\* the caller marks the envelope and leaves.  The two are not one step.
SeeNotStarted(c) ==
    /\ caller[c].at = "Waiting"
    /\ reply[caller[c].env.art] = "none"
    /\ Cancellable(caller[c].env)
    /\ caller' = [caller EXCEPT ![c].at = "Leaving"]
    /\ UNCHANGED <<files, store, staged, leftover, recovered, cancelled, reply,
                   lanes, actor, history>>

Leave(c) ==
    /\ caller[c].at = "Leaving"
    /\ LET e == caller[c].env
           answered == reply[e.art] # "none"
       IN  /\ cancelled' = IF answered THEN cancelled ELSE cancelled \cup {e.art}
           /\ raced' = IF reply[e.art] = "applied" /\ e.kind = "Core"
                       THEN raced \cup {e.art} ELSE raced
           /\ reply' = [reply EXCEPT ![e.art] = "none"]
    /\ caller' = [caller EXCEPT ![c] = Away]
    /\ UNCHANGED <<files, store, staged, leftover, recovered, lanes, actor,
                   asked, restarts, prepared>>

-----------------------------------------------------------------------------
(* The queue. *)

OfPriority(p) == {i \in DOMAIN queue : queue[i].priority = p}
Barrier == OfPriority("Maintenance")
\* Mutant: the front of a lane goes whatever maintenance waits before it.
ReadyAnyway(p) == OfPriority(p)
\* The publications of a lane that may go before the next maintenance.
Ready(p) == {i \in OfPriority(p) : \A b \in Barrier : i < b}

Ingest ==
    /\ actor.at = "Drain"
    /\ channel # <<>>
    /\ Len(queue) < QueueCapacity
    /\ queue' = Append(queue, Head(channel))
    /\ channel' = Tail(channel)
    /\ UNCHANGED <<files, store, staged, leftover, recovered, caller, cancelled,
                   reply, burst, actor, history>>

\* The ingress is drained before the queue is asked.
Take(i, newBurst) ==
    /\ actor.at = "Drain"
    /\ channel = <<>> \/ Len(queue) >= QueueCapacity
    /\ actor' = [at |-> "Yielding", env |-> queue[i]]
    /\ queue' = SubSeq(queue, 1, i - 1) \o SubSeq(queue, i + 1, Len(queue))
    /\ burst' = newBurst
    /\ UNCHANGED <<files, store, staged, leftover, recovered, caller, cancelled,
                   reply, channel, history>>

\* Mutant: background work waits for an empty foreground lane.
BackgroundWaits == Ready("Background") # {} /\ Ready("Foreground") = {}

BackgroundTurn == Ready("Background") # {}
                      /\ (Ready("Foreground") = {} \/ burst >= BurstLimit)

PopBackground == BackgroundTurn /\ Take(First(Ready("Background")), 0)

PopForeground ==
    /\ ~ BackgroundTurn
    /\ Ready("Foreground") # {}
    /\ Take(First(Ready("Foreground")), IF burst < BurstLimit THEN burst + 1 ELSE burst)

NothingUrgent == Ready("Background") = {} /\ Ready("Foreground") = {}

PopIdle ==
    /\ NothingUrgent
    /\ Ready("Idle") # {}
    /\ Take(First(Ready("Idle")), 0)

PopMaintenance ==
    /\ NothingUrgent
    /\ Ready("Idle") = {}
    /\ Barrier # {}
    /\ Take(First(Barrier), 0)

-----------------------------------------------------------------------------
(* The actor.  It yields to foreground reads, for a bounded time. *)

Left(e) == e.art \in cancelled

\* Mutant: a cancelled envelope is skipped and its artifact stays.
SkipCancelled ==
    /\ actor.at = "Yielding"
    /\ Left(actor.env)
    /\ cancelled' = cancelled \ {actor.env.art}
    /\ actor' = Drain
    /\ UNCHANGED <<files, store, staged, leftover, recovered, caller, reply, lanes,
                   history>>

DropCancelled ==
    /\ actor.at = "Yielding"
    /\ Left(actor.env)
    /\ staged' = staged \ {actor.env.art}
    /\ cancelled' = cancelled \ {actor.env.art}
    /\ actor' = Drain
    /\ UNCHANGED <<files, store, leftover, recovered, caller, reply, lanes, history>>

SeeNotCancelled ==
    /\ actor.at = "Yielding"
    /\ ~ Left(actor.env)
    /\ actor' = [actor EXCEPT !.at = "Started"]
    /\ UNCHANGED <<files, store, staged, leftover, recovered, caller, cancelled,
                   reply, lanes, history>>

LayerOf(kind) == IF kind = "Substring" THEN "sub" ELSE "core"
Stale(e) == layer[LayerOf(e.kind)] > e.gen

\* The core makes the substring of the file pending.
WithCore(e) == [content EXCEPT !.gen = e.gen, !.ver = e.ver,
                               !.sub = "pending", !.subGen = e.gen]
\* Mutant: a substring counts for the generation of the core it finds.
WithSubstringOfCore(e) ==
    [content EXCEPT !.sub = "ready", !.subGen = content.gen, !.subVer = e.ver]
WithSubstring(e) == [content EXCEPT !.sub = "ready", !.subGen = e.gen, !.subVer = e.ver]

WriteLayers(e) ==
    \/ e.kind = "Other" /\ UNCHANGED store
    \/ /\ e.kind = "Reset"
       /\ content' = NoContent
       /\ layer' = [core |-> 0, sub |-> 0]
    \/ /\ e.kind \in {"Core", "CoreOnly"} /\ ~ Stale(e)
       /\ content' = WithCore(e)
       /\ layer' = [layer EXCEPT !.core = e.gen]
    \/ /\ e.kind = "Substring" /\ ~ Stale(e)
       /\ content' = WithSubstring(e)
       /\ layer' = [layer EXCEPT !.sub = e.gen]

\* The artifact goes unless it was a core's; the answer to a caller that has
\* left goes nowhere.
Answer(e, outcome, keep) ==
    /\ staged' = IF keep THEN staged ELSE staged \ {e.art}
    /\ reply' = IF e.detached \/ Left(e) THEN reply ELSE [reply EXCEPT ![e.art] = outcome]
    /\ raced' = IF keep /\ Left(e) THEN raced \cup {e.art} ELSE raced
    /\ cancelled' = cancelled \ {e.art}
    /\ actor' = Drain
    /\ UNCHANGED <<files, leftover, recovered, caller, lanes, asked, restarts, prepared>>

Publish ==
    /\ actor.at = "Started"
    /\ actor.env.art \in staged
    /\ WriteLayers(actor.env)
    /\ Answer(actor.env, "applied", actor.env.kind = "Core")

\* A stale generation, an artifact that cannot be read, a failed transaction.
FailPublication ==
    /\ actor.at = "Started"
    /\ Answer(actor.env, "failed", FALSE)
    /\ UNCHANGED store

\* The program ends and starts again: what was in memory is gone.
Restart ==
    /\ restarts < MaxRestarts
    /\ restarts' = restarts + 1
    /\ leftover' = staged
    /\ recovered' = FALSE
    /\ caller' = [c \in Callers |-> Away]
    /\ cancelled' = {}
    /\ reply' = [a \in Artifacts |-> "none"]
    /\ channel' = <<>> /\ queue' = <<>> /\ burst' = 0
    /\ actor' = Drain
    /\ raced' = {}
    /\ UNCHANGED <<files, store, staged, asked, prepared>>

-----------------------------------------------------------------------------
CallerStep(c) ==
    \/ AskGeneration(c) \/ Prepare(c) \/ TakeDescriptor(c) \/ GiveUp(c) \/ Recover(c)
    \/ Send(c) \/ CancelBeforeQueue(c) \/ Receive(c) \/ SendDetached(c) \/ SeeNotStarted(c) \/ Leave(c)

ActorStep ==
    \/ Ingest \/ PopBackground \/ PopForeground \/ PopIdle \/ PopMaintenance
    \/ DropCancelled \/ SeeNotCancelled \/ Publish \/ FailPublication

Next == Edit \/ RefreshCatalog \/ Restart \/ ActorStep \/ \E c \in Callers : CallerStep(c)

Spec == Init /\ [][Next]_vars

-----------------------------------------------------------------------------
TypeOK ==
    /\ disk \in 0..MaxVersion /\ catalog \in 0..MaxGeneration
    /\ content \in [gen : 0..MaxGeneration, ver : 0..MaxVersion,
                    sub : {"none", "pending", "ready"},
                    subGen : 0..MaxGeneration, subVer : 0..MaxVersion]
    /\ layer \in [core : 0..MaxGeneration, sub : 0..MaxGeneration]
    /\ leftover \subseteq Artifacts /\ staged \subseteq Artifacts
    /\ recovered \in BOOLEAN
    /\ \A c \in Callers :
          /\ caller[c].at \in {"Idle", "Asked", "Prepared", "Staged", "Waiting",
                               "Leaving", "Detach"}
          /\ caller[c].at \notin {"Idle", "Asked"} => caller[c].env \in Envelopes
    /\ cancelled \subseteq Artifacts
    /\ reply \in [Artifacts -> {"none", "applied", "failed"}]
    /\ Elements(channel) \cup Elements(queue) \subseteq Envelopes
    /\ Len(channel) <= ChannelCapacity /\ Len(queue) <= QueueCapacity
    /\ burst \in 0..BurstLimit
    /\ actor.at \in {"Drain", "Yielding", "Started"}

Underway == Elements(channel) \cup Elements(queue)
                \cup (IF actor.at = "Drain" THEN {} ELSE {actor.env})

(* The artifact of every envelope that is on its way is still staged when the
   actor comes to read it: neither the publication of the core that shares it,
   nor a caller that leaves, nor the recovery of another caller removes it.
   And an artifact that nobody has any more is one an earlier process left, one
   whose request was given up before its descriptor came, or that of a core
   which was published although its caller was told Cancelled: once a caller
   has the descriptor, no other end of its publication leaves the artifact. *)
StagingIsExact ==
    /\ \A e \in Underway : e.art \in staged
    /\ staged \subseteq Held \cup leftover \cup raced

(* Where one generation names one text, a substring that is ready for the
   generation of the core is made of the text of the core, in whatever order
   the two were published, retried or lost. *)
TrigramsAreOfTheCore ==
    /\ content.sub = "ready"
    /\ content.subGen = content.gen
    /\ Cardinality(prepared[content.gen]) = 1
    => content.subVer = content.ver

(* Maintenance is a barrier: it runs after all that arrived before it, and
   nothing that arrived after it runs before it. *)
MaintenanceIsABarrier ==
    [][\A i \in DOMAIN queue :
          /\ Len(queue') = Len(queue) - 1
          /\ queue' = SubSeq(queue, 1, i - 1) \o SubSeq(queue, i + 1, Len(queue))
          /\ actor'.env = queue[i]
          => \/ queue[i].priority # "Maintenance"
                  /\ \A j \in 1..i - 1 : queue[j].priority # "Maintenance"
             \/ i = 1]_vars

\* A caller that waits and has no answer yet.
Unanswered(c) == caller[c].at = "Waiting" /\ reply[caller[c].env.art] = "none"
=============================================================================
