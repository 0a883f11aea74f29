---------------------------- MODULE StoreWriter ----------------------------
(* The writer actor, to stand beside the store it writes to.  A publication   *)
(* knows the store as the rows it commits, and the store a publication as one *)
(* of its writers, so neither changes a variable of the other.                *)
EXTENDS IndexStore

CONSTANTS Callers, Slots, Work, ChannelCapacity, QueueCapacity, BurstLimit,
          MaxAsked, MaxVersion, MaxGeneration, MaxRestarts   \* as in IndexPublication

VARIABLES disk, catalog, content, layer, staged, leftover, recovered, caller,
          cancelled, reply, channel, queue, burst, actor, asked, restarts, raced, prepared

publication == <<disk, catalog, content, layer, staged, leftover, recovered, caller,
                 cancelled, reply, channel, queue, burst, actor, asked, restarts, raced,
                 prepared>>

Pub == INSTANCE IndexPublication

\* A catalog has a generation from the start.
ASSUME PublicationAssumption ==
    /\ Slots \in Nat /\ ChannelCapacity \in Nat /\ QueueCapacity \in Nat /\ BurstLimit \in Nat
    /\ MaxVersion \in Nat /\ MaxGeneration \in Nat \ {0}
    /\ Work \subseteq [kind : Pub!Kinds, priority : Pub!Priorities]

(* Every artifact on its way to the actor is still staged.  Only a restart, a *)
(* request given up before its descriptor came and the race of a cancellation *)
(* with the start leave an artifact to nobody.                                *)
StagingIsExact == Pub!StagingIsExact

(* A ready substring is of the text of the core of its generation.            *)
TrigramsAreOfTheCore == Pub!TrigramsAreOfTheCore

(* A maintenance publication runs between what came before and after it.      *)
MaintenanceIsABarrier == Pub!MaintenanceIsABarrier
=============================================================================
