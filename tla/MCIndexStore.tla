---------------------------- MODULE MCIndexStore ----------------------------
(* TLC instances of the store and of the publication into it, side by side: *)
(* part says which of them runs, the variables of the others stay initial.  *)
EXTENDS StoreWriter, TLC

CONSTANTS r1, r2, w1, c1, c2

VARIABLE part

\* Every kind that writes or clears content, in three lanes.
ContentWork == {[kind |-> "Core", priority |-> "Foreground"],
                [kind |-> "CoreOnly", priority |-> "Background"],
                [kind |-> "Substring", priority |-> "Background"],
                [kind |-> "Reset", priority |-> "Maintenance"]}

\* Publications that never end, for the turns of the lanes.
LaneWork == [kind : {"Other"}, priority : {"Foreground", "Background", "Maintenance"}]

Lanes == INSTANCE IndexPublication WITH
    Work <- LaneWork, MaxAsked <- 0, MaxVersion <- 0, MaxRestarts <- 0

AllInit == part \in {"store", "content", "lanes"} /\ Init /\ Pub!Init

AllNext ==
    /\ part' = part
    /\ \/ part = "store" /\ Next /\ UNCHANGED publication
       \/ part = "content" /\ Pub!Next /\ UNCHANGED vars
       \/ /\ part = "lanes"
          /\ Lanes!ActorStep \/ \E c \in Callers : Lanes!CallerStep(c)
          /\ UNCHANGED vars

AllSpec == AllInit /\ [][AllNext]_<<part, vars, publication>>
\* The actor's thread runs whenever it can; no caller has to go on.
LaneActor == part = "lanes" /\ Lanes!ActorStep
FairSpec == AllSpec /\ WF_publication(LaneActor)

\* A background publication is answered however many foreground ones come: that
\* of c1, the callers being alike.
LaneWaits == part = "lanes" /\ Lanes!Unanswered(c1)
BackgroundGoesOn == LaneWaits /\ caller[c1].env.priority = "Background" ~> ~ LaneWaits
=============================================================================
