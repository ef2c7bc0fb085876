---------------------------- MODULE UploadService ----------------------------
(***************************************************************************)
(* What HTTPClient promises its callers: the uploads it accepts, numbered  *)
(* as they come, are begun in that order, no more than PoolSize at a time, *)
(* each once, and end.                                                     *)
(***************************************************************************)
EXTENDS Naturals, FiniteSets

CONSTANTS PoolSize, MaxTasks

VARIABLES waiting, running, finished

service == <<waiting, running, finished>>

Init == waiting = {} /\ running = {} /\ finished = {}

Accept(k) ==
    /\ \A j \in waiting \cup running \cup finished : j < k
    /\ waiting' = waiting \cup {k}
    /\ UNCHANGED <<running, finished>>

Begin ==
    /\ Cardinality(running) < PoolSize
    /\ \E k \in waiting :
          /\ \A j \in waiting : k <= j
          /\ waiting' = waiting \ {k} /\ running' = running \cup {k}
    /\ UNCHANGED finished

Finish(k) ==
    /\ k \in running
    /\ running' = running \ {k} /\ finished' = finished \cup {k}
    /\ UNCHANGED waiting

Next == Begin \/ \E k \in 1 .. MaxTasks : Accept(k) \/ Finish(k)

SafeSpec == Init /\ [][Next]_service
Spec == /\ SafeSpec
        /\ WF_service(Begin) /\ \A k \in 1 .. MaxTasks : WF_service(Finish(k))
=============================================================================
