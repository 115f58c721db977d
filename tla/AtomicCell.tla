----------------------------- MODULE AtomicCell -----------------------------
(***************************************************************************)
(* What an update of one value that falls back on an older copy promises.  *)
(* cell is the set holding what a reader finds (empty when it finds        *)
(* nothing), target the set holding the value being written (empty when no *)
(* update runs).  While the older copy can be relied on, a reader finds    *)
(* the old value or the new one, during an update and after one that was   *)
(* cut.  hurt is TRUE once it cannot: an update that was cut, or that is   *)
(* finished, may leave it so, and so may a fault while none runs.  From    *)
(* then on an update passes through states where a reader finds anything,  *)
(* but one that finishes still leaves its value.                           *)
(***************************************************************************)
VARIABLES cell, target, hurt

Init == target = {} /\ hurt = FALSE

Begin == target = {} /\ target' # {} /\ UNCHANGED <<cell, hurt>>

Commit == target # {} /\ cell' = target /\ UNCHANGED <<target, hurt>>

Flux == target # {} /\ hurt /\ UNCHANGED <<target, hurt>>

Finish == target # {} /\ cell' = target /\ target' = {} /\ (hurt => hurt')

Cut == target # {} /\ target' = {} /\ hurt' = TRUE /\ UNCHANGED cell

Doubt == target = {} /\ hurt' = TRUE /\ UNCHANGED <<cell, target>>

Next == Begin \/ Commit \/ Flux \/ Finish \/ Cut \/ Doubt

Spec == Init /\ [][Next]_<<cell, target, hurt>>
=============================================================================
