-------------------------------- MODULE MCLive -------------------------------
(* Delivery and getNextMsg, each alone, under the fairness of its steps.       *)
EXTENDS Delivery, NextMsg

VARIABLE part       \* the component that moves

MCInit == part \in {"delivery", "getNextMsg"} /\ Init /\ NMInit

MCNext ==
    /\ \/ part = "delivery" /\ Next /\ UNCHANGED nmVars
       \/ part = "getNextMsg" /\ NMNext /\ UNCHANGED vars
    /\ UNCHANGED part

MCSpec ==
    /\ MCInit /\ [][MCNext]_<<vars, nmVars, part>>
    /\ Fairness
    /\ WF_nmVars(part = "getNextMsg" /\ NMsendNext)
=============================================================================
