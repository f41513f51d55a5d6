----------------------------- MODULE MCDelivery -----------------------------
(* Instances of Delivery for TLC. *)
EXTENDS Delivery, TLC

(* The members of a queue group, and the ack timer callbacks, are alike. *)
Symmetry == Permutations(QSubs) \cup Permutations(RThreads)
=============================================================================
