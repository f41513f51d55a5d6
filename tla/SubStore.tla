------------------------------ MODULE SubStore ------------------------------
(* What a subscription store promises to the server (stores/store.go,        *)
(* interface SubStore): a subscription that was flushed is recovered, and    *)
(* with it every message that was sent to it and is not acknowledged.        *)
EXTENDS Integers

VARIABLES subs,      \* id -> [last: the last sequence sent, pending: not acknowledged]
          safe,      \* the subscriptions at the last Flush
          since,     \* those that were there at any time since
          \* Left to the implementation, what is not promised:
          undeleted, \* subscriptions whose deletion failed and may come back
          exposed    \* sequences that a restart may lose

vars == <<subs, safe, since>>

Init == subs = [i \in {} |-> i] /\ safe = {} /\ since = {}

SameExcept(id) ==
    /\ DOMAIN subs' \ {id} = DOMAIN subs \ {id}
    /\ \A i \in (DOMAIN subs) \ {id} : subs'[i] = subs[i]

CreateSub(id) ==
    /\ id \notin DOMAIN subs /\ id \in DOMAIN subs' /\ SameExcept(id)
    /\ since' = since \cup {id} /\ UNCHANGED safe
DeleteSub(id) == id \notin DOMAIN subs' /\ SameExcept(id) /\ UNCHANGED <<safe, since>>

AddSeqPending(id, seq) ==
    /\ SameExcept(id) /\ UNCHANGED <<safe, since>>
    /\ subs'[id] = [last |-> IF seq > subs[id].last THEN seq ELSE subs[id].last,
                    pending |-> subs[id].pending \cup {seq}]

AckSeqPending(id, seq) ==
    /\ SameExcept(id) /\ UNCHANGED <<safe, since>>
    /\ subs'[id].pending = subs[id].pending \ {seq}

Flush == safe' = DOMAIN subs /\ since' = DOMAIN subs \cup undeleted /\ UNCHANGED subs

\* A crash or a restart. What was flushed and not deleted since is there, what
\* was deleted before the flush is not. A message that was sent and not
\* acknowledged is above the last one sent to the queue group (or the single
\* subscription) and will be sent again, or it is pending for one of the members.
Restart ==
    /\ safe \cap (DOMAIN subs) \subseteq DOMAIN subs'
    /\ DOMAIN subs' \subseteq since
    /\ \A i \in (DOMAIN subs') \cap (DOMAIN subs) :
          \A s \in subs[i].pending \ exposed :
             (\E j \in DOMAIN subs' : s <= subs'[j].last) =>
             (\E j \in DOMAIN subs' : s \in subs'[j].pending)
    /\ safe' = DOMAIN subs' /\ since' = DOMAIN subs'

Next ==
    \/ \E i \in DOMAIN subs' : CreateSub(i)
    \/ \E i \in DOMAIN subs : DeleteSub(i)
    \/ \E i \in (DOMAIN subs) \cap (DOMAIN subs') :
          \/ \E s \in subs'[i].pending : AddSeqPending(i, s)
          \/ \E s \in subs[i].pending : AckSeqPending(i, s)
    \/ Flush
    \/ Restart

Spec == Init /\ [][Next]_vars
=============================================================================
