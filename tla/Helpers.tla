------------------------------ MODULE Helpers -------------------------------
(* Helpers of the modules in this directory.                                 *)
EXTENDS Integers

\* Op applied to the value of e, computed once.
Let(e, Op(_)) == CHOOSE y \in {Op(x) : x \in {e}} : TRUE

\* A function with nothing in its domain, one without some arguments, one with
\* one more.
EmptyFcn == [x \in {} |-> x]
Without(f, S) == [x \in (DOMAIN f) \ S |-> f[x]]
With(f, x, y) == [z \in (DOMAIN f) \cup {x} |-> IF z = x THEN y ELSE f[z]]

Larger(a, b) == IF a > b THEN a ELSE b

\* The subscriptions are the members of a queue group (or one subscription), and
\* lastSent is the last sequence the server sent to the group. A message is sent
\* to a member for the first time, in order, or is redelivered to another member;
\* then the store gets the ack of the first one afterwards.
SentTo(subs, lastSent, id, seq) ==
    \/ seq > lastSent
    \/ \E other \in (DOMAIN subs) \ {id} : seq \in subs[other].pending

\* What the server finds after a restart: the highest one of the members.
RecoveredLastSent(subs) ==
    CHOOSE n \in {0} \cup {subs[i].last : i \in DOMAIN subs} : \A i \in DOMAIN subs : subs[i].last <= n
=============================================================================
