---------------------------- MODULE SentAckProofs ----------------------------
(* The events that the leader collects are always about to be replicated, for *)
(* every number of members, every batch size above one and any number of      *)
(* messages, redeliveries and closes.                                         *)
EXTENDS SentAck, TLAPS, FiniteSetTheorems, WellFoundedInduction

(* The time each step may take, for the ones that name no prover. *)
USE SMTT(60)

(* The shape of what collectSentOrAck and the replicator go-routine share. *)
Events ==
    [sent : SUBSET Nat, ack : SUBSET Nat, hiSentSeq : Nat, hiAckSeq : Nat,
     applying : BOOLEAN, stopped : BOOLEAN]

Shape ==
    /\ lastSent \in Nat
    /\ acksPending \in [group -> SUBSET Nat]
    /\ replicate \in [group -> Events]
    /\ DOMAIN replicator = {"pc", "todo", "sub", "ops", "addedToReady"}

(* The go-routine has one subscription in hand between taking it out of a map *)
(* and replicating its events, and none while it ranges over the maps.        *)
OneInHand ==
    /\ replicator.pc \in {"store", "lock"} => \E m \in group : replicator.sub = {m}

SAInv == Shape /\ OneInHand /\ EventsScheduled

(* A count of one or the other: Max of two numbers is one of them. *)
LEMMA MaxOfTwo == \A a, b \in Nat : Max({a, b}) \in Nat
<1> SUFFICES ASSUME NEW a \in Nat, NEW b \in Nat PROVE Max({a, b}) \in Nat
    OBVIOUS
<1>1. \E x \in {a, b} : \A y \in {a, b} : x >= y
    BY DEF Max
<1> QED
    BY <1>1 DEF Max

(* Remove takes the lowest of the messages that are left. *)
LEMMA MinIn ==
    ASSUME NEW S \in SUBSET Nat, S # {}
    PROVE  Min(S) \in S
<1> DEFINE R == OpToRel(<, Nat)
<1>1. \E x \in S : \A y \in S : ~(<<y, x>> \in R)
    <2>1. IsWellFoundedOn(R, Nat)
        BY NatLessThanWellFounded, Zenon
    <2> HIDE DEF R
    <2> QED
        BY <2>1, WFMin, Zenon
<1>2. \A x, y \in Nat : <<y, x>> \in R <=> y < x
    BY DEF OpToRel
<1> HIDE DEF R
<1>a. PICK x \in S : \A y \in S : ~(y < x)
    BY <1>1, <1>2, Zenon
<1>b. \A y \in S : x \in Nat /\ y \in Nat
    OBVIOUS
<1>3. \A y \in S : x <= y
    BY <1>a, <1>b
<1> QED
    BY <1>3, Zenon DEF Min

(* A subscription with nothing outstanding that gets an event has a count of *)
(* one: collectSentOrAck puts it in waiting.                                 *)
LEMMA FirstEvent ==
    ASSUME NEW r \in Events, NEW seq \in Nat, NEW s \in Events,
           s = CollectedSent(r, seq) \/ s = CollectedAck(r, seq),
           ~Outstanding(r)
    PROVE  Count(s) = 1
<1>1. r.sent = {} /\ r.ack = {}
    BY DEF Outstanding
<1>2. Cardinality({}) = 0 /\ Cardinality({seq}) = 1
    BY FS_EmptySet, FS_Singleton
<1>3. CASE s = CollectedSent(r, seq)
    <2>1. s.sent = {seq} /\ s.ack = {}
        BY <1>1, <1>3 DEF CollectedSent, Events
    <2> QED
        BY <2>1, <1>2 DEF Count
<1>4. CASE s = CollectedAck(r, seq)
    <2>1. s.sent = {} /\ s.ack = {seq}
        BY <1>1, <1>4 DEF CollectedAck, Events
    <2> QED
        BY <2>1, <1>2 DEF Count
<1> QED
    BY <1>3, <1>4

(* Events that were taken to be replicated leave nothing outstanding. *)
LEMMA Cleared ==
    ASSUME NEW a \in BOOLEAN, NEW b \in BOOLEAN
    PROVE  NoEvents(a, b) \in Events /\ ~Outstanding(NoEvents(a, b))
<1>1. {} \in SUBSET Nat /\ 0 \in Nat /\ ~(0 > 0)
    OBVIOUS
<1>2. NoEvents(a, b) \in Events
    BY <1>1, Zenon DEF NoEvents, Events
<1>3. ~Outstanding(NoEvents(a, b))
    BY <1>1 DEF NoEvents, Outstanding
<1> QED
    BY <1>2, <1>3

(* Collecting an event keeps the shape of the events. *)
LEMMA CollectedType ==
    ASSUME NEW r \in Events, NEW seq \in Nat
    PROVE  CollectedSent(r, seq) \in Events /\ CollectedAck(r, seq) \in Events
<1>1. Max({r.hiSentSeq, seq}) \in Nat
    BY MaxOfTwo DEF Events
<1>2. CollectedSent(r, seq) \in Events
    BY <1>1, Zenon DEF CollectedSent, Events
<1>3. CollectedAck(r, seq) \in Events
    BY Zenon DEF CollectedAck, Events
<1> QED
    BY <1>2, <1>3

(* Events are collected: a subscription that gets its first event is put in   *)
(* waiting, one that fills a batch in ready with a signal.                    *)
LEMMA Collect ==
    ASSUME SAInv, NEW sent, NEW ack, collectSentOrAck(sent, ack),
           DOMAIN sent \subseteq group, DOMAIN ack \subseteq group,
           \A m \in DOMAIN sent : sent[m] \in Nat,
           \A m \in DOMAIN ack : ack[m] \in Nat,
           UNCHANGED <<group, replicator>>
    PROVE  replicate' \in [group -> Events] /\ EventsScheduled'
<1> DEFINE M == {m \in (DOMAIN sent) \cup (DOMAIN ack) : ~replicate[m].stopped}
           Step(m) == \/ m \in M /\ \E seq \in Nat :
                            \/ replicate'[m] = CollectedSent(replicate[m], seq)
                            \/ replicate'[m] = CollectedAck(replicate[m], seq)
                      \/ m \notin M /\ replicate'[m] = replicate[m]
<1>0. replicate \in [group -> Events]
    BY DEF SAInv, Shape
<1>1. \A m \in group : Step(m)
    BY DEF collectSentOrAck
<1>2. \A m \in group : replicate'[m] \in Events
    BY <1>0, <1>1, CollectedType
<1>3. replicate' \in [group -> Events]
    BY <1>2 DEF collectSentOrAck
<1>4. PICK first, full :
          /\ first = {m \in M : Count(replicate'[m]) = 1}
          /\ full = {m \in M : Count(replicate'[m]) = maxSentOrAckSequences}
          /\ waiting' = (waiting \cup first) \ full
          /\ ready' = ready \cup full
          /\ notifyCh' = (notifyCh \/ full # {})
    BY Zenon DEF collectSentOrAck, Schedule
<1>5. first \cap full = {}
    BY <1>4, SentAckAssumption
<1>6. ASSUME NEW m \in group, Outstanding(replicate'[m]), ~Outstanding(replicate[m])
      PROVE  m \in waiting'
    <2>1. m \in M
        BY <1>1, <1>6
    <2>2. Count(replicate'[m]) = 1
        BY <1>0, <1>1, <1>2, <1>6, <2>1, FirstEvent
    <2> QED
        BY <2>1, <2>2, <1>4, <1>5
<1>7. EventsScheduled'
    BY <1>4, <1>6, Zenon DEF SAInv, EventsScheduled
<1> QED
    BY <1>3, <1>7

(* The handlers that collect events. *)
LEMMA CollectSteps ==
    ASSUME SAInv,
           \/ \E m \in group : \/ sendMsgToSub(m)
                               \/ \E seq \in acksPending[m], n \in group : redeliverToOther(m, n, seq)
                               \/ \E n \in group : transferToOther(m, n)
           \/ \E seq \in 1..lastSent : processAck(seq)
    PROVE  SAInv'
<1> USE DEF Shape
<1>0. Shape
    BY DEF SAInv
<1>e. DOMAIN <<>> = {}
    OBVIOUS
<1>1. ASSUME NEW m \in group, sendMsgToSub(m) PROVE SAInv'
    <2>1. replicate' \in [group -> Events] /\ EventsScheduled'
        BY <1>0, <1>1, <1>e, Collect DEF sendMsgToSub
    <2>a. /\ lastSent' = lastSent + 1
          /\ acksPending' = [acksPending EXCEPT ![m] = @ \cup {lastSent + 1}]
          /\ UNCHANGED <<group, replicator>>
        BY <1>1 DEF sendMsgToSub
    <2>2. Shape'
        BY <1>0, <2>1, <2>a
    <2>3. OneInHand'
        BY <1>1 DEF sendMsgToSub, SAInv, OneInHand
    <2> QED
        BY <2>1, <2>2, <2>3 DEF SAInv
<1>2. ASSUME NEW m \in group, NEW n \in group, NEW seq \in acksPending[m], redeliverToOther(m, n, seq)
      PROVE  SAInv'
    <2>0. seq \in Nat
        BY <1>0
    <2>1. replicate' \in [group -> Events] /\ EventsScheduled'
        BY <1>0, <1>2, <2>0, Collect DEF redeliverToOther
    <2>2. Shape'
        BY <1>0, <1>2, <2>0, <2>1, Zenon DEF redeliverToOther
    <2>3. OneInHand'
        BY <1>2 DEF redeliverToOther, SAInv, OneInHand
    <2> QED
        BY <2>1, <2>2, <2>3 DEF SAInv
<1>3. ASSUME NEW seq \in 1..lastSent, processAck(seq) PROVE SAInv'
    <2>0. seq \in Nat
        BY <1>0
    <2>1. PICK m \in group :
             /\ acksPending' = [acksPending EXCEPT ![m] = @ \ {seq}]
             /\ collectSentOrAck(<<>>, [x \in {m} |-> seq])
             /\ UNCHANGED <<group, lastSent, replicator>>
        BY <1>3, Zenon DEF processAck
    <2>2. replicate' \in [group -> Events] /\ EventsScheduled'
        BY <2>0, <2>1, <1>e, Collect
    <2>3. Shape'
        BY <1>0, <2>1, <2>2, ZenonT(60)
    <2>4. OneInHand'
        BY <2>1 DEF SAInv, OneInHand
    <2> QED
        BY <2>2, <2>3, <2>4 DEF SAInv
<1>4. ASSUME NEW m \in group, NEW n \in group, transferToOther(m, n) PROVE SAInv'
    <2> DEFINE seq == Min(acksPending[m])
    <2>0. seq \in Nat
        BY <1>0, <1>4, MinIn DEF transferToOther
    <2>a. /\ acksPending' = [acksPending EXCEPT ![m] = @ \ {seq}, ![n] = @ \cup {seq}]
          /\ collectSentOrAck([x \in {n} |-> seq], <<>>)
          /\ UNCHANGED <<group, lastSent, replicator>>
        BY <1>4 DEF transferToOther
    <2> HIDE DEF seq
    <2>1. replicate' \in [group -> Events] /\ EventsScheduled'
        BY <2>0, <2>a, <1>e, Collect
    <2>2. Shape'
        BY <1>0, <2>0, <2>1, <2>a, Zenon
    <2>3. OneInHand'
        BY <2>a DEF SAInv, OneInHand
    <2> QED
        BY <2>1, <2>2, <2>3 DEF SAInv
<1> QED
    BY <1>1, <1>2, <1>3, <1>4

(* The replicator takes a subscription out of a map, replicates its events or *)
(* goes on; what was in ready when a flush starts is visited by it.           *)
LEMMA ReplicatorSteps ==
    ASSUME SAInv,
           \/ \E m \in group : \/ moveToReady(m) \/ takeReady(m)
                               \/ replicateSubSentAndAck(m) \/ applyBatch(m)
           \/ tick \/ storeInReady \/ tickEnds \/ notified \/ flushEnds
    PROVE  SAInv'
<1> USE DEF SAInv, Shape, OneInHand, EventsScheduled, replicatorMoves, leaderVars, schedVars
<1>1. ASSUME NEW m \in group, moveToReady(m) PROVE SAInv'
    BY <1>1, ZenonT(60) DEF moveToReady
<1>2. ASSUME NEW m \in group, takeReady(m) PROVE SAInv'
    BY <1>2, ZenonT(60) DEF takeReady
<1>3. ASSUME NEW m \in group, replicateSubSentAndAck(m) PROVE SAInv'
    <2>1. CASE Outstanding(replicate[m])
        <3> DEFINE none == NoEvents(TRUE, replicate[m].stopped)
        <3>1. none \in Events /\ ~Outstanding(none)
            <4>1. replicate[m].stopped \in BOOLEAN
                BY ZenonT(60) DEF Events
            <4> QED
                BY <4>1, Cleared, ZenonT(60)
        <3>2. /\ replicate' = [replicate EXCEPT ![m] = none]
              /\ replicator' = [replicator EXCEPT !.pc = "apply",
                                  !.ops = <<createSubSentAndAckProto(m)>>]
              /\ replicator.pc = "lock" /\ m \in replicator.sub
              /\ UNCHANGED <<group, lastSent, acksPending, waiting, ready, notifyCh>>
            BY <1>3, <2>1, ZenonT(60) DEF replicateSubSentAndAck
        <3> HIDE DEF none
        <3>3. Shape'
            BY <3>1, <3>2
        <3>4. OneInHand'
            BY <3>2
        <3>5. EventsScheduled'
            BY <3>1, <3>2
        <3> QED
            BY <3>3, <3>4, <3>5
    <2>2. CASE ~Outstanding(replicate[m])
        BY <1>3, <2>2, ZenonT(60) DEF replicateSubSentAndAck
    <2> QED
        BY <2>1, <2>2
<1>4. ASSUME NEW m \in group, applyBatch(m) PROVE SAInv'
    <2>1. /\ replicate' = [replicate EXCEPT ![m] = [@ EXCEPT !.applying = FALSE]]
          /\ replicator' = [replicator EXCEPT !.pc = "flush", !.sub = {}, !.ops = <<>>]
          /\ replicator.pc = "apply"
          /\ UNCHANGED <<group, lastSent, acksPending, waiting, ready, notifyCh>>
        BY <1>4 DEF applyBatch
    <2>2. replicate' \in [group -> Events]
        <3>1. replicate[m] \in Events /\ replicate \in [group -> Events]
            BY DEF SAInv, Shape
        <3>2. [replicate[m] EXCEPT !.applying = FALSE] \in Events
            BY <3>1, ZenonT(60) DEF Events
        <3> QED
            BY <2>1, <3>1, <3>2, ZenonT(60)
    <2>3. \A x \in group : Outstanding(replicate'[x]) <=> Outstanding(replicate[x])
        BY <2>1 DEF Events, Outstanding
    <2>4. Shape' /\ OneInHand'
        BY <2>1, <2>2
    <2>5. EventsScheduled'
        BY <2>1, <2>3
    <2> QED
        BY <2>4, <2>5
<1>5. CASE tick
    BY <1>5 DEF tick
<1>6. CASE storeInReady
    BY <1>6 DEF storeInReady
<1>7. CASE tickEnds
    BY <1>7 DEF tickEnds, StartFlush, Idle
<1>8. CASE notified
    BY <1>8 DEF notified, StartFlush, Idle
<1>9. CASE flushEnds
    BY <1>9 DEF flushEnds, Idle
<1> QED
    BY <1>1, <1>2, <1>3, <1>4, <1>5, <1>6, <1>7, <1>8, <1>9, Zenon

(* A close takes the subscription out of the maps with its events; the other  *)
(* steps collect and schedule nothing.                                        *)
LEMMA CloseSteps ==
    ASSUME SAInv,
           \/ \E m \in group : \/ \E unsub \in BOOLEAN : endSubSentAndAckReplication(m, unsub)
                               \/ endTimesOut(m) \/ replicateSubCloseOrUnsubscribe(m)
                               \/ heartbeatClose(m) \/ replicateSub(m) \/ transferEnds(m)
           \/ leaderApply \/ followerApply
           \/ UNCHANGED saVars
    PROVE  SAInv'
<1> USE DEF closeMoves, leaderVars, schedVars
<1>1. ASSUME NEW m \in group, NEW unsub \in BOOLEAN, endSubSentAndAckReplication(m, unsub) PROVE SAInv'
    <2> DEFINE none == NoEvents(replicate[m].applying, TRUE)
    <2>1. none \in Events /\ ~Outstanding(none)
        <3>1. replicate[m].applying \in BOOLEAN
            BY ZenonT(60) DEF SAInv, Shape, Events
        <3> QED
            BY <3>1, Cleared, ZenonT(60)
    <2>2. /\ replicate' = [replicate EXCEPT ![m] = none]
          /\ waiting' = waiting \ {m} /\ ready' = ready \ {m}
          /\ UNCHANGED <<group, lastSent, acksPending, notifyCh, replicator>>
        BY <1>1 DEF endSubSentAndAckReplication, clearSentAndAck
    <2> HIDE DEF none
    <2>3. Shape' /\ OneInHand'
        BY <2>1, <2>2 DEF SAInv, Shape, OneInHand
    <2>4. EventsScheduled'
        BY <2>1, <2>2 DEF SAInv, Shape, EventsScheduled
    <2> QED
        BY <2>3, <2>4 DEF SAInv
<1>2. CASE leaderApply
    <2> DEFINE m == Head(toApply).sub
               b == replicate[m].stopped /\ Head(toApply).type # "subscribe"
    <2>0. b \in BOOLEAN
        OBVIOUS
    <2> DEFINE P == IF Head(toApply).type = "unsubscribe" /\ ~(\E n \in group \ {m} : open[n])
                   THEN {} ELSE acksPending[m]
    <2>p. acksPending' = [acksPending EXCEPT ![m] = P]
        BY <1>2, Zenon DEF leaderApply
    <2>q. P = {} \/ P = acksPending[m]
        BY Zenon
    <2>1. replicate' = [replicate EXCEPT ![m] = [@ EXCEPT !.stopped = b]]
        BY <1>2, Zenon DEF leaderApply
    <2> HIDE DEF b, P, m
    <2>2. UNCHANGED <<group, lastSent, waiting, ready, notifyCh, replicator>>
        BY <1>2 DEF leaderApply
    <2>3. replicate' \in [group -> Events]
        <3>1. replicate \in [group -> Events]
            BY DEF SAInv, Shape
        <3>2. ASSUME m \in group PROVE [replicate[m] EXCEPT !.stopped = b] \in Events
            <4>1. replicate[m] \in Events
                BY <3>1, <3>2
            <4> QED
                BY <4>1, <2>0, ZenonT(60) DEF Events
        <3>3. \A x \in group : replicate'[x] \in Events
            BY <2>1, <3>1, <3>2, Zenon
        <3> QED
            BY <2>1, <3>1, <3>3, Zenon
    <2>4. \A x \in group : Outstanding(replicate'[x]) <=> Outstanding(replicate[x])
        BY <2>1 DEF Events, Outstanding, SAInv, Shape
    <2>a. acksPending' \in [group -> SUBSET Nat]
        <3>1. acksPending \in [group -> SUBSET Nat] /\ {} \in SUBSET Nat
            BY DEF SAInv, Shape
        <3>2. \A x \in group : acksPending'[x] \in SUBSET Nat
            BY <2>p, <2>q, <3>1, Zenon
        <3> QED
            BY <2>p, <3>1, <3>2, Zenon
    <2>5. Shape' /\ OneInHand'
        BY <2>2, <2>3, <2>a DEF SAInv, Shape, OneInHand
    <2>6. EventsScheduled'
        BY <2>2, <2>4 DEF SAInv, EventsScheduled
    <2> QED
        BY <2>5, <2>6 DEF SAInv
<1>3. ASSUME UNCHANGED <<group, lastSent, acksPending, replicate, waiting, ready, notifyCh, replicator>>
      PROVE  SAInv'
    BY <1>3 DEF SAInv, Shape, OneInHand, EventsScheduled
<1>4. ASSUME \/ \E m \in group : \/ replicateSubCloseOrUnsubscribe(m) \/ heartbeatClose(m)
                                 \/ replicateSub(m) \/ endTimesOut(m) \/ transferEnds(m)
             \/ followerApply \/ UNCHANGED saVars
      PROVE  UNCHANGED <<group, lastSent, acksPending, replicate, waiting, ready, notifyCh, replicator>>
    BY <1>4, ZenonT(60) DEF replicateSubCloseOrUnsubscribe, heartbeatClose, replicateSub, endTimesOut,
                transferEnds, followerApply, saVars
<1> QED
    BY <1>1, <1>2, <1>3, <1>4

(* What was collected stays scheduled until it is replicated: collectSentOrAck *)
(* can rely on the exact count of events, whatever close, tick and flush       *)
(* interleave with it.                                                         *)
THEOREM EventsAlwaysScheduled == SASpec => []EventsScheduled
<1>1. SAInit => SAInv
    BY DEF SAInit, SAInv, Shape, OneInHand, EventsScheduled, Events, NoEvents, Idle, Outstanding
<1>2. SAInv /\ [SANext]_saVars => SAInv'
    BY CollectSteps, ReplicatorSteps, CloseSteps DEF SANext
<1>3. SAInv => EventsScheduled
    BY DEF SAInv
<1> QED
    BY <1>1, <1>2, <1>3, PTL DEF SASpec
==============================================================================
