------------------------ MODULE DeliverySafetyProofs -------------------------
(***************************************************************************)
(* The safety invariants of Delivery, with every failure of Events: no     *)
(* message is lost, none is left without redelivery, no durable is left on *)
(* hold.                                                                   *)
(***************************************************************************)
EXTENDS DeliveryProofs

(* The time each step may take, for the ones that name no prover. *)
USE SMTT(60)

-----------------------------------------------------------------------------
(***************************************************************************)
(* NoMsgLost.  A pending message leaves acksPending without an ack of the  *)
(* client only when the store does not have it: that must mean removed,    *)
(* not yet to come, hence PendingPublished.  The implicit ack of a         *)
(* hand-over must not reach a plain subscription, hence HandOverInGroup.   *)
(***************************************************************************)
PendingPublished == \A s \in Subs : \A q \in acksPending[s] : q <= last

HandOverInGroup == \A r \in RThreads : rd[r].ack # 0 => rd[r].sub \in QSubs

LossInv == PendingPublished /\ HandOverInGroup /\ NoMsgLost

(* The last member leaves its group: what happens to the subscriptions. *)
LEMMA RemoveLastEffect ==
  ASSUME TypeOK, NEW s \in QSubs, removeLast(s)
  PROVE  /\ \A x \in Subs : place'[x] = "listed" => x # s /\ place[x] = "listed"
         /\ \A x \in Subs \ QSubs : place'[x] = place[x] /\ LastSent'[x] = LastSent[x]
         /\ UNCHANGED acksPending
<1>0. s \in Subs /\ place \in [Subs -> {"gone", "listed", "left", "offline", "shadow"}]
    BY DEF Subs, TypeOK, FlagsType
<1>1. \/ place' = [m \in Subs |-> IF m \in QSubs THEN "gone" ELSE place[m]]
      \/ place' = [place EXCEPT ![s] = "shadow"]
    BY Zenon DEF removeLast
<1>2. \A x \in Subs : place'[x] = "listed" => x # s /\ place[x] = "listed"
    BY <1>0, <1>1
<1>3. \A x \in Subs \ QSubs : place'[x] = place[x]
    BY <1>0, <1>1
<1>4. LastSent' = LastSent \/ LastSent' = [LastSent EXCEPT ![s] = lastSent]
    BY Zenon DEF removeLast
<1>5. \A x \in Subs \ QSubs : LastSent'[x] = LastSent[x]
    BY <1>4 DEF TypeOK, SendType
<1>6. UNCHANGED acksPending
    BY Zenon DEF removeLast
<1> QED
    BY <1>2, <1>3, <1>5, <1>6

(* What sendMsgToSub does to the cursors and pending messages. *)
SendChange(s, q, ls) ==
    /\ \A x \in Subs \ {s} : LastSent'[x] = LastSent[x] /\ acksPending'[x] = acksPending[x]
    /\ acksPending[s] \subseteq acksPending'[s]
    /\ acksPending'[s] \subseteq acksPending[s] \cup {q}
    /\ \/ LastSent'[s] = ls
       \/ q \notin acksPending[s] /\ q > ls /\ LastSent'[s] = q /\ q \in acksPending'[s]

(* sendMsgToSub makes at most q pending, and moves the cursor only if it does. *)
LEMMA SendEffect ==
  ASSUME TypeOK, NEW s \in Subs, NEW q \in Seqs, NEW ls \in 0..MaxSeq,
         NEW force, NEW sent, NEW more, sendMsgToSub(s, q, ls, force, sent, more)
  PROVE  SendChange(s, q, ls)
  BY DEF sendMsgToSub, AddPending, NotSent, TypeOK, SendType, SendChange

(* What processAck does to the pending messages of plain subscriptions. *)
LEMMA AckEffect ==
  ASSUME TypeOK, NEW t \in Threads, NEW s \in Subs, NEW q, NEW fromUser \in BOOLEAN,
         processAck(t, s, q, fromUser)
  PROVE  /\ LastSent' = LastSent
         /\ \A x \in Subs : acksPending'[x] \subseteq acksPending[x]
         /\ \A x \in PSubs : /\ acked[x] \subseteq acked'[x]
                             /\ \A p \in acksPending[x] :
                                   \/ p \in acksPending'[x]
                                   \/ x = s /\ p = q /\ (fromUser => p \in acked'[x])
<1>1. PSubs \subseteq Subs /\ PSubs \cap QSubs = {} /\ QSubs \subseteq Subs
    BY SlotsAssumption DEF PSubs, Subs
<1>2. CASE UNCHANGED <<acksPending, ackVars>>
    BY <1>2, <1>1 DEF processAck, ackVars, TypeOK, SendType, AckType
<1>3. ASSUME NEW h \in ackHolders(s, q, fromUser),
             acksPending' = [acksPending EXCEPT ![h] = @ \ {q}],
             recordAck(s, q, fromUser)
      PROVE  /\ \A x \in Subs : acksPending'[x] \subseteq acksPending[x]
             /\ \A x \in PSubs : /\ acked[x] \subseteq acked'[x]
                                 /\ \A p \in acksPending[x] :
                                       \/ p \in acksPending'[x]
                                       \/ x = s /\ p = q /\ (fromUser => p \in acked'[x])
    <2>1. h \in Subs /\ (h = s \/ h \in QSubs)
        BY <1>1 DEF ackHolders, Members
    <2>2. \A x \in PSubs : acked[x] \subseteq acked'[x]
        BY <1>1, <1>3 DEF recordAck, ackVars, TypeOK, AckType
    <2>3. \A x \in Subs : acksPending'[x] \subseteq acksPending[x]
        BY <1>3, <2>1 DEF TypeOK, SendType
    <2>4. ASSUME NEW x \in PSubs, NEW p \in acksPending[x], p \notin acksPending'[x]
          PROVE  x = s /\ p = q /\ (fromUser => p \in acked'[x])
        <3>1. x = h /\ p = q
            BY <1>1, <1>3, <2>1, <2>4 DEF TypeOK, SendType
        <3>2. x = s /\ s \notin QSubs
            BY <1>1, <2>1, <3>1
        <3> QED
            BY <1>3, <3>1, <3>2 DEF recordAck, TypeOK, AckType
    <2> QED
        BY <2>2, <2>3, <2>4
<1> QED
    BY <1>2, <1>3 DEF processAck

(* What the invariant does not depend on. *)
LEMMA LossFrame ==
  ASSUME LossInv
  PROVE  /\ UNCHANGED <<last, acksPending>> => PendingPublished'
         /\ UNCHANGED rd => HandOverInGroup'
         /\ UNCHANGED <<first, place, LastSent, acksPending, acked>> => NoMsgLost'
  BY DEF LossInv, PendingPublished, HandOverInGroup, NoMsgLost

(* An ack of the client, or one for a message the store has removed. *)
LEMMA AckKeepsLoss ==
  ASSUME TypeOK, LossInv, NEW t \in Threads, NEW s \in Subs, NEW q \in Nat,
         NEW fromUser \in BOOLEAN, processAck(t, s, q, fromUser),
         UNCHANGED <<store, place>>,
         fromUser \/ ~Stored(q) \/ s \in QSubs
  PROVE  PendingPublished' /\ NoMsgLost'
<1>1. PendingPublished'
    BY AckEffect DEF LossInv, PendingPublished, store
<1>2. ASSUME NEW x \in PSubs, place'[x] # "gone", NEW p \in 1..LastSent'[x]
      PROVE  p \in acksPending'[x] \cup acked'[x] \/ p < first'
    <2>1. x \in Subs /\ x \notin QSubs
        BY SlotsAssumption DEF Subs, PSubs
    <2>2. p \in acksPending[x] \cup acked[x] \/ p < first
        BY <1>2, AckEffect DEF LossInv, NoMsgLost
    <2>3. CASE p \in acksPending[x] /\ p \notin acksPending'[x] /\ p \notin acked'[x]
        <3>1. x = s /\ p = q /\ ~Stored(p)
            BY <2>1, <2>3, AckEffect
        <3>2. p <= last /\ p \in Nat
            BY <2>1, <2>3 DEF LossInv, PendingPublished
        <3> QED
            BY <3>1, <3>2 DEF Stored, TypeOK, StoreType, store
    <2> QED
        BY <2>2, <2>3, AckEffect DEF store
<1> QED
    BY <1>1, <1>2 DEF NoMsgLost

(* A message sent again, to the subscription that has it pending. *)
LEMMA ResendKeepsLoss ==
  ASSUME TypeOK, LossInv, NEW s \in Subs, NEW q \in acksPending[s],
         NEW sent \in BOOLEAN, NEW more \in BOOLEAN,
         sendMsgToSub(s, q, LastSent[s], TRUE, sent, more),
         UNCHANGED <<store, place, acked>>
  PROVE  PendingPublished' /\ NoMsgLost'
<1>1. q \in Seqs /\ LastSent[s] \in 0..MaxSeq
    BY DEF TypeOK, SendType
<1>2. LastSent'[s] = LastSent[s] /\ acksPending'[s] = acksPending[s]
    <2>1. SendChange(s, q, LastSent[s])
        BY <1>1, SendEffect, Zenon
    <2> QED
        BY <2>1 DEF SendChange
<1>3. \A x \in Subs : LastSent'[x] = LastSent[x] /\ acksPending'[x] = acksPending[x]
    <2>1. SendChange(s, q, LastSent[s])
        BY <1>1, SendEffect, Zenon
    <2> QED
        BY <1>2, <2>1 DEF SendChange
<1> QED
    BY <1>3 DEF LossInv, PendingPublished, NoMsgLost, store, Subs, PSubs

(* A message sent to a member of the queue group. *)
LEMMA GroupSendKeepsLoss ==
  ASSUME TypeOK, LossInv, NEW m \in QSubs, NEW q \in Seqs, q <= last,
         NEW gls, NEW force \in BOOLEAN, NEW sent \in BOOLEAN,
         sendMsgToQueueGroup(m, q, gls, force, sent),
         UNCHANGED <<store, place, acked>>
  PROVE  PendingPublished' /\ NoMsgLost'
<1>1. m \in Subs /\ LastSent[m] \in 0..MaxSeq
    BY DEF TypeOK, SendType, Subs
<1>2. PICK more \in BOOLEAN : sendMsgToSub(m, q, LastSent[m], force, sent, more)
    BY DEF sendMsgToQueueGroup
<1>3. SendChange(m, q, LastSent[m])
    BY <1>1, <1>2, SendEffect
<1>4. PendingPublished'
    BY <1>1, <1>3 DEF LossInv, PendingPublished, store, SendChange
<1>5. PSubs \subseteq Subs \ {m}
    BY SlotsAssumption DEF Subs, PSubs
<1>6. NoMsgLost'
    BY <1>3, <1>5 DEF LossInv, NoMsgLost, store, SendChange
<1> QED
    BY <1>4, <1>6

(* The store: messages are added at the end and removed at the front. *)
LEMMA StoreKeepsLoss ==
  ASSUME TypeOK, LossInv, ioStore \/ expireMsgs PROVE LossInv'
<1>1. last' >= last /\ first' >= first /\ last \in Nat /\ last' \in Nat
         /\ first \in Nat /\ first' \in Nat
    BY BoundsAssumption DEF TypeOK, StoreType, ioStore, expireMsgs
<1>2. UNCHANGED <<place, LastSent, acksPending, acked, rd>>
    BY DEF ioStore, expireMsgs, subFlags, sendVars, ackVars, goroutines
<1>3. PendingPublished'
    BY <1>1, <1>2 DEF LossInv, PendingPublished, TypeOK, SendType, Seqs
<1>4. NoMsgLost'
    BY <1>1, <1>2 DEF LossInv, NoMsgLost
<1> QED
    BY <1>2, <1>3, <1>4, LossFrame DEF LossInv

(* One iteration of sendAvailableMessages: the cursor moves to the message *)
(* that was made pending, or over messages that the store has removed.     *)
LEMMA LoopKeepsLoss ==
  ASSUME TypeOK, LossInv, NEW s \in PSubs, sendAvailableMessages(s) PROVE LossInv'
<1> DEFINE n == getNextMsg(LastSent[s])
<1>1. s \in Subs /\ LastSent[s] \in 0..MaxSeq
    BY DEF TypeOK, SendType, Subs, PSubs
<1>2. /\ n.lastSent \in 0..MaxSeq
      /\ n.lastSent = LastSent[s] \/ n.lastSent = first - 1
      /\ n.seq # 0 => n.seq \in Seqs /\ n.seq = n.lastSent + 1 /\ n.seq <= last
    BY <1>1, BoundsAssumption DEF TypeOK, StoreType, getNextMsg, Stored, Seqs
<1> HIDE DEF n
<1>3. UNCHANGED <<store, place, acked, rd>>
    BY DEF sendAvailableMessages, subFlags, ackVars
<1>4. \A p \in 1..n.lastSent : place[s] # "gone" => p \in acksPending[s] \cup acked[s] \/ p < first
    BY <1>1, <1>2 DEF LossInv, NoMsgLost, TypeOK, StoreType
<1>5. CASE UNCHANGED sendVars
    BY <1>3, <1>5, LossFrame DEF LossInv, sendVars, store
<1>6. CASE LastSent' = [LastSent EXCEPT ![s] = n.lastSent] /\ UNCHANGED acksPending
    <2>1. NoMsgLost'
        BY <1>1, <1>3, <1>4, <1>6 DEF LossInv, NoMsgLost, TypeOK, SendType, store, Subs, PSubs
    <2> QED
        BY <1>3, <1>6, <2>1, LossFrame DEF LossInv, store
<1>7. ASSUME n.seq # 0, NEW sent \in BOOLEAN, NEW more \in BOOLEAN,
             sendMsgToSub(s, n.seq, n.lastSent, FALSE, sent, more)
      PROVE  LossInv'
    <2>1. SendChange(s, n.seq, n.lastSent)
        BY <1>1, <1>2, <1>7, SendEffect, ZenonT(60)
    <2> USE DEF SendChange
    <2>2. PendingPublished'
        BY <1>1, <1>2, <1>3, <1>7, <2>1 DEF LossInv, PendingPublished, store
    <2>3. ASSUME NEW x \in PSubs, place'[x] # "gone", NEW p \in 1..LastSent'[x]
          PROVE  p \in acksPending'[x] \cup acked'[x] \/ p < first'
        <3>1. CASE x # s
            BY <1>3, <2>1, <2>3, <3>1 DEF LossInv, NoMsgLost, store, Subs, PSubs
        <3>2. CASE x = s
            <4>1. p \in 1..n.lastSent \/ (p = n.seq /\ p \in acksPending'[s])
                BY <1>2, <1>7, <2>1, <2>3, <3>2
            <4> QED
                BY <1>3, <1>4, <2>1, <2>3, <3>2, <4>1 DEF store
        <3> QED
            BY <3>1, <3>2
    <2> QED
        BY <1>3, <2>2, <2>3, LossFrame DEF LossInv, NoMsgLost
<1> QED
    BY <1>5, <1>6, <1>7, ZenonT(60) DEF sendAvailableMessages, n

(* The send loops lose no message, plain or of the group. *)
LEMMA SendNextKeepsLoss == ASSUME TypeOK, LossInv, sendNext PROVE LossInv'
<1>1. ASSUME NEW t \in Threads, beginSend(t) PROVE LossInv'
    BY <1>1, LossFrame, ZenonT(60) DEF beginSend, LossInv, store, subFlags, sendVars, ackVars
<1>2. CASE sendAvailableMessagesToQueue
    <2> DEFINE n == getNextMsg(lastSent)
    <2>1. n.seq # 0 => n.seq \in Seqs /\ n.seq <= last
        BY BoundsAssumption DEF TypeOK, StoreType, QueueType, getNextMsg, Stored, Seqs
    <2> HIDE DEF n
    <2>2. UNCHANGED <<store, place, acked, rd>>
        BY <1>2 DEF sendAvailableMessagesToQueue, subFlags, ackVars
    <2>3. CASE UNCHANGED sendVars
        BY <2>2, <2>3, LossFrame DEF LossInv, sendVars, store
    <2>4. ASSUME n.seq # 0, NEW m \in findBestQueueSub, NEW sent \in BOOLEAN,
                 sendMsgToQueueGroup(m, n.seq, n.lastSent, FALSE, sent)
          PROVE  LossInv'
        <3>1. PendingPublished' /\ NoMsgLost'
            BY <2>1, <2>2, <2>4, BestType, GroupSendKeepsLoss, ZenonT(60)
        <3> QED
            BY <2>2, <3>1, LossFrame DEF LossInv
    <2> QED
        BY <1>2, <2>3, <2>4, Zenon DEF sendAvailableMessagesToQueue, n
<1> QED
    BY <1>1, <1>2, LoopKeepsLoss DEF sendNext

(* performAckExpirationRedelivery acks for a plain subscription only what the store removed. *)
LEMMA RedeliveryKeepsLoss ==
  ASSUME TypeOK, LossInv, NEW r \in RThreads, redeliveryNext(r) PROVE LossInv'
<1>0. r \in Threads /\ Seqs \subseteq Nat
    BY DEF Threads, Seqs
<1>1. ASSUME NEW s \in Subs, ackTimerFires(r, s) PROVE LossInv'
    <2>1. HandOverInGroup'
        <3>1. \/ rd' = rd
              \/ rd' = [rd EXCEPT ![r] = [sub |-> s, todo |-> acksPending[s], ack |-> 0]]
            BY <1>1 DEF ackTimerFires
        <3>2. rd \in [RThreads -> {NoRedelivery} \cup
                                     [sub : Subs, todo : SUBSET Seqs, ack : 0..MaxSeq]]
            BY ZenonT(60) DEF TypeOK, RedeliveryType
        <3>3. \A x \in RThreads : rd'[x] = rd[x] \/ rd'[x].ack = 0
            BY <3>1, <3>2
        <3> QED
            BY <3>3, ZenonT(60) DEF LossInv, HandOverInGroup
    <2> QED
        BY <1>1, <2>1, LossFrame DEF ackTimerFires, LossInv, store, subFlags, ackVars
<1>2. ASSUME NEW q \in Seqs, redeliverMissing(r, q) PROVE LossInv'
    <2>1. rd[r].sub \in Subs
        BY <1>2, RedeliveryRecord DEF redeliverMissing, redeliveryReady, NoRedelivery
    <2>2. PendingPublished' /\ NoMsgLost'
        BY <1>0, <1>2, <2>1, AckKeepsLoss, ZenonT(60) DEF redeliverMissing, subFlags
    <2>3. HandOverInGroup'
        BY <1>2 DEF redeliverMissing, TypeOK, RedeliveryType, LossInv, HandOverInGroup
    <2> QED
        BY <2>2, <2>3 DEF LossInv
<1>3. ASSUME NEW q \in Seqs, redeliverNotExpired(r, q) PROVE LossInv'
    <2>1. HandOverInGroup'
        BY <1>3 DEF redeliverNotExpired, TypeOK, RedeliveryType, LossInv, HandOverInGroup
    <2> QED
        BY <1>3, <2>1, LossFrame DEF redeliverNotExpired, LossInv, store, subFlags, sendVars, ackVars
<1>4. ASSUME NEW q \in Seqs, redeliverExpired(r, q) PROVE LossInv'
    <2> DEFINE s == rd[r].sub
    <2>1. s \in Subs
        BY <1>4, RedeliveryRecord DEF redeliverExpired, redeliveryReady, NoRedelivery
    <2>2. UNCHANGED <<store, place, acked>>
        BY <1>4 DEF redeliverExpired, subFlags, ackVars
    <2>3. PendingPublished' /\ NoMsgLost'
        <3>1. CASE UNCHANGED sendVars
            BY <2>2, <3>1, LossFrame DEF sendVars, store
        <3>2. ASSUME q \in acksPending[s], NEW sent \in BOOLEAN, NEW more \in BOOLEAN,
                     sendMsgToSub(s, q, LastSent[s], TRUE, sent, more)
              PROVE  PendingPublished' /\ NoMsgLost'
            BY <2>1, <2>2, <3>2, ResendKeepsLoss, Zenon
        <3>3. ASSUME q \in acksPending[s], NEW m \in findBestQueueSub, NEW sent \in BOOLEAN,
                     sendMsgToQueueGroup(m, q, lastSent, TRUE, sent)
              PROVE  PendingPublished' /\ NoMsgLost'
            <4>1. q <= last
                BY <2>1, <3>3 DEF LossInv, PendingPublished
            <4> QED
                BY <2>2, <3>3, <4>1, BestType, GroupSendKeepsLoss, ZenonT(60)
        <3> QED
            BY <1>4, <3>1, <3>2, <3>3, ZenonT(60) DEF redeliverExpired
    <2>4. HandOverInGroup'
        <3>1. ASSUME NEW a, rd' = [rd EXCEPT ![r].todo = @ \ {q}, ![r].ack = a],
                     a = 0 \/ s \in QSubs
              PROVE  HandOverInGroup'
            BY <3>1 DEF TypeOK, RedeliveryType, LossInv, HandOverInGroup
        <3>2. CASE rd' = [rd EXCEPT ![r].todo = {}]
            BY <3>2 DEF TypeOK, RedeliveryType, LossInv, HandOverInGroup
        <3> QED
            BY <1>4, <3>1, <3>2, Zenon DEF redeliverExpired
    <2> QED
        BY <2>3, <2>4 DEF LossInv
<1>5. CASE redeliverImplicitAck(r)
    <2>1. rd[r].sub \in QSubs /\ rd[r].sub \in Subs /\ rd[r].ack \in Nat
        <3>1. rd[r] \in [sub : Subs, todo : SUBSET Seqs, ack : 0..MaxSeq]
            BY <1>5, RedeliveryRecord DEF redeliverImplicitAck, NoRedelivery
        <3> QED
            BY <1>5, <3>1 DEF redeliverImplicitAck, LossInv, HandOverInGroup
    <2>2. PendingPublished' /\ NoMsgLost'
        BY <1>0, <1>5, <2>1, AckKeepsLoss, ZenonT(60) DEF redeliverImplicitAck, subFlags
    <2>3. HandOverInGroup'
        BY <1>5 DEF redeliverImplicitAck, TypeOK, RedeliveryType, LossInv, HandOverInGroup
    <2> QED
        BY <2>2, <2>3 DEF LossInv
<1>6. CASE adjustAckTimer(r)
    <2>1. HandOverInGroup'
        BY <1>6, ZenonT(60) DEF adjustAckTimer, NoRedelivery, TypeOK, RedeliveryType, LossInv, HandOverInGroup
    <2> QED
        BY <1>6, <2>1, LossFrame, Zenon DEF adjustAckTimer, LossInv, store, subFlags, ackVars
<1> QED
    BY <1>1, <1>2, <1>3, <1>4, <1>5, <1>6 DEF redeliveryNext

(* performDurableRedelivery acks only what the store has removed. *)
LEMMA StartKeepsLoss == ASSUME TypeOK, LossInv, startNext PROVE LossInv'
<1>1. ASSUME NEW s \in Subs, subscriptionResponse(s) PROVE LossInv'
    BY <1>1, LossFrame DEF subscriptionResponse, LossInv, store, sendVars, ackVars
<1>2. CASE startSub
    BY <1>2, LossFrame DEF startSub, LossInv, store, subFlags, sendVars, ackVars
<1>3. ASSUME NEW q \in Seqs, performDurableRedelivery(q) PROVE LossInv'
    <2> DEFINE s == starter.sub
    <2>1. s \in Subs /\ Starter \in Threads /\ q \in Nat
        BY <1>3, StartRecord DEF performDurableRedelivery, Threads, Seqs
    <2>2. UNCHANGED <<store, place, rd>>
        BY <1>3 DEF performDurableRedelivery, subFlags
    <2>3. PendingPublished' /\ NoMsgLost'
        <3>1. CASE ~Stored(q) /\ processAck(Starter, s, q, FALSE)
            BY <2>1, <2>2, <3>1, AckKeepsLoss, Zenon
        <3>2. ASSUME q \in acksPending[s], NEW sent \in BOOLEAN, NEW more \in BOOLEAN,
                     sendMsgToSub(s, q, LastSent[s], TRUE, sent, more), UNCHANGED ackVars
              PROVE  PendingPublished' /\ NoMsgLost'
            BY <2>1, <2>2, <3>2, ResendKeepsLoss, ZenonT(60) DEF ackVars
        <3>3. CASE UNCHANGED <<sendVars, ackVars>>
            BY <2>2, <3>3, LossFrame DEF sendVars, ackVars, store
        <3> QED
            BY <1>3, <3>1, <3>2, <3>3, ZenonT(60) DEF performDurableRedelivery
    <2> QED
        BY <2>2, <2>3, LossFrame DEF LossInv
<1>4. CASE releaseNewOnHold
    BY <1>4, LossFrame, ZenonT(60) DEF releaseNewOnHold, LossInv, store, sendVars, ackVars
<1> QED
    BY <1>1, <1>2, <1>3, <1>4 DEF startNext

(* A new subscription owes its client nothing up to its start position. *)
LEMMA NewSubKeepsLoss ==
  ASSUME TypeOK, LossInv, NEW s \in Subs, NEW ls \in 0..MaxSeq, NEW max, newSub(s, ls, max)
  PROVE  LossInv'
<1>1. UNCHANGED <<store, rd>>
    BY DEF newSub
<1>2. PendingPublished'
    BY <1>1 DEF newSub, LossInv, PendingPublished, TypeOK, SendType, store
<1>3. ASSUME NEW x \in PSubs, place'[x] # "gone", NEW p \in 1..LastSent'[x]
      PROVE  p \in acksPending'[x] \cup acked'[x] \/ p < first'
    <2>1. x \in Subs
        BY DEF Subs, PSubs
    <2>2. CASE x = s
        BY <1>3, <2>1, <2>2 DEF newSub, TypeOK, SendType, AckType
    <2>3. CASE x # s
        BY <1>1, <1>3, <2>1, <2>3 DEF newSub, TypeOK, FlagsType, SendType, AckType, LossInv, NoMsgLost, store
    <2> QED
        BY <2>2, <2>3, ZenonT(60)
<1>4. NoMsgLost'
    BY <1>3 DEF NoMsgLost
<1> QED
    BY <1>1, <1>2, <1>4, LossFrame DEF LossInv

(* processSub starts a cursor with nothing owed, or resumes one. *)
LEMMA SubscribeKeepsLoss == ASSUME TypeOK, LossInv, subscribeNext PROVE LossInv'
<1> PICK s \in Subs, max \in InFlights :
        \/ \E pos \in Positions : processSubNew(s, pos, max) \/ processSubQueue(s, pos, max)
        \/ processSubResume(s, max)
    BY DEF subscribeNext
<1>1. ASSUME NEW pos \in Positions, processSubNew(s, pos, max) PROVE LossInv'
    <2>1. PICK ls \in 0..MaxSeq : newSub(s, ls, max)
        BY <1>1, StartSequenceType DEF processSubNew, TypeOK
    <2> QED
        BY <2>1, NewSubKeepsLoss
<1>2. ASSUME NEW pos \in Positions, processSubQueue(s, pos, max) PROVE LossInv'
    <2>1. PICK ls \in 0..MaxSeq : newSub(s, ls, max)
        <3>1. CASE Members # {}
            BY <1>2, <3>1, BoundsAssumption DEF processSubQueue
        <3>2. CASE Members = {}
            BY <1>2, <3>2, StartSequenceType DEF processSubQueue, TypeOK
        <3> QED
            BY <3>1, <3>2
    <2> QED
        BY <2>1, NewSubKeepsLoss
<1>3. CASE processSubResume(s, max)
    <2>1. /\ UNCHANGED <<first, last, LastSent, acksPending, acked, rd>>
          /\ \A x \in PSubs : place'[x] # "gone" => place[x] # "gone"
        BY <1>3, ZenonT(60) DEF processSubResume, store, ackVars, TypeOK, FlagsType, Subs, PSubs
    <2>2. NoMsgLost'
        BY <2>1, ZenonT(60) DEF LossInv, NoMsgLost
    <2> QED
        BY <2>1, <2>2, LossFrame DEF LossInv
<1> QED
    BY <1>1, <1>2, <1>3

(* Remove touches no cursor but those of the group. *)
LEMMA RemoveKeepsLoss == ASSUME TypeOK, LossInv, removeNext PROVE LossInv'
<1>0. PSubs \subseteq Subs /\ PSubs \cap QSubs = {}
    BY SlotsAssumption DEF Subs, PSubs
<1>1. ASSUME NEW s \in Subs, NEW unsubscribe \in BOOLEAN,
             removePlain(s, unsubscribe) \/ removeMember(s, unsubscribe)
      PROVE  LossInv'
    <2>1. /\ UNCHANGED <<first, last, LastSent, acksPending, acked, rd>>
          /\ \A x \in PSubs : place'[x] # "gone" => place[x] # "gone"
        BY <1>1, <1>0, ZenonT(60) DEF removePlain, removeMember, store, sendVars, ackVars, goroutines,
                          TypeOK, FlagsType
    <2>2. NoMsgLost'
        BY <2>1 DEF LossInv, NoMsgLost
    <2> QED
        BY <2>1, <2>2, LossFrame DEF LossInv
<1>2. CASE removeFromQueue
    <2> DEFINE s == rm.sub
    <2>1. s \in QSubs
        BY <1>2, RemoveRecord DEF removeFromQueue
    <2>2. UNCHANGED <<store, acked, rd>>
        BY <1>2 DEF removeFromQueue
    <2>3. /\ \A x \in PSubs : /\ place'[x] = place[x]
                             /\ LastSent'[x] = LastSent[x]
                             /\ acksPending'[x] = acksPending[x]
          /\ PendingPublished'
        <3>1. CASE removeLast(s)
            <4>1. /\ \A x \in Subs \ QSubs : place'[x] = place[x] /\ LastSent'[x] = LastSent[x]
                  /\ UNCHANGED acksPending
                BY <2>1, <3>1, RemoveLastEffect
            <4>2. PSubs \subseteq Subs \ QSubs
                BY SlotsAssumption DEF PSubs, Subs
            <4>3. PendingPublished'
                BY <2>2, <4>1 DEF LossInv, PendingPublished, store
            <4> QED
                BY <4>1, <4>2, <4>3
        <3>2. CASE removeAndTransfer(s)
            <4> DEFINE others == Members \ {s}
            <4>0. PICK moved \in transferred(s) :
                     \E to \in [moved -> others], ls \in [others -> 0..MaxSeq],
                        keeper \in others : transfer(s, others, moved, to, ls, keeper)
                BY <3>2, ZenonT(60) DEF removeAndTransfer
            <4>1. PICK to \in [moved -> others], ls \in [others -> 0..MaxSeq],
                       keeper \in others : transfer(s, others, moved, to, ls, keeper)
                BY <4>0
            <4>2. others \subseteq QSubs /\ moved \subseteq acksPending[s] /\ s \in Subs
                BY <2>1, ZenonT(60) DEF Members, transferred, Subs
            <4>3. PendingPublished'
                BY <2>2, <4>1, <4>2, ZenonT(60) DEF transfer, given, LossInv, PendingPublished, store
            <4>4. \A x \in PSubs : place'[x] = place[x]
                BY <1>0, <2>1, <3>2, ZenonT(60) DEF removeAndTransfer, TypeOK, FlagsType
            <4>5. \A x \in PSubs : LastSent'[x] = LastSent[x] /\ acksPending'[x] = acksPending[x]
                BY <1>0, <4>1, <4>2, ZenonT(60) DEF transfer
            <4> QED
                BY <4>3, <4>4, <4>5
        <3> QED
            BY <1>2, <3>1, <3>2, ZenonT(60) DEF removeFromQueue
    <2>4. NoMsgLost'
        BY <2>2, <2>3 DEF LossInv, NoMsgLost, store
    <2> QED
        BY <2>2, <2>3, <2>4, LossFrame DEF LossInv
<1>3. CASE rearmTimers
    BY <1>3, LossFrame DEF rearmTimers, LossInv, store, subFlags, ackVars
<1> QED
    BY <1>1, <1>2, <1>3 DEF removeNext

(* Every step keeps the invariant of NothingLost. *)
LEMMA StepKeepsLoss == TypeOK /\ LossInv /\ [Next]_vars => LossInv'
<1> SUFFICES ASSUME TypeOK, LossInv, [Next]_vars PROVE LossInv'
    OBVIOUS
<1>1. CASE processMsg \/ processMsgDone \/ \E x \in Cursors : processMsgVisit(x)
    BY <1>1, LossFrame DEF processMsg, processMsgDone, processMsgVisit, LossInv, store,
                           subFlags, sendVars, ackVars
<1>2. ASSUME NEW s \in Subs, NEW q \in Seqs, processAckMsg(s, q) PROVE LossInv'
    <2>1. s \in Threads /\ q \in Nat
        BY DEF Threads, Seqs
    <2>2. PendingPublished' /\ NoMsgLost'
        BY <1>2, <2>1, AckKeepsLoss, ZenonT(60) DEF processAckMsg, subFlags
    <2> QED
        BY <1>2, <2>2, LossFrame, ZenonT(60) DEF processAckMsg, LossInv
<1>3. ASSUME NEW s \in Subs, checkClientHealth(s) PROVE LossInv'
    BY <1>3, LossFrame, ZenonT(60) DEF checkClientHealth, LossInv, store, sendVars, ackVars, goroutines
<1>4. CASE UNCHANGED vars
    BY <1>4, LossFrame, ZenonT(60) DEF vars, LossInv, store, subFlags, sendVars, ackVars, goroutines
<1> QED
    BY <1>1, <1>2, <1>3, <1>4, StoreKeepsLoss, SendNextKeepsLoss, RedeliveryKeepsLoss,
       StartKeepsLoss, SubscribeKeepsLoss, RemoveKeepsLoss DEF Next, ioNext

(* At-least-once delivery: the cursor of a plain or durable subscription   *)
(* passes a message only if it is pending, acked by the client or removed  *)
(* from the store, whatever fails and however the goroutines interleave.   *)
THEOREM NothingLost == Spec => []NoMsgLost
<1>1. Init => LossInv
    <2> SUFFICES ASSUME Init PROVE LossInv
        OBVIOUS
    <2>1. PendingPublished /\ NoMsgLost
        <3>1. place = [s \in Subs |-> "gone"] /\ acksPending = [s \in Subs |-> {}]
            BY ZenonT(60) DEF Init
        <3>2. \A s \in PSubs : s \in Subs
            BY DEF PSubs, Subs
        <3>3. PendingPublished
            BY <3>1 DEF PendingPublished
        <3>4. \A s \in PSubs : place[s] = "gone"
            BY <3>1, <3>2
        <3> QED
            BY <3>3, <3>4, ZenonT(60) DEF NoMsgLost
    <2>2. HandOverInGroup
        <3>1. rd = [r \in RThreads |-> NoRedelivery]
            BY DEF Init
        <3> QED
            BY <3>1 DEF HandOverInGroup, NoRedelivery
    <2> QED
        BY <2>1, <2>2 DEF LossInv
<1>2. LossInv => NoMsgLost
    BY DEF LossInv
<1> QED
    BY <1>1, <1>2, StepKeepsLoss, TypeCorrect, PTL DEF Spec

-----------------------------------------------------------------------------
(***************************************************************************)
(* RedeliveryScheduled.  setupAckTimer does nothing for a timer whose      *)
(* callback runs, even if nothing is pending when the callback starts to   *)
(* adjust it: so the invariant must say, of every timer that has fired,    *)
(* that its callback has not ended.                                        *)
(***************************************************************************)
PendingTimed ==
    \A s \in Subs : place[s] = "listed" /\ acksPending[s] # {} =>
        ackTimer[s] # "nil" \/ s \in rm.rearm

FiredHasCallback ==
    \A s \in Subs : ackTimer[s] = "fired" => \E r \in RThreads : rd[r].sub = s

TimerInv == PendingTimed /\ FiredHasCallback

(* The invariant about timers implies the property. *)
LEMMA TimerInvSuffices == TypeOK /\ TimerInv => RedeliveryScheduled
  BY ZenonT(60) DEF TypeOK, SendType, TimerInv, PendingTimed, FiredHasCallback, RedeliveryScheduled

(* What keeps the two parts. *)
LEMMA TimerFrame ==
  ASSUME TimerInv
  PROVE  /\ /\ UNCHANGED <<ackTimer, rm>>
            /\ \A s \in Subs : /\ place'[s] = "listed" => place[s] = "listed"
                               /\ acksPending'[s] \subseteq acksPending[s]
            => PendingTimed'
         /\ /\ \A s \in Subs : ackTimer'[s] = "fired" => ackTimer[s] = "fired"
            /\ \A r \in RThreads : rd'[r].sub = rd[r].sub
            => FiredHasCallback'
<1>1. ASSUME UNCHANGED <<ackTimer, rm>>,
             \A s \in Subs : /\ place'[s] = "listed" => place[s] = "listed"
                            /\ acksPending'[s] \subseteq acksPending[s]
      PROVE  PendingTimed'
    BY <1>1 DEF TimerInv, PendingTimed
<1>2. ASSUME \A s \in Subs : ackTimer'[s] = "fired" => ackTimer[s] = "fired",
             \A r \in RThreads : rd'[r].sub = rd[r].sub
      PROVE  FiredHasCallback'
    BY <1>2 DEF TimerInv, FiredHasCallback
<1> QED
    BY <1>1, <1>2

(* A step that leaves the timers and what they are for alone. *)
LEMMA TimerStutter ==
  ASSUME TimerInv, UNCHANGED <<place, acksPending, ackTimer, rm, rd>> PROVE TimerInv'
  BY DEF TimerInv, PendingTimed, FiredHasCallback

(* sendMsgToSub sets up a timer whenever it makes a message pending. *)
LEMMA SendKeepsTimed ==
  ASSUME TypeOK, TimerInv, NEW s \in Subs, NEW q, NEW ls, NEW force, NEW sent, NEW more,
         sendMsgToSub(s, q, ls, force, sent, more), UNCHANGED <<place, rm>>
  PROVE  PendingTimed' /\ \A x \in Subs : ackTimer'[x] = "fired" => ackTimer[x] = "fired"
<1>1. \A x \in Subs \ {s} : acksPending'[x] = acksPending[x] /\ ackTimer'[x] = ackTimer[x]
    BY ZenonT(60) DEF sendMsgToSub, AddPending, NotSent, TypeOK, SendType
<1>2. /\ acksPending'[s] = acksPending[s] \/ ackTimer'[s] # "nil"
      /\ ackTimer[s] # "nil" => ackTimer'[s] = ackTimer[s]
      /\ ackTimer'[s] = "fired" => ackTimer[s] = "fired"
    BY ZenonT(60) DEF sendMsgToSub, AddPending, NotSent, setupAckTimer, TypeOK, SendType
<1> QED
    BY <1>1, <1>2, ZenonT(60) DEF TimerInv, PendingTimed

(* sendMsgToQueueGroup leaves no pending message without a timer. *)
LEMMA GroupSendKeepsTimed ==
  ASSUME TypeOK, TimerInv, NEW m \in QSubs, NEW q, NEW gls, NEW force, NEW sent,
         sendMsgToQueueGroup(m, q, gls, force, sent), UNCHANGED <<place, rm>>
  PROVE  PendingTimed' /\ \A x \in Subs : ackTimer'[x] = "fired" => ackTimer[x] = "fired"
<1>1. m \in Subs
    BY DEF Subs
<1>2. PICK more \in BOOLEAN : sendMsgToSub(m, q, LastSent[m], force, sent, more)
    BY ZenonT(60) DEF sendMsgToQueueGroup
<1> QED
    BY <1>1, <1>2, SendKeepsTimed, ZenonT(60)

(* processAck stops no timer. *)
LEMMA AckKeepsTimed ==
  ASSUME TypeOK, TimerInv, NEW t \in Threads, NEW s \in Subs, NEW q,
         NEW fromUser \in BOOLEAN, processAck(t, s, q, fromUser), UNCHANGED <<place, rm>>
  PROVE  PendingTimed' /\ UNCHANGED ackTimer
<1>1. \A x \in Subs : acksPending'[x] \subseteq acksPending[x]
    BY AckEffect, ZenonT(60)
<1>2. UNCHANGED ackTimer
    BY DEF processAck
<1> QED
    BY <1>1, <1>2, TimerFrame, ZenonT(60)

(* The send loops set the timer with the first pending message. *)
LEMMA SendNextKeepsTimer == ASSUME TypeOK, TimerInv, sendNext PROVE TimerInv'
<1>1. ASSUME NEW t \in Threads, beginSend(t) PROVE TimerInv'
    BY <1>1, TimerStutter, ZenonT(60) DEF beginSend, subFlags, sendVars
<1>2. ASSUME NEW s \in PSubs, sendAvailableMessages(s) PROVE TimerInv'
    <2>1. UNCHANGED <<place, rm, rd>> /\ s \in Subs
        BY <1>2, ZenonT(60) DEF sendAvailableMessages, subFlags, Subs, PSubs
    <2>2. CASE UNCHANGED <<acksPending, ackTimer>>
        BY <2>1, <2>2, TimerStutter
    <2>3. ASSUME NEW q, NEW ls, NEW sent, NEW more, sendMsgToSub(s, q, ls, FALSE, sent, more)
          PROVE  TimerInv'
        BY <2>1, <2>3, SendKeepsTimed, TimerFrame, ZenonT(60) DEF TimerInv
    <2> QED
        BY <1>2, <2>2, <2>3, ZenonT(60) DEF sendAvailableMessages, sendVars
<1>3. CASE sendAvailableMessagesToQueue
    <2>1. UNCHANGED <<place, rm, rd>>
        BY <1>3 DEF sendAvailableMessagesToQueue, subFlags
    <2>2. CASE UNCHANGED sendVars
        BY <2>1, <2>2, TimerStutter DEF sendVars
    <2>3. ASSUME NEW m \in findBestQueueSub, NEW q, NEW gls, NEW sent,
                 sendMsgToQueueGroup(m, q, gls, FALSE, sent)
          PROVE  TimerInv'
        BY <2>1, <2>3, BestType, GroupSendKeepsTimed, TimerFrame, ZenonT(60) DEF TimerInv
    <2> QED
        BY <1>3, <2>2, <2>3, ZenonT(60) DEF sendAvailableMessagesToQueue
<1> QED
    BY <1>1, <1>2, <1>3 DEF sendNext

(* A callback ends by setting its timer again if anything is pending. *)
LEMMA RedeliveryKeepsTimer ==
  ASSUME TypeOK, TimerInv, NEW r \in RThreads, redeliveryNext(r) PROVE TimerInv'
<1>0. r \in Threads
    BY DEF Threads
<1>1. ASSUME NEW s \in Subs, ackTimerFires(r, s) PROVE TimerInv'
    <2>1. UNCHANGED <<place, acksPending, rm>>
        BY <1>1, ZenonT(60) DEF ackTimerFires, subFlags
    <2>2. PendingTimed'
        BY <1>1, <2>1, ZenonT(60) DEF ackTimerFires, TimerInv, PendingTimed, TypeOK, SendType
    <2>3. FiredHasCallback'
        <3>1. CASE acksPending[s] = {}
            BY <1>1, <3>1, ZenonT(60) DEF ackTimerFires, TimerInv, FiredHasCallback, TypeOK, SendType
        <3>2. CASE acksPending[s] # {}
            <4>1. /\ rd[r].sub = Nobody /\ Nobody \notin Subs
                  /\ rd' = [rd EXCEPT ![r] = [sub |-> s, todo |-> acksPending[s], ack |-> 0]]
                  /\ ackTimer' = [ackTimer EXCEPT ![s] = "fired"]
                <5>1. rd[r] = NoRedelivery
                    BY <1>1, ZenonT(60) DEF ackTimerFires
                <5>2. rd[r].sub = Nobody
                    <6>1. NoRedelivery.sub = Nobody
                        BY DEF NoRedelivery
                    <6> QED
                        BY <5>1, <6>1, ZenonT(60)
                <5>3. Nobody \notin Subs
                    BY SlotsAssumption, ZenonT(60) DEF Threads
                <5>4. /\ rd' = [rd EXCEPT ![r] = [sub |-> s, todo |-> acksPending[s], ack |-> 0]]
                      /\ ackTimer' = [ackTimer EXCEPT ![s] = "fired"]
                    BY <1>1, <3>2, ZenonT(60) DEF ackTimerFires
                <5> QED
                    BY <5>2, <5>3, <5>4
            <4> QED
                BY <4>1, ZenonT(60) DEF TimerInv, FiredHasCallback, TypeOK, SendType, RedeliveryType
        <3> QED
            BY <3>1, <3>2
    <2> QED
        BY <2>2, <2>3 DEF TimerInv
<1>2. ASSUME NEW q \in Seqs, redeliverMissing(r, q) PROVE TimerInv'
    <2>1. rd[r].sub \in Subs
        BY <1>2, RedeliveryRecord DEF redeliverMissing, redeliveryReady, NoRedelivery
    <2>2. PendingTimed' /\ UNCHANGED ackTimer
        BY <1>0, <1>2, <2>1, AckKeepsTimed, ZenonT(60) DEF redeliverMissing, subFlags
    <2>3. \A x \in RThreads : rd'[x].sub = rd[x].sub
        BY <1>2 DEF redeliverMissing, TypeOK, RedeliveryType
    <2> QED
        BY <2>2, <2>3, TimerFrame, ZenonT(60) DEF TimerInv
<1>3. ASSUME NEW q \in Seqs, redeliverNotExpired(r, q) PROVE TimerInv'
    <2>1. UNCHANGED <<place, acksPending, ackTimer, rm>>
        BY <1>3 DEF redeliverNotExpired, subFlags, sendVars
    <2>2. \A x \in RThreads : rd'[x].sub = rd[x].sub
        BY <1>3 DEF redeliverNotExpired, TypeOK, RedeliveryType
    <2> QED
        BY <2>1, <2>2, ZenonT(60) DEF TimerInv, PendingTimed, FiredHasCallback
<1>4. ASSUME NEW q \in Seqs, redeliverExpired(r, q) PROVE TimerInv'
    <2> DEFINE s == rd[r].sub
    <2>1. s \in Subs
        BY <1>4, RedeliveryRecord DEF redeliverExpired, redeliveryReady, NoRedelivery
    <2>2. UNCHANGED <<place, rm>>
        BY <1>4, ZenonT(60) DEF redeliverExpired, subFlags
    <2>3. PendingTimed' /\ \A x \in Subs : ackTimer'[x] = "fired" => ackTimer[x] = "fired"
        <3>1. CASE UNCHANGED sendVars
            BY <2>2, <3>1, ZenonT(60) DEF sendVars, TimerInv, PendingTimed
        <3>2. ASSUME NEW sent, NEW more, sendMsgToSub(s, q, LastSent[s], TRUE, sent, more)
              PROVE  PendingTimed' /\ \A x \in Subs : ackTimer'[x] = "fired" => ackTimer[x] = "fired"
            BY <2>1, <2>2, <3>2, SendKeepsTimed, ZenonT(60)
        <3>3. ASSUME NEW m \in findBestQueueSub, NEW sent,
                     sendMsgToQueueGroup(m, q, lastSent, TRUE, sent)
              PROVE  PendingTimed' /\ \A x \in Subs : ackTimer'[x] = "fired" => ackTimer[x] = "fired"
            BY <2>2, <3>3, BestType, GroupSendKeepsTimed, ZenonT(60)
        <3> QED
            BY <1>4, <3>1, <3>2, <3>3, ZenonT(60) DEF redeliverExpired
    <2>4. \A x \in RThreads : rd'[x].sub = rd[x].sub
        <3>1. ASSUME NEW a, rd' = [rd EXCEPT ![r].todo = @ \ {q}, ![r].ack = a]
              PROVE  \A x \in RThreads : rd'[x].sub = rd[x].sub
            BY <3>1 DEF TypeOK, RedeliveryType
        <3>2. CASE rd' = [rd EXCEPT ![r].todo = {}]
            BY <3>2 DEF TypeOK, RedeliveryType
        <3> QED
            BY <1>4, <3>1, <3>2, ZenonT(60) DEF redeliverExpired
    <2> QED
        BY <2>3, <2>4, TimerFrame, ZenonT(60) DEF TimerInv
<1>5. CASE redeliverImplicitAck(r)
    <2>1. rd[r].sub \in Subs
        BY <1>5, RedeliveryRecord DEF redeliverImplicitAck, NoRedelivery
    <2>2. PendingTimed' /\ UNCHANGED ackTimer
        BY <1>0, <1>5, <2>1, AckKeepsTimed, ZenonT(60) DEF redeliverImplicitAck, subFlags
    <2>3. \A x \in RThreads : rd'[x].sub = rd[x].sub
        BY <1>5 DEF redeliverImplicitAck, TypeOK, RedeliveryType
    <2> QED
        BY <2>2, <2>3, TimerFrame, ZenonT(60) DEF TimerInv
<1>6. CASE adjustAckTimer(r)
    <2> DEFINE s == rd[r].sub
    <2>1. s \in Subs
        <3>1. rd[r].sub # Nobody
            BY <1>6, ZenonT(60) DEF adjustAckTimer
        <3> QED
            BY <3>1, RedeliveryRecord DEF NoRedelivery
    <2> HIDE DEF s
    <2>2. /\ UNCHANGED <<place, acksPending, rm>>
          /\ ackTimer' = [ackTimer EXCEPT ![s] = adjustedTimer(s)]
          /\ rd' = [rd EXCEPT ![r] = NoRedelivery]
        BY <1>6, ZenonT(60) DEF adjustAckTimer, subFlags, s
    <2>3. PendingTimed'
        BY <2>1, <2>2, ZenonT(60) DEF adjustedTimer, TimerInv, PendingTimed, TypeOK, SendType
    <2>4. FiredHasCallback'
        <3>1. SUFFICES ASSUME NEW x \in Subs, ackTimer'[x] = "fired"
                       PROVE  \E y \in RThreads : rd'[y].sub = x
            BY DEF FiredHasCallback
        <3>2. x # s /\ ackTimer[x] = "fired"
            BY <2>1, <2>2, <3>1, ZenonT(60) DEF adjustedTimer, TypeOK, SendType
        <3>3. PICK y \in RThreads : rd[y].sub = x
            BY <3>1, <3>2, ZenonT(60) DEF TimerInv, FiredHasCallback
        <3>4. y # r
            BY <3>2, <3>3 DEF s
        <3> QED
            BY <2>2, <3>3, <3>4 DEF TypeOK, RedeliveryType
    <2> QED
        BY <2>3, <2>4 DEF TimerInv
<1> QED
    BY <1>1, <1>2, <1>3, <1>4, <1>5, <1>6 DEF redeliveryNext

(* performDurableRedelivery leaves no pending message without a timer. *)
LEMMA StartKeepsTimer == ASSUME TypeOK, TimerInv, startNext PROVE TimerInv'
<1>1. ASSUME NEW s \in Subs, subscriptionResponse(s) PROVE TimerInv'
    BY <1>1, TimerStutter DEF subscriptionResponse, sendVars
<1>2. CASE startSub
    BY <1>2, TimerStutter, ZenonT(60) DEF startSub, subFlags, sendVars
<1>3. ASSUME NEW q \in Seqs, performDurableRedelivery(q) PROVE TimerInv'
    <2> DEFINE s == starter.sub
    <2>1. s \in Subs /\ Starter \in Threads
        BY <1>3, StartRecord DEF performDurableRedelivery, Threads
    <2>2. UNCHANGED <<place, rm, rd>>
        BY <1>3 DEF performDurableRedelivery, subFlags
    <2>3. CASE processAck(Starter, s, q, FALSE)
        BY <2>1, <2>2, <2>3, AckKeepsTimed, TimerFrame, ZenonT(60) DEF TimerInv
    <2>4. ASSUME NEW sent, NEW more, sendMsgToSub(s, q, LastSent[s], TRUE, sent, more)
          PROVE  TimerInv'
        BY <2>1, <2>2, <2>4, SendKeepsTimed, TimerFrame, ZenonT(60) DEF TimerInv
    <2>5. CASE UNCHANGED sendVars
        BY <2>2, <2>5, TimerStutter DEF sendVars
    <2> QED
        BY <1>3, <2>3, <2>4, <2>5, ZenonT(60) DEF performDurableRedelivery
<1>4. CASE releaseNewOnHold
    BY <1>4, TimerStutter, ZenonT(60) DEF releaseNewOnHold, sendVars
<1> QED
    BY <1>1, <1>2, <1>3, <1>4 DEF startNext

(* processSub sets the timer of a subscription resumed with messages pending. *)
LEMMA SubscribeKeepsTimer == ASSUME TypeOK, TimerInv, subscribeNext PROVE TimerInv'
<1> PICK s \in Subs, max \in InFlights :
        \/ \E pos \in Positions : processSubNew(s, pos, max) \/ processSubQueue(s, pos, max)
        \/ processSubResume(s, max)
    BY DEF subscribeNext
<1>1. ASSUME NEW ls, newSub(s, ls, max) PROVE TimerInv'
    BY <1>1, ZenonT(60) DEF newSub, TimerInv, PendingTimed, FiredHasCallback, TypeOK, FlagsType, SendType
<1>2. ASSUME NEW pos \in Positions, processSubNew(s, pos, max) PROVE TimerInv'
    BY <1>1, <1>2 DEF processSubNew
<1>3. ASSUME NEW pos \in Positions, processSubQueue(s, pos, max) PROVE TimerInv'
    BY <1>1, <1>3, ZenonT(60) DEF processSubQueue
<1>4. CASE processSubResume(s, max)
    BY <1>4, ZenonT(60) DEF processSubResume, resumedTimer, TimerInv, PendingTimed, FiredHasCallback,
                TypeOK, FlagsType, SendType
<1> QED
    BY <1>2, <1>3, <1>4

(* Remove clears the timer only of the subscription that leaves its list. *)
LEMMA RemoveKeepsTimer == ASSUME TypeOK, TimerInv, removeNext PROVE TimerInv'
<1>1. ASSUME NEW s \in Subs, NEW unsubscribe \in BOOLEAN, removePlain(s, unsubscribe)
      PROVE  TimerInv'
    BY <1>1, ZenonT(60) DEF removePlain, goroutines, TimerInv, PendingTimed, FiredHasCallback,
                TypeOK, FlagsType, SendType
<1>2. ASSUME NEW s \in Subs, NEW unsubscribe \in BOOLEAN, removeMember(s, unsubscribe)
      PROVE  TimerInv'
    <2>1. rm.rearm = {}
        <3>1. rm.pc = "idle"
            BY <1>2, ZenonT(60) DEF removeMember
        <3>2. rm = NoRemove
            BY <3>1, ZenonT(60) DEF TypeOK, RemoveType
        <3> QED
            BY <3>2 DEF NoRemove
    <2>2. UNCHANGED <<place, acksPending, ackTimer, rd>>
        BY <1>2, ZenonT(60) DEF removeMember, sendVars
    <2> QED
        BY <2>1, <2>2, ZenonT(60) DEF TimerInv, PendingTimed, FiredHasCallback
<1>3. CASE removeFromQueue
    <2> DEFINE s == rm.sub
    <2>1. s \in QSubs /\ s \in Subs /\ rm.rearm = {}
        BY <1>3, RemoveRecord DEF removeFromQueue, Subs
    <2> HIDE DEF s
    <2>2. ackTimer' = [ackTimer EXCEPT ![s] = "nil"] /\ UNCHANGED rd
        BY <1>3 DEF removeFromQueue, s
    <2>3. FiredHasCallback'
        BY <2>1, <2>2, ZenonT(60) DEF TimerInv, FiredHasCallback, TypeOK, SendType
    <2>4. CASE removeLast(s)
        <3>1. /\ \A x \in Subs : place'[x] = "listed" => x # s /\ place[x] = "listed"
              /\ UNCHANGED acksPending
            BY <2>1, <2>4, RemoveLastEffect, ZenonT(60)
        <3>2. \A x \in Subs : x # s => ackTimer'[x] = ackTimer[x]
            BY <2>2 DEF TypeOK, SendType
        <3>3. PendingTimed'
            BY <2>1, <3>1, <3>2, ZenonT(60) DEF TimerInv, PendingTimed
        <3> QED
            BY <2>3, <3>3 DEF TimerInv
    <2>5. CASE removeAndTransfer(s)
        <3> DEFINE others == Members \ {s}
        <3>0. PICK moved \in transferred(s) :
                 \E to \in [moved -> others], ls \in [others -> 0..MaxSeq],
                    keeper \in others : transfer(s, others, moved, to, ls, keeper)
            BY <2>5, ZenonT(60) DEF removeAndTransfer
        <3>1. PICK to \in [moved -> others], ls \in [others -> 0..MaxSeq],
                   keeper \in others : transfer(s, others, moved, to, ls, keeper)
            BY <3>0
        <3>2. place' = [place EXCEPT ![s] = "left"]
            BY <2>5 DEF removeAndTransfer
        <3>3. ASSUME NEW x \in Subs, place'[x] = "listed", acksPending'[x] # {}
              PROVE  ackTimer'[x] # "nil" \/ x \in rm'.rearm
            <4>1. x # s /\ place[x] = "listed" /\ ackTimer'[x] = ackTimer[x]
                BY <2>1, <2>2, <3>2, <3>3, ZenonT(60) DEF TypeOK, FlagsType, SendType
            <4>2. CASE acksPending'[x] = acksPending[x]
                BY <2>1, <3>3, <4>1, <4>2, ZenonT(60) DEF TimerInv, PendingTimed
            <4>3. CASE x \in others /\ given(moved, to, x) # {}
                BY <3>1, <4>3, ZenonT(60) DEF transfer
            <4>4. CASE x \in others /\ given(moved, to, x) = {}
                BY <3>1, <4>2, <4>4, ZenonT(60) DEF transfer
            <4> QED
                BY <3>1, <4>2, <4>3, <4>4, ZenonT(60) DEF transfer
        <3> QED
            BY <2>3, <3>3, ZenonT(60) DEF TimerInv, PendingTimed
    <2> QED
        BY <1>3, <2>4, <2>5 DEF removeFromQueue, s
<1>4. CASE rearmTimers
    BY <1>4, ZenonT(60) DEF rearmTimers, rearmed, subFlags, TimerInv, PendingTimed, FiredHasCallback
<1> QED
    BY <1>1, <1>2, <1>3, <1>4 DEF removeNext

(* Every step keeps the invariant about timers. *)
LEMMA StepKeepsTimer == TypeOK /\ TimerInv /\ [Next]_vars => TimerInv'
<1> SUFFICES ASSUME TypeOK, TimerInv, [Next]_vars PROVE TimerInv'
    OBVIOUS
<1>1. CASE ioNext \/ expireMsgs
    BY <1>1, TimerStutter DEF ioNext, ioStore, expireMsgs, processMsg, processMsgDone,
                              processMsgVisit, subFlags, sendVars, goroutines
<1>2. ASSUME NEW s \in Subs, NEW q \in Seqs, processAckMsg(s, q) PROVE TimerInv'
    <2>1. s \in Threads
        BY DEF Threads
    <2> QED
        BY <1>2, <2>1, AckKeepsTimed, TimerFrame, ZenonT(60) DEF processAckMsg, subFlags, TimerInv
<1>3. ASSUME NEW s \in Subs, checkClientHealth(s) PROVE TimerInv'
    BY <1>3, TimerStutter, ZenonT(60) DEF checkClientHealth, sendVars, goroutines
<1>4. CASE UNCHANGED vars
    BY <1>4, TimerStutter, ZenonT(60) DEF vars, subFlags, sendVars, goroutines
<1> QED
    BY <1>1, <1>2, <1>3, <1>4, SendNextKeepsTimer, RedeliveryKeepsTimer, StartKeepsTimer,
       SubscribeKeepsTimer, RemoveKeepsTimer DEF Next

(* No pending message of an active subscription, plain, durable or member  *)
(* of a group, is ever left without an ack timer or a callback of it.      *)
THEOREM AlwaysScheduled == Spec => []RedeliveryScheduled
<1>1. Init => TimerInv
    BY ZenonT(60) DEF Init, TimerInv, PendingTimed, FiredHasCallback
<1> QED
    BY <1>1, TimerInvSuffices, StepKeepsTimer, TypeCorrect, PTL DEF Spec

-----------------------------------------------------------------------------
(* HoldReleased is inductive: newOnHold is set together with a request,    *)
(* the response queues the subscription before the request ends, and the   *)
(* Starter reads the flag when it takes the subscription out of the queue. *)

(* Every step keeps HoldReleased: it is inductive with the types. *)
LEMMA StepKeepsHold == TypeOK /\ HoldReleased /\ [Next]_vars => HoldReleased'
<1> SUFFICES ASSUME TypeOK, HoldReleased, [Next]_vars PROVE HoldReleased'
    OBVIOUS
<1>0. Durables \subseteq Subs
    BY DEF Subs
<1>1. ASSUME UNCHANGED <<newOnHold, request, subStartCh, starter>>,
             \A s \in Durables : place'[s] = "listed" => place[s] = "listed"
      PROVE  HoldReleased'
    BY <1>1, ZenonT(60) DEF HoldReleased
<1>2. CASE ioNext \/ expireMsgs
    BY <1>1, <1>2 DEF ioNext, ioStore, expireMsgs, processMsg, processMsgDone,
                      processMsgVisit, subFlags, goroutines, requestVars
<1>3. CASE sendNext
    BY <1>1, <1>3, ZenonT(60) DEF sendNext, beginSend, sendAvailableMessages,
                      sendAvailableMessagesToQueue, subFlags, requestVars
<1>4. ASSUME NEW s \in Subs, NEW q \in Seqs, processAckMsg(s, q) PROVE HoldReleased'
    BY <1>1, <1>4, ZenonT(60) DEF processAckMsg, subFlags, requestVars
<1>5. ASSUME NEW r \in RThreads, redeliveryNext(r) PROVE HoldReleased'
    BY <1>1, <1>5, ZenonT(60) DEF redeliveryNext, ackTimerFires, redeliverMissing, redeliverNotExpired,
                      redeliverExpired, redeliverImplicitAck, adjustAckTimer, subFlags,
                      requestVars
<1>6. ASSUME NEW s \in Subs, checkClientHealth(s) PROVE HoldReleased'
    BY <1>1, <1>6, ZenonT(60) DEF checkClientHealth, goroutines, requestVars
<1>7. ASSUME NEW s \in Subs, subscriptionResponse(s) PROVE HoldReleased'
    <2>1. /\ request = s /\ UNCHANGED <<place, newOnHold, starter>>
          /\ subStartCh \in Seq(Subs) /\ subStartCh' = Append(subStartCh, s)
        BY <1>7, ZenonT(60) DEF subscriptionResponse, TypeOK, RequestType
    <2>2. /\ Len(subStartCh') = Len(subStartCh) + 1
          /\ subStartCh'[Len(subStartCh) + 1] = s
          /\ \A i \in 1..Len(subStartCh) : subStartCh'[i] = subStartCh[i]
        <3>1. ASSUME NEW q \in Seq(Subs) PROVE Len(Append(q, s)) = Len(q) + 1
            BY SMT
        <3>2. ASSUME NEW q \in Seq(Subs) PROVE Append(q, s)[Len(q) + 1] = s
            BY SMT
        <3>3. ASSUME NEW q \in Seq(Subs), NEW i \in 1..Len(q) PROVE Append(q, s)[i] = q[i]
            BY SMT
        <3> QED
            BY <2>1, <3>1, <3>2, <3>3, ZenonT(60)
    <2>3. Len(subStartCh) \in Nat
        BY <2>1
    <2>4. /\ Len(subStartCh) + 1 \in 1..Len(subStartCh')
          /\ \A i \in 1..Len(subStartCh) : i \in 1..Len(subStartCh')
        BY <2>2, <2>3
    <2>5. ASSUME NEW x \in Durables, place'[x] = "listed", newOnHold'[x]
          PROVE  \/ \E i \in 1..Len(subStartCh') : subStartCh'[i] = x
                 \/ starter'.sub = x /\ starter'.hold
        BY <2>1, <2>2, <2>4, <2>5, ZenonT(60) DEF HoldReleased
    <2> QED
        BY <2>5, ZenonT(60) DEF HoldReleased
<1>8. CASE startSub
    <2> DEFINE s == Head(subStartCh)
    <2>1. /\ subStartCh \in Seq(Subs) /\ subStartCh # <<>> /\ subStartCh' = Tail(subStartCh)
          /\ UNCHANGED <<place, newOnHold, request>> /\ starter.sub = Nobody
          /\ starter'.sub = s /\ (starter'.hold <=> IsDurable(s) /\ newOnHold[s])
        BY <1>8, ZenonT(60) DEF startSub, held, TypeOK, RequestType, subFlags, requestVars
    <2>2. /\ Len(subStartCh) \in Nat /\ Len(subStartCh') = Len(subStartCh) - 1
          /\ s = subStartCh[1]
          /\ \A i \in 2..Len(subStartCh) : subStartCh'[i - 1] = subStartCh[i]
        BY <2>1
    <2> HIDE DEF s
    <2>3. Nobody \notin Durables
        BY <1>0, SlotsAssumption DEF Threads
    <2>4. ASSUME NEW x \in Durables, place'[x] = "listed", newOnHold'[x]
          PROVE  \/ request' = x
                 \/ \E i \in 1..Len(subStartCh') : subStartCh'[i] = x
                 \/ starter'.sub = x /\ starter'.hold
        <3>1. request = x \/ \E i \in 1..Len(subStartCh) : subStartCh[i] = x
            BY <2>1, <2>3, <2>4, ZenonT(60) DEF HoldReleased
        <3>2. CASE x = s
            BY <2>1, <2>4, <3>2, ZenonT(60) DEF IsDurable
        <3>3. ASSUME NEW i \in 1..Len(subStartCh), subStartCh[i] = x, x # s
              PROVE  \E j \in 1..Len(subStartCh') : subStartCh'[j] = x
            <4>1. i - 1 \in 1..Len(subStartCh') /\ subStartCh'[i - 1] = x
                BY <2>2, <3>3
            <4> QED
                BY <4>1
        <3> QED
            BY <2>1, <3>1, <3>2, <3>3, ZenonT(60)
    <2> QED
        BY <2>4, ZenonT(60) DEF HoldReleased
<1>9. ASSUME NEW q \in Seqs, performDurableRedelivery(q) PROVE HoldReleased'
    <2>1. starter'.sub = starter.sub /\ starter'.hold = starter.hold
        <3>1. starter \in [sub : Subs, todo : SUBSET Seqs, hold : BOOLEAN]
            BY <1>9, StartRecord DEF performDurableRedelivery
        <3> QED
            BY <1>9, <3>1 DEF performDurableRedelivery
    <2>2. UNCHANGED <<place, newOnHold, request, subStartCh>>
        BY <1>9 DEF performDurableRedelivery, subFlags, requestVars
    <2> QED
        BY <2>1, <2>2, ZenonT(60) DEF HoldReleased
<1>10. CASE releaseNewOnHold
    <2>1. /\ UNCHANGED <<place, request, subStartCh>>
          /\ newOnHold' = [newOnHold EXCEPT ![starter.sub] = @ /\ ~starter.hold]
        BY <1>10, ZenonT(60) DEF releaseNewOnHold, requestVars
    <2>2. ASSUME NEW x \in Durables, newOnHold'[x]
          PROVE  newOnHold[x] /\ ~(starter.sub = x /\ starter.hold)
        BY <1>0, <2>1, <2>2, ZenonT(60) DEF TypeOK, FlagsType
    <2> QED
        BY <2>1, <2>2, ZenonT(60) DEF HoldReleased
<1>11. CASE subscribeNext
    <2> PICK s \in Subs, max \in InFlights :
            \/ \E pos \in Positions : processSubNew(s, pos, max) \/ processSubQueue(s, pos, max)
            \/ processSubResume(s, max)
        BY <1>11 DEF subscribeNext
    <2>1. /\ request = Nobody /\ request' = s /\ UNCHANGED <<subStartCh, starter>>
          /\ \A x \in Durables \ {s} : place'[x] = place[x] /\ newOnHold'[x] = newOnHold[x]
        BY <1>0, ZenonT(60) DEF processSubNew, processSubQueue, processSubResume, newSub, requestAllowed,
                    TypeOK, FlagsType
    <2>2. Nobody \notin Durables
        BY <1>0, SlotsAssumption DEF Threads
    <2> QED
        BY <2>1, <2>2, ZenonT(60) DEF HoldReleased
<1>12. CASE removeNext
    <2>1. ASSUME NEW s \in Subs, NEW unsubscribe \in BOOLEAN,
                 removePlain(s, unsubscribe) \/ removeMember(s, unsubscribe)
          PROVE  HoldReleased'
        BY <1>0, <1>1, <2>1, ZenonT(60) DEF removePlain, removeMember, goroutines, requestVars, TypeOK, FlagsType
    <2>2. CASE removeFromQueue
        <3>1. rm.sub \in QSubs
            BY <2>2, RemoveRecord DEF removeFromQueue
        <3>2. \A s \in Durables : place'[s] = "listed" => place[s] = "listed"
            <4>1. CASE removeLast(rm.sub)
                BY <1>0, <3>1, <4>1, RemoveLastEffect, ZenonT(60)
            <4>2. CASE removeAndTransfer(rm.sub)
                <5>1. place' = [place EXCEPT ![rm.sub] = "left"]
                    BY <4>2, ZenonT(60) DEF removeAndTransfer
                <5> QED
                    BY <1>0, <5>1 DEF TypeOK, FlagsType
            <4> QED
                BY <2>2, <4>1, <4>2, ZenonT(60) DEF removeFromQueue
        <3> QED
            BY <1>1, <2>2, <3>2, ZenonT(60) DEF removeFromQueue, requestVars
    <2>3. CASE rearmTimers
        BY <1>1, <2>3, ZenonT(60) DEF rearmTimers, subFlags, requestVars
    <2> QED
        BY <1>12, <2>1, <2>2, <2>3 DEF removeNext
<1>13. CASE UNCHANGED vars
    BY <1>1, <1>13 DEF vars, subFlags, goroutines, requestVars
<1> QED
    BY <1>2, <1>3, <1>4, <1>5, <1>6, <1>7, <1>8, <1>9, <1>10, <1>11, <1>12, <1>13, ZenonT(60)
       DEF Next, startNext

(* A durable that resumes with pending messages is never left on hold. *)
THEOREM HoldAlwaysReleased == Spec => []HoldReleased
<1>1. Init => HoldReleased
    BY ZenonT(60) DEF Init, HoldReleased, Subs
<1> QED
    BY <1>1, StepKeepsHold, TypeCorrect, PTL DEF Spec
==============================================================================
