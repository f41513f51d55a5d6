--------------------------- MODULE DeliveryProofs ----------------------------
(***************************************************************************)
(* Theorems about Delivery, for any number of subscriptions, ack timer     *)
(* callbacks and messages, any limits, and with every failure of Events.   *)
(***************************************************************************)
EXTENDS Delivery, SequenceTheorems, TLAPS

(* The time each step may take, for the ones that name no prover. *)
USE SMTT(60)

-----------------------------------------------------------------------------
(* Type correctness of the operators that the actions are made of.         *)

(* The cursor of a subscription is one that a goroutine can send on. *)
LEMMA CursorType == \A s \in Subs : Cursor(s) \in Cursors
  BY DEF Cursor, Cursors, Subs, PSubs

(* getNextMsg returns a stored message, or 0, and a cursor in range. *)
LEMMA NextMsgType ==
  ASSUME StoreType, NEW ls \in 0..MaxSeq
  PROVE  /\ getNextMsg(ls).lastSent \in 0..MaxSeq
         /\ getNextMsg(ls).seq # 0 => getNextMsg(ls).seq \in Seqs
  BY BoundsAssumption DEF StoreType, getNextMsg, Stored, Seqs

(* sendMsgToSub keeps the send state of the subscriptions in range. *)
LEMMA SendMsgType ==
  ASSUME SendType, NEW s \in Subs, NEW q \in Seqs, NEW ls \in 0..MaxSeq,
         NEW force \in BOOLEAN, NEW sent \in BOOLEAN, NEW more \in BOOLEAN,
         sendMsgToSub(s, q, ls, force, sent, more)
  PROVE  SendType'
<1>1. stalled' \in [Subs -> BOOLEAN]
    BY Zenon DEF SendType, sendMsgToSub, AddPending
<1>2. LastSent' \in [Subs -> 0..MaxSeq]
    BY BoundsAssumption DEF SendType, sendMsgToSub, AddPending, NotSent, Seqs
<1>3. acksPending' \in [Subs -> SUBSET Seqs]
    BY DEF SendType, sendMsgToSub, AddPending, NotSent
<1>4. ackTimer' \in [Subs -> {"nil", "armed", "fired"}]
    BY DEF SendType, sendMsgToSub, setupAckTimer
<1>5. delivered' \in [Subs -> SUBSET Seqs]
    BY DEF SendType, sendMsgToSub
<1> QED
    BY <1>1, <1>2, <1>3, <1>4, <1>5 DEF SendType

(* So does sendMsgToQueueGroup, with the group's counters. *)
LEMMA SendGroupType ==
  ASSUME SendType, QueueType, NEW m \in QSubs, NEW q \in Seqs,
         NEW gls \in 0..MaxSeq, NEW force \in BOOLEAN, NEW sent \in BOOLEAN,
         sendMsgToQueueGroup(m, q, gls, force, sent)
  PROVE  SendType' /\ QueueType'
<1>1. m \in Subs
    BY DEF Subs
<1>2. LastSent[m] \in 0..MaxSeq
    BY <1>1 DEF SendType
<1>3. SendType'
    BY <1>1, <1>2, SendMsgType DEF sendMsgToQueueGroup
<1>4. QueueType'
    BY <1>1, <1>3 DEF SendType, QueueType, sendMsgToQueueGroup
<1> QED
    BY <1>3, <1>4

(* findBestQueueSub returns members of the group. *)
LEMMA BestType == findBestQueueSub \subseteq QSubs
  BY DEF findBestQueueSub, Members

(* processAck, whatever it finds. *)
LEMMA AckTypes ==
  ASSUME TypeOK, NEW t \in Threads, NEW s \in Subs, NEW q, NEW fromUser \in BOOLEAN,
         fromUser => q \in Seqs,
         processAck(t, s, q, fromUser)
  PROVE  SendType' /\ QueueType' /\ AckType' /\ want' \in [Threads -> Cursors \cup {Nobody}]
<1> USE DEF TypeOK
<1>1. acksPending' \in [Subs -> SUBSET Seqs]
    BY DEF processAck, ackHolders, SendType, Members, Subs
<1>2. stalled' \in [Subs -> BOOLEAN]
    BY Zenon DEF processAck, unstall, SendType
<1>3. QueueType'
    BY DEF processAck, unstall, oneLess, QueueType
<1>4. want' \in [Threads -> Cursors \cup {Nobody}]
    BY CursorType DEF processAck, unstall, LoopType
<1>5. AckType'
    BY DEF processAck, recordAck, AckType, ackVars
<1>6. UNCHANGED <<LastSent, ackTimer, delivered>>
    BY DEF processAck
<1>7. SendType'
    BY <1>1, <1>2, <1>6 DEF SendType
<1> QED
    BY <1>3, <1>4, <1>5, <1>7

(* setSubStartSequence gives a sequence in range. *)
LEMMA StartSequenceType ==
  ASSUME StoreType, NEW pos \in Positions
  PROVE  setSubStartSequence(pos) \subseteq 0..MaxSeq
<1>1. pos \in {"NewOnly", "LastReceived", "TimeDeltaStart", "SequenceStart", "First"}
    BY BoundsAssumption
<1> QED
    BY <1>1, BoundsAssumption DEF StoreType, setSubStartSequence

-----------------------------------------------------------------------------
(* Type correctness of the actions, by goroutine.                          *)

(* What a step leaves alone keeps its type. *)
LEMMA TypeFrame ==
  ASSUME TypeOK
  PROVE  /\ UNCHANGED store => StoreType'
         /\ UNCHANGED subFlags => FlagsType'
         /\ UNCHANGED sendVars => SendType'
         /\ UNCHANGED queue => QueueType'
         /\ UNCHANGED ackVars => AckType'
         /\ UNCHANGED <<requestVars, subStartCh, starter>> => RequestType'
         /\ UNCHANGED rd => RedeliveryType'
         /\ UNCHANGED rm => RemoveType'
         /\ UNCHANGED <<io, want, loop>> => LoopType'
<1> USE DEF TypeOK
<1>1. UNCHANGED store => StoreType'
    BY DEF store, StoreType
<1>2. UNCHANGED subFlags => FlagsType'
    BY DEF subFlags, FlagsType
<1>3. UNCHANGED sendVars => SendType'
    BY DEF sendVars, SendType
<1>4. UNCHANGED queue => QueueType'
    BY DEF queue, QueueType
<1>5. UNCHANGED ackVars => AckType'
    BY DEF ackVars, AckType
<1>6. UNCHANGED <<requestVars, subStartCh, starter>> => RequestType'
    BY DEF requestVars, RequestType
<1>7. (UNCHANGED rd => RedeliveryType') /\ (UNCHANGED rm => RemoveType')
    BY ZenonT(60) DEF RedeliveryType, RemoveType
<1>8. UNCHANGED <<io, want, loop>> => LoopType'
    BY DEF LoopType
<1> QED
    BY <1>1, <1>2, <1>3, <1>4, <1>5, <1>6, <1>7, <1>8

(* ioLoop and expireMsgs keep the types: first never passes last + 1. *)
LEMMA IoType == TypeOK /\ (ioNext \/ expireMsgs) => TypeOK'
<1> SUFFICES ASSUME TypeOK, ioNext \/ expireMsgs PROVE TypeOK'
    OBVIOUS
<1> USE TypeFrame
<1>1. CASE ioStore
    <2>1. StoreType' /\ LoopType'
        BY <1>1, BoundsAssumption DEF ioStore, TypeOK, StoreType, LoopType
    <2> QED
        BY <1>1, <2>1 DEF ioStore, TypeOK
<1>2. CASE expireMsgs
    <2>1. StoreType'
        BY <1>2 DEF expireMsgs, TypeOK, StoreType
    <2> QED
        BY <1>2, <2>1 DEF expireMsgs, TypeOK, goroutines
<1>3. CASE processMsg
    <2>1. LoopType'
        BY <1>3 DEF processMsg, TypeOK, LoopType, Cursors
    <2> QED
        BY <1>3, <2>1 DEF processMsg, TypeOK
<1>4. ASSUME NEW x \in Cursors, processMsgVisit(x) PROVE TypeOK'
    <2>1. LoopType'
        BY <1>4 DEF processMsgVisit, TypeOK, LoopType, Threads
    <2> QED
        BY <1>4, <2>1 DEF processMsgVisit, TypeOK
<1>5. CASE processMsgDone
    <2>1. LoopType'
        BY <1>5 DEF processMsgDone, TypeOK, LoopType
    <2> QED
        BY <1>5, <2>1 DEF processMsgDone, TypeOK
<1> QED
    BY <1>1, <1>2, <1>3, <1>4, <1>5 DEF ioNext

(* The send loops keep the types, whatever sendMsgToSub answers. *)
LEMMA SendNextType == TypeOK /\ sendNext => TypeOK'
<1> SUFFICES ASSUME TypeOK, sendNext PROVE TypeOK'
    OBVIOUS
<1> USE TypeFrame
<1>1. ASSUME NEW t \in Threads, beginSend(t) PROVE TypeOK'
    <2>1. LoopType'
        BY <1>1 DEF beginSend, TypeOK, LoopType
    <2> QED
        BY <1>1, <2>1 DEF beginSend, TypeOK
<1>2. ASSUME NEW s \in PSubs, sendAvailableMessages(s) PROVE TypeOK'
    <2> DEFINE n == getNextMsg(LastSent[s])
    <2>1. s \in Subs /\ LastSent[s] \in 0..MaxSeq
        BY DEF TypeOK, SendType, Subs, PSubs
    <2>2. n.lastSent \in 0..MaxSeq /\ (n.seq # 0 => n.seq \in Seqs)
        BY <2>1, NextMsgType DEF TypeOK
    <2> HIDE DEF n
    <2>3. SendType'
        <3>1. CASE UNCHANGED sendVars
            BY <3>1
        <3>2. CASE /\ LastSent' = [LastSent EXCEPT ![s] = n.lastSent]
                   /\ UNCHANGED <<stalled, acksPending, ackTimer, delivered>>
            BY <3>2, <2>1, <2>2 DEF TypeOK, SendType
        <3>3. ASSUME n.seq # 0, NEW sent \in BOOLEAN, NEW more \in BOOLEAN,
                     sendMsgToSub(s, n.seq, n.lastSent, FALSE, sent, more)
              PROVE  SendType'
            BY <3>3, <2>1, <2>2, SendMsgType, Zenon DEF TypeOK
        <3> QED
            BY <1>2, <3>1, <3>2, <3>3, Zenon DEF sendAvailableMessages, n
    <2>4. LoopType'
        BY <1>2, Zenon DEF sendAvailableMessages, TypeOK, LoopType
    <2> QED
        BY <1>2, <2>3, <2>4 DEF sendAvailableMessages, TypeOK
<1>3. CASE sendAvailableMessagesToQueue
    <2> DEFINE n == getNextMsg(lastSent)
    <2>1. n.lastSent \in 0..MaxSeq /\ (n.seq # 0 => n.seq \in Seqs)
        BY NextMsgType DEF TypeOK, QueueType
    <2> HIDE DEF n
    <2>2. SendType' /\ QueueType'
        <3>1. CASE UNCHANGED <<sendVars, queue>>
            BY <3>1
        <3>2. CASE lastSent' = n.lastSent /\ UNCHANGED <<sendVars, stalledSubCount>>
            BY <3>2, <2>1 DEF TypeOK, QueueType
        <3>3. ASSUME n.seq # 0, NEW m \in findBestQueueSub, NEW sent \in BOOLEAN,
                     sendMsgToQueueGroup(m, n.seq, n.lastSent, FALSE, sent)
              PROVE  SendType' /\ QueueType'
            BY <3>3, <2>1, BestType, SendGroupType, Zenon DEF TypeOK
        <3> QED
            BY <1>3, <3>1, <3>2, <3>3, Zenon DEF sendAvailableMessagesToQueue, n
    <2>3. LoopType'
        BY <1>3, ZenonT(60) DEF sendAvailableMessagesToQueue, TypeOK, LoopType
    <2> QED
        BY <1>3, <2>2, <2>3 DEF sendAvailableMessagesToQueue, TypeOK
<1> QED
    BY <1>1, <1>2, <1>3 DEF sendNext

(* processAckMsg keeps the types: stalledSubCount does not go below 0. *)
LEMMA AckMsgType ==
  ASSUME NEW s \in Subs, NEW q \in Seqs PROVE TypeOK /\ processAckMsg(s, q) => TypeOK'
<1> SUFFICES ASSUME TypeOK, processAckMsg(s, q) PROVE TypeOK'
    OBVIOUS
<1> USE TypeFrame
<1>1. s \in Threads
    BY DEF Threads
<1>2. SendType' /\ QueueType' /\ AckType' /\ want' \in [Threads -> Cursors \cup {Nobody}]
    BY <1>1, AckTypes, ZenonT(60) DEF processAckMsg
<1>3. LoopType'
    BY <1>2 DEF processAckMsg, TypeOK, LoopType
<1> QED
    BY <1>2, <1>3, Zenon DEF processAckMsg, TypeOK

(* checkClientHealth keeps the types. *)
LEMMA HealthType ==
  ASSUME NEW s \in Subs PROVE TypeOK /\ checkClientHealth(s) => TypeOK'
<1> SUFFICES ASSUME TypeOK, checkClientHealth(s) PROVE TypeOK'
    OBVIOUS
<1>1. FlagsType'
    BY ZenonT(60) DEF checkClientHealth, TypeOK, FlagsType
<1> QED
    BY <1>1, TypeFrame, ZenonT(60) DEF checkClientHealth, TypeOK, goroutines

(* What a callback at work on a message knows. *)
LEMMA RedeliveryRecord ==
  ASSUME TypeOK, NEW r \in RThreads, rd[r] # NoRedelivery
  PROVE  rd[r] \in [sub : Subs, todo : SUBSET Seqs, ack : 0..MaxSeq]
  BY DEF TypeOK, RedeliveryType

(* performAckExpirationRedelivery keeps the types, implicit acks included. *)
LEMMA RedeliveryNextType ==
  ASSUME NEW r \in RThreads PROVE TypeOK /\ redeliveryNext(r) => TypeOK'
<1> SUFFICES ASSUME TypeOK, redeliveryNext(r) PROVE TypeOK'
    OBVIOUS
<1> USE TypeFrame
<1>0. r \in Threads
    BY DEF Threads
<1>1. ASSUME NEW s \in Subs, ackTimerFires(r, s) PROVE TypeOK'
    <2>1. SendType'
        BY <1>1 DEF ackTimerFires, TypeOK, SendType
    <2>2. RedeliveryType'
        <3>1. /\ rd' = rd \/ rd' = [rd EXCEPT ![r] = [sub |-> s, todo |-> acksPending[s], ack |-> 0]]
              /\ RedeliveryType /\ acksPending[s] \in SUBSET Seqs
            BY <1>1 DEF ackTimerFires, TypeOK, SendType
        <3>2. [sub |-> s, todo |-> acksPending[s], ack |-> 0]
                 \in [sub : Subs, todo : SUBSET Seqs, ack : 0..MaxSeq]
            <4>1. 0 \in 0..MaxSeq
                BY BoundsAssumption
            <4> QED
                BY <3>1, <4>1, ZenonT(60)
        <3> QED
            BY <3>1, <3>2, ZenonT(60) DEF RedeliveryType
    <2> QED
        BY <1>1, <2>1, <2>2 DEF ackTimerFires, TypeOK
<1>2. ASSUME NEW q \in Seqs, redeliverMissing(r, q) PROVE TypeOK'
    <2>1. rd[r] \in [sub : Subs, todo : SUBSET Seqs, ack : 0..MaxSeq]
        BY <1>2, RedeliveryRecord DEF redeliverMissing, redeliveryReady, NoRedelivery
    <2>2. SendType' /\ QueueType' /\ AckType' /\ want' \in [Threads -> Cursors \cup {Nobody}]
        BY <1>0, <1>2, <2>1, AckTypes, ZenonT(60) DEF redeliverMissing
    <2>3. LoopType' /\ RedeliveryType'
        BY <1>2, <2>1, <2>2 DEF redeliverMissing, TypeOK, LoopType, RedeliveryType
    <2> QED
        BY <1>2, <2>2, <2>3 DEF redeliverMissing, TypeOK
<1>3. ASSUME NEW q \in Seqs, redeliverNotExpired(r, q) PROVE TypeOK'
    <2>1. rd[r] \in [sub : Subs, todo : SUBSET Seqs, ack : 0..MaxSeq]
        BY <1>3, RedeliveryRecord DEF redeliverNotExpired, redeliveryReady, NoRedelivery
    <2>2. RedeliveryType'
        BY <1>3, <2>1 DEF redeliverNotExpired, TypeOK, RedeliveryType
    <2> QED
        BY <1>3, <2>2 DEF redeliverNotExpired, TypeOK
<1>4. ASSUME NEW q \in Seqs, redeliverExpired(r, q) PROVE TypeOK'
    <2>1. rd[r] \in [sub : Subs, todo : SUBSET Seqs, ack : 0..MaxSeq]
        BY <1>4, RedeliveryRecord DEF redeliverExpired, redeliveryReady, NoRedelivery
    <2>2. LastSent[rd[r].sub] \in 0..MaxSeq /\ lastSent \in 0..MaxSeq
        BY <2>1, ZenonT(60) DEF TypeOK, SendType, QueueType
    <2>3. SendType' /\ QueueType'
        <3>1. CASE UNCHANGED <<sendVars, queue>>
            BY <3>1
        <3>2. ASSUME NEW sent \in BOOLEAN, NEW more \in BOOLEAN, UNCHANGED queue,
                     sendMsgToSub(rd[r].sub, q, LastSent[rd[r].sub], TRUE, sent, more)
              PROVE  SendType' /\ QueueType'
            BY <3>2, <2>1, <2>2, SendMsgType, ZenonT(60) DEF TypeOK
        <3>3. ASSUME NEW m \in findBestQueueSub, NEW sent \in BOOLEAN,
                     sendMsgToQueueGroup(m, q, lastSent, TRUE, sent)
              PROVE  SendType' /\ QueueType'
            BY <3>3, <2>2, BestType, SendGroupType, ZenonT(60) DEF TypeOK
        <3> QED
            BY <1>4, <3>1, <3>2, <3>3, Zenon DEF redeliverExpired
    <2>4. RedeliveryType'
        <3>1. ASSUME NEW a \in 0..MaxSeq,
                     rd' = [rd EXCEPT ![r].todo = @ \ {q}, ![r].ack = a]
              PROVE  RedeliveryType'
            BY <3>1, <2>1, ZenonT(60) DEF TypeOK, RedeliveryType
        <3>2. CASE rd' = [rd EXCEPT ![r].todo = {}]
            BY <3>2, <2>1 DEF TypeOK, RedeliveryType
        <3>3. 0 \in 0..MaxSeq /\ q \in 0..MaxSeq
            BY BoundsAssumption DEF Seqs
        <3> QED
            BY <1>4, <3>1, <3>2, <3>3, Zenon DEF redeliverExpired
    <2> QED
        BY <1>4, <2>3, <2>4 DEF redeliverExpired, TypeOK
<1>5. CASE redeliverImplicitAck(r)
    <2>1. rd[r] \in [sub : Subs, todo : SUBSET Seqs, ack : 0..MaxSeq]
        BY <1>5, RedeliveryRecord DEF redeliverImplicitAck, NoRedelivery
    <2>2. SendType' /\ QueueType' /\ AckType' /\ want' \in [Threads -> Cursors \cup {Nobody}]
        BY <1>0, <1>5, <2>1, AckTypes, ZenonT(60) DEF redeliverImplicitAck
    <2>3. LoopType' /\ RedeliveryType'
        BY <1>5, <2>1, <2>2, BoundsAssumption DEF redeliverImplicitAck, TypeOK, LoopType, RedeliveryType
    <2> QED
        BY <1>5, <2>2, <2>3 DEF redeliverImplicitAck, TypeOK
<1>6. CASE adjustAckTimer(r)
    <2>1. SendType' /\ RedeliveryType'
        BY <1>6, ZenonT(60) DEF adjustAckTimer, adjustedTimer, TypeOK, SendType, RedeliveryType
    <2> QED
        BY <1>6, <2>1, ZenonT(60) DEF adjustAckTimer, TypeOK
<1> QED
    BY <1>1, <1>2, <1>3, <1>4, <1>5, <1>6 DEF redeliveryNext

(* What performDurableRedelivery works on. *)
LEMMA StartRecord ==
  ASSUME TypeOK, starter.sub # Nobody
  PROVE  starter \in [sub : Subs, todo : SUBSET Seqs, hold : BOOLEAN]
<1>1. NoStart.sub = Nobody
    BY DEF NoStart
<1> QED
    BY <1>1, ZenonT(60) DEF TypeOK, RequestType

(* processSubscriptionsStart and performDurableRedelivery keep the types. *)
LEMMA StartNextType == TypeOK /\ startNext => TypeOK'
<1> SUFFICES ASSUME TypeOK, startNext PROVE TypeOK'
    OBVIOUS
<1> USE TypeFrame
<1>0. Starter \in Threads
    BY DEF Threads
<1>1. ASSUME NEW s \in Subs, subscriptionResponse(s) PROVE TypeOK'
    <2>1. FlagsType'
        BY <1>1, ZenonT(60) DEF subscriptionResponse, TypeOK, FlagsType
    <2>2. RequestType'
        <3>1. /\ RequestType /\ request' = Nobody /\ subStartCh' = Append(subStartCh, s)
              /\ UNCHANGED <<requests, starter>>
            BY <1>1 DEF subscriptionResponse, TypeOK
        <3>2. subStartCh' \in Seq(Subs)
            BY <3>1 DEF RequestType
        <3> QED
            BY <3>1, <3>2, ZenonT(60) DEF RequestType
    <2> QED
        BY <1>1, <2>1, <2>2 DEF subscriptionResponse, TypeOK
<1>2. CASE startSub
    <2> DEFINE s == Head(subStartCh)
    <2>1. s \in Subs /\ subStartCh' \in Seq(Subs)
        <3>1. subStartCh \in Seq(Subs) /\ subStartCh # <<>> /\ subStartCh' = Tail(subStartCh)
            BY <1>2, ZenonT(60) DEF startSub, TypeOK, RequestType
        <3> QED
            BY <3>1, HeadTailProperties, ZenonT(60)
    <2>2. starter' \in [sub : Subs, todo : SUBSET Seqs, hold : BOOLEAN]
        <3>1. held(s) \in BOOLEAN
            BY <2>1, ZenonT(60) DEF held, TypeOK, FlagsType
        <3>2. (IF IsDurable(s) /\ ClientID[s] THEN acksPending[s] ELSE {}) \in SUBSET Seqs
            BY <2>1 DEF TypeOK, SendType
        <3> QED
            BY <1>2, <2>1, <3>1, <3>2, ZenonT(60) DEF startSub
    <2>3. RequestType'
        BY <1>2, <2>1, <2>2, ZenonT(60) DEF startSub, TypeOK, RequestType, requestVars
    <2> QED
        BY <1>2, <2>3, ZenonT(60) DEF startSub, TypeOK
<1>3. ASSUME NEW q \in Seqs, performDurableRedelivery(q) PROVE TypeOK'
    <2> DEFINE s == starter.sub
    <2>1. starter \in [sub : Subs, todo : SUBSET Seqs, hold : BOOLEAN]
        BY <1>3, StartRecord DEF performDurableRedelivery
    <2>2. s \in Subs /\ LastSent[s] \in 0..MaxSeq
        BY <2>1 DEF TypeOK, SendType
    <2>3. SendType' /\ QueueType' /\ AckType' /\ want' \in [Threads -> Cursors \cup {Nobody}]
        <3>1. CASE processAck(Starter, s, q, FALSE)
            BY <3>1, <1>0, <2>2, AckTypes, ZenonT(60)
        <3>2. ASSUME NEW sent \in BOOLEAN, NEW more \in BOOLEAN,
                     UNCHANGED <<queue, ackVars, want>>,
                     sendMsgToSub(s, q, LastSent[s], TRUE, sent, more)
              PROVE  SendType' /\ QueueType' /\ AckType'
                        /\ want' \in [Threads -> Cursors \cup {Nobody}]
            <4>1. SendType'
                BY <3>2, <2>2, SendMsgType, ZenonT(60) DEF TypeOK
            <4> QED
                BY <3>2, <4>1, ZenonT(60) DEF TypeOK, LoopType
        <3>3. CASE UNCHANGED <<sendVars, queue, ackVars, want>>
            BY <3>3, ZenonT(60) DEF TypeOK, LoopType
        <3> QED
            BY <1>3, <3>1, <3>2, <3>3, ZenonT(60) DEF performDurableRedelivery
    <2>4. LoopType'
        BY <1>3, <2>3 DEF performDurableRedelivery, TypeOK, LoopType
    <2>5. starter' \in [sub : Subs, todo : SUBSET Seqs, hold : BOOLEAN]
        BY <1>3, <2>1 DEF performDurableRedelivery
    <2>6. RequestType'
        BY <1>3, <2>5 DEF performDurableRedelivery, TypeOK, RequestType, requestVars
    <2> QED
        BY <1>3, <2>3, <2>4, <2>6 DEF performDurableRedelivery, TypeOK
<1>4. CASE releaseNewOnHold
    <2>1. starter.sub \in Subs
        BY <1>4, StartRecord, ZenonT(60) DEF releaseNewOnHold
    <2>2. FlagsType'
        BY <1>4, <2>1, ZenonT(60) DEF releaseNewOnHold, TypeOK, FlagsType
    <2>3. RequestType'
        BY <1>4, ZenonT(60) DEF releaseNewOnHold, TypeOK, RequestType, requestVars
    <2>4. LoopType'
        BY <1>4, <1>0, <2>1, CursorType, ZenonT(60) DEF releaseNewOnHold, TypeOK, LoopType
    <2> QED
        BY <1>4, <2>2, <2>3, <2>4, ZenonT(60) DEF releaseNewOnHold, TypeOK
<1> QED
    BY <1>1, <1>2, <1>3, <1>4 DEF startNext

(* A new subState, whichever request it is for. *)
LEMMA NewSubType ==
  ASSUME TypeOK, NEW s \in Subs, NEW ls \in 0..MaxSeq, NEW max \in InFlights,
         newSub(s, ls, max)
  PROVE  FlagsType' /\ SendType' /\ acked' \in [Subs -> SUBSET Seqs] /\ RequestType'
<1>1. FlagsType'
    BY BoundsAssumption, ZenonT(60) DEF newSub, TypeOK, FlagsType
<1>2. SendType'
    BY ZenonT(60) DEF newSub, TypeOK, SendType
<1>3. acked' \in [Subs -> SUBSET Seqs]
    BY BoundsAssumption DEF newSub, TypeOK, AckType, Seqs
<1>4. RequestType'
    BY DEF newSub, TypeOK, RequestType
<1> QED
    BY <1>1, <1>2, <1>3, <1>4

(* processSub keeps the types, for new and for remembered subscriptions. *)
LEMMA SubscribeType == TypeOK /\ subscribeNext => TypeOK'
<1> SUFFICES ASSUME TypeOK, NEW s \in Subs, NEW max \in InFlights,
                    \/ \E pos \in Positions :
                          processSubNew(s, pos, max) \/ processSubQueue(s, pos, max)
                    \/ processSubResume(s, max)
             PROVE  TypeOK'
    BY DEF subscribeNext
<1> USE TypeFrame
<1>1. ASSUME NEW pos \in Positions, processSubNew(s, pos, max) PROVE TypeOK'
    <2>1. PICK ls \in 0..MaxSeq : newSub(s, ls, max)
        BY <1>1, StartSequenceType, ZenonT(60) DEF processSubNew, TypeOK
    <2>2. AckType'
        BY <1>1, <2>1, NewSubType, ZenonT(60) DEF processSubNew, TypeOK, AckType
    <2> QED
        BY <1>1, <2>1, <2>2, NewSubType, ZenonT(60) DEF processSubNew, newSub, TypeOK
<1>2. ASSUME NEW pos \in Positions, processSubQueue(s, pos, max) PROVE TypeOK'
    <2>1. PICK ls \in 0..MaxSeq :
             /\ newSub(s, ls, max)
             /\ \/ UNCHANGED <<queue, qacked>>
                \/ lastSent' = ls /\ qacked' = 1..ls /\ UNCHANGED stalledSubCount
        <3>1. CASE Members # {}
            <4>1. newSub(s, 0, max) /\ UNCHANGED <<queue, qacked>>
                BY <1>2, <3>1, ZenonT(60) DEF processSubQueue
            <4>2. 0 \in 0..MaxSeq
                BY BoundsAssumption
            <4> QED
                BY <4>1, <4>2, ZenonT(60)
        <3>2. CASE Members = {}
            BY <1>2, <3>2, StartSequenceType, ZenonT(60) DEF processSubQueue, TypeOK
        <3> QED
            BY <3>1, <3>2, ZenonT(60)
    <2>2. QueueType'
        BY <2>1 DEF TypeOK, QueueType, queue
    <2>3. qacked' \subseteq Seqs
        <3>1. 1..ls \subseteq Seqs
            BY BoundsAssumption DEF Seqs
        <3>2. qacked \subseteq Seqs /\ (qacked' = qacked \/ qacked' = 1..ls)
            BY <2>1, ZenonT(60) DEF TypeOK, AckType
        <3> QED
            BY <3>1, <3>2
    <2>4. AckType'
        BY <2>1, <2>3, NewSubType, ZenonT(60) DEF AckType
    <2> QED
        BY <2>1, <2>2, <2>4, NewSubType, ZenonT(60) DEF newSub, TypeOK
<1>3. CASE processSubResume(s, max)
    <2>1. /\ place' \in [Subs -> {"gone", "listed", "left", "offline", "shadow"}]
          /\ MaxInFlight' \in [Subs -> Nat \ {0}]
          /\ resumeSeq' \in [Subs -> 0..MaxSeq]
        BY <1>3, BoundsAssumption, ZenonT(60) DEF processSubResume, TypeOK, FlagsType, SendType
    <2>2. /\ ClientID' \in [Subs -> BOOLEAN] /\ newOnHold' \in [Subs -> BOOLEAN]
          /\ hasFailedHB' \in [Subs -> BOOLEAN] /\ initialized' \in [Subs -> BOOLEAN]
        BY <1>3, ZenonT(60) DEF processSubResume, TypeOK, FlagsType
    <2>3. SendType'
        BY <1>3, ZenonT(60) DEF processSubResume, resumedTimer, TypeOK, SendType
    <2>4. RequestType'
        <3>1. /\ RequestType /\ request' = s /\ requests' = requests + 1
              /\ UNCHANGED <<subStartCh, starter>>
            BY <1>3, ZenonT(60) DEF processSubResume, TypeOK
        <3>2. requests' \in Nat
            BY <3>1 DEF RequestType
        <3> QED
            BY <3>1, <3>2, ZenonT(60) DEF RequestType
    <2> QED
        BY <1>3, <2>1, <2>2, <2>3, <2>4, ZenonT(60) DEF processSubResume, TypeOK, FlagsType
<1> QED
    BY <1>1, <1>2, <1>3

(* What Remove works on between its two parts for a queue member. *)
LEMMA RemoveRecord ==
  ASSUME TypeOK, rm.pc = "queue"
  PROVE  rm \in [pc : {"queue"}, sub : QSubs, unsubscribe : BOOLEAN, rearm : {{}}]
<1>1. NoRemove.pc = "idle"
    BY DEF NoRemove
<1> QED
    BY <1>1, ZenonT(60) DEF TypeOK, RemoveType

(* subStore.Remove keeps the types, with its transfer to other members. *)
LEMMA RemoveNextType == TypeOK /\ removeNext => TypeOK'
<1> SUFFICES ASSUME TypeOK, removeNext PROVE TypeOK'
    OBVIOUS
<1> USE TypeFrame
<1>1. ASSUME NEW s \in Subs, NEW unsubscribe \in BOOLEAN, removePlain(s, unsubscribe)
      PROVE  TypeOK'
    <2>1. FlagsType'
        BY <1>1, ZenonT(60) DEF removePlain, TypeOK, FlagsType
    <2>2. SendType'
        BY <1>1, ZenonT(60) DEF removePlain, TypeOK, SendType
    <2> QED
        BY <1>1, <2>1, <2>2, ZenonT(60) DEF removePlain, TypeOK, goroutines
<1>2. ASSUME NEW s \in Subs, NEW unsubscribe \in BOOLEAN, removeMember(s, unsubscribe)
      PROVE  TypeOK'
    <2>1. FlagsType'
        BY <1>2, ZenonT(60) DEF removeMember, TypeOK, FlagsType
    <2>2. RemoveType'
        BY <1>2, ZenonT(60) DEF removeMember, Members, RemoveType
    <2> QED
        BY <1>2, <2>1, <2>2, ZenonT(60) DEF removeMember, TypeOK
<1>3. CASE removeFromQueue
    <2> DEFINE s == rm.sub
    <2>1. s \in QSubs /\ s \in Subs
        BY <1>3, RemoveRecord, ZenonT(60) DEF removeFromQueue, Subs
    <2> HIDE DEF s
    <2>2. /\ ackTimer' \in [Subs -> {"nil", "armed", "fired"}]
          /\ delivered' \in [Subs -> SUBSET Seqs]
          /\ UNCHANGED <<store, ClientID, initialized, newOnHold, hasFailedHB,
                         MaxInFlight, resumeSeq, stalled, acked, io, requestVars,
                         subStartCh, starter, rd, loop>>
        BY <1>3, <2>1, ZenonT(60) DEF removeFromQueue, TypeOK, SendType, s
    <2>3. /\ place' \in [Subs -> {"gone", "listed", "left", "offline", "shadow"}]
          /\ LastSent' \in [Subs -> 0..MaxSeq]
          /\ acksPending' \in [Subs -> SUBSET Seqs]
          /\ QueueType' /\ RemoveType'
          /\ qacked' \subseteq Seqs
          /\ want' \in [Threads -> Cursors \cup {Nobody}]
        <3>1. CASE removeLast(s)
            <4>1. place' \in [Subs -> {"gone", "listed", "left", "offline", "shadow"}]
                BY <3>1, <2>1, ZenonT(60) DEF removeLast, TypeOK, FlagsType
            <4>2. LastSent' \in [Subs -> 0..MaxSeq] /\ acksPending' \in [Subs -> SUBSET Seqs]
                BY <3>1, <2>1, ZenonT(60) DEF removeLast, TypeOK, SendType, QueueType
            <4>3. QueueType' /\ qacked' \subseteq Seqs
                <5>1. /\ lastSent' = 0 \/ lastSent' = lastSent
                      /\ qacked' = {} \/ qacked' = qacked
                      /\ stalledSubCount' = 0
                    BY <3>1, ZenonT(60) DEF removeLast
                <5> QED
                    BY <5>1, BoundsAssumption DEF TypeOK, QueueType, AckType
            <4>4. RemoveType'
                BY <3>1, ZenonT(60) DEF removeLast, RemoveType
            <4>5. want' \in [Threads -> Cursors \cup {Nobody}]
                BY <3>1, ZenonT(60) DEF removeLast, TypeOK, LoopType
            <4> QED
                BY <4>1, <4>2, <4>3, <4>4, <4>5, ZenonT(60)
        <3>2. CASE removeAndTransfer(s)
            <4> DEFINE others == Members \ {s}
            <4>0. PICK moved \in transferred(s) :
                     \E to \in [moved -> others], ls \in [others -> 0..MaxSeq],
                        keeper \in others : transfer(s, others, moved, to, ls, keeper)
                BY <3>2, ZenonT(60) DEF removeAndTransfer
            <4>1. PICK to \in [moved -> others], ls \in [others -> 0..MaxSeq],
                       keeper \in others : transfer(s, others, moved, to, ls, keeper)
                BY <4>0, ZenonT(60)
            <4>2. moved \subseteq Seqs /\ others \subseteq QSubs
                <5>1. acksPending[s] \subseteq Seqs
                    BY <2>1, ZenonT(60) DEF TypeOK, SendType
                <5> QED
                    BY <5>1, ZenonT(60) DEF transferred, Members
            <4>3. LastSent' \in [Subs -> 0..MaxSeq] /\ acksPending' \in [Subs -> SUBSET Seqs]
                <5>1. LastSent' = [m \in Subs |-> IF m \in others THEN ls[m] ELSE LastSent[m]]
                    BY <4>1, ZenonT(60) DEF transfer
                <5>2. acksPending' = [m \in Subs |-> IF m \in others
                                                     THEN acksPending[m] \cup given(moved, to, m)
                                                     ELSE acksPending[m]]
                    BY <4>1, ZenonT(60) DEF transfer
                <5>3. \A m \in others : given(moved, to, m) \subseteq Seqs
                    BY <4>2 DEF given
                <5> HIDE DEF others
                <5>4. LastSent' \in [Subs -> 0..MaxSeq]
                    BY <5>1, ZenonT(60) DEF TypeOK, SendType
                <5> QED
                    BY <5>2, <5>3, <5>4, ZenonT(60) DEF TypeOK, SendType
            <4>4. RemoveType'
                BY <4>1, <4>2, ZenonT(60) DEF transfer, RemoveType
            <4>5. place' \in [Subs -> {"gone", "listed", "left", "offline", "shadow"}]
                BY <3>2, <2>1, ZenonT(60) DEF removeAndTransfer, TypeOK, FlagsType
            <4>6. QueueType' /\ qacked' \subseteq Seqs
                     /\ want' \in [Threads -> Cursors \cup {Nobody}]
                <5>1. UNCHANGED <<want, lastSent, qacked>> /\ stalledSubCount' = stalledWithout(s)
                    BY <3>2, ZenonT(60) DEF removeAndTransfer
                <5>2. stalledWithout(s) \in Nat
                    BY DEF stalledWithout, oneLess, TypeOK, QueueType
                <5> QED
                    BY <5>1, <5>2, ZenonT(60) DEF TypeOK, QueueType, AckType, LoopType
            <4> QED
                BY <4>3, <4>4, <4>5, <4>6, ZenonT(60)
        <3> QED
            BY <1>3, <3>1, <3>2, ZenonT(60) DEF removeFromQueue, s
    <2>4. FlagsType' /\ SendType' /\ AckType' /\ LoopType'
        BY <2>2, <2>3, Zenon DEF TypeOK, FlagsType, SendType, AckType, LoopType
    <2> QED
        BY <2>2, <2>3, <2>4, ZenonT(60) DEF TypeOK
<1>4. CASE rearmTimers
    <2>1. SendType'
        BY <1>4, ZenonT(60) DEF rearmTimers, rearmed, TypeOK, SendType
    <2>2. RemoveType'
        BY <1>4, ZenonT(60) DEF rearmTimers, RemoveType
    <2> QED
        BY <1>4, <2>1, <2>2, ZenonT(60) DEF rearmTimers, TypeOK
<1> QED
    BY <1>1, <1>2, <1>3, <1>4 DEF removeNext

(* The initial state of a server without subscriptions or messages. *)
LEMMA InitType == Init => TypeOK
<1> SUFFICES ASSUME Init PROVE TypeOK
    OBVIOUS
<1>0. 0 \in 0..MaxSeq /\ 0 \in Nat /\ 1 \in Nat \ {0} /\ MaxSeq \in Nat
    BY BoundsAssumption
<1>1. StoreType /\ QueueType /\ AckType
    <2>1. first = 0 /\ last = 0 /\ lastSent = 0 /\ stalledSubCount = 0
        BY ZenonT(60) DEF Init
    <2>2. acked = [s \in Subs |-> {}] /\ qacked = {}
        BY ZenonT(60) DEF Init
    <2>3. StoreType
        BY <1>0, <2>1 DEF StoreType
    <2> QED
        BY <1>0, <2>1, <2>2, <2>3 DEF QueueType, AckType
<1>2. FlagsType
    BY <1>0, ZenonT(60) DEF Init, FlagsType
<1>3. SendType
    BY <1>0, ZenonT(60) DEF Init, SendType
<1>4. RequestType
    <2>1. request = Nobody /\ requests = 0 /\ subStartCh = <<>> /\ starter = NoStart
        BY ZenonT(60) DEF Init
    <2> QED
        BY <2>1 DEF RequestType
<1>5. RedeliveryType /\ RemoveType /\ LoopType
    BY ZenonT(60) DEF Init, RedeliveryType, RemoveType, LoopType
<1> QED
    BY <1>1, <1>2, <1>3, <1>4, <1>5 DEF TypeOK

(* Every step keeps the types. *)
LEMMA StepType == TypeOK /\ [Next]_vars => TypeOK'
<1> SUFFICES ASSUME TypeOK, [Next]_vars PROVE TypeOK'
    OBVIOUS
<1>1. CASE UNCHANGED vars
    BY <1>1, TypeFrame, ZenonT(60) DEF vars, goroutines, TypeOK
<1> QED
    BY <1>1, IoType, SendNextType, AckMsgType, HealthType, RedeliveryNextType,
       StartNextType, SubscribeType, RemoveNextType DEF Next

(* Type correctness: every goroutine keeps the state it works on in range, *)
(* the counter of stalled members and the cursors in particular.           *)
THEOREM TypeCorrect == Spec => []TypeOK
  BY InitType, StepType, PTL DEF Spec
==============================================================================
