------------------------------ MODULE Delivery ------------------------------
(***************************************************************************)
(* Delivery of the messages of one channel to its subscriptions by a       *)
(* stand-alone server: server/server.go, subStore, queueState, subState    *)
(* and the goroutines that work on them.                                   *)
(*                                                                         *)
(* A step is what one goroutine does between taking the last lock it needs *)
(* and releasing it.  The goroutines are                                   *)
(*   IO          ioLoop: stores messages, then walks the subscriptions     *)
(*   Starter     processSubscriptionsStart                                 *)
(*   a member of RThreads   an ack timer callback                          *)
(*                          (performAckExpirationRedelivery)               *)
(*   a member s of Subs     the callback of the ack subscription of s      *)
(* plus the handler of subscription requests and the goroutine that holds  *)
(* closeMu and removes a subscription.  A loop that sends messages holds   *)
(* the lock of its subscription (or queue group) from one iteration to the *)
(* next: that lock is `loop'.                                              *)
(*                                                                         *)
(* A subscription object is a slot of Plain, Durables or QSubs.  A slot is *)
(* given to a new subscription once no goroutine or timer can reach the    *)
(* object that was in it.                                                  *)
(***************************************************************************)
EXTENDS Integers, Sequences, FiniteSets

CONSTANTS
    Plain,      \* slots of plain, non durable subscriptions
    Durables,   \* slots of durable subscriptions, one per durable name
    QSubs,      \* slots of the members of one queue group
    Group,      \* the queue group
    QDurable,   \* TRUE if the queue group is durable
    RThreads,   \* the ack timer callbacks that may run at the same time
    IO, Starter, Nobody,
    Positions,  \* the start positions that subscription requests ask for
    InFlights,  \* the MaxInFlight values that subscription requests ask for
    MaxMsgs,    \* the channel's MaxMsgs limit, 0 for none
    Events,     \* the failures and other events that may happen
    MaxSeq,     \* bound: number of messages published
    MaxStarts,  \* bound: length of subStartCh
    MaxRequests \* bound: number of subscription requests

Subs == Plain \cup Durables \cup QSubs
PSubs == Plain \cup Durables
Cursors == PSubs \cup {Group}
Threads == Subs \cup RThreads \cup {IO, Starter}
Seqs == 1..MaxSeq

ASSUME SlotsAssumption ==
    /\ Plain \cap Durables = {} /\ Plain \cap QSubs = {} /\ Durables \cap QSubs = {}
    /\ Group \notin Subs
    /\ Nobody \notin Threads \cup Cursors
    /\ RThreads \cap Subs = {}
    /\ IO \notin Subs \cup RThreads /\ Starter \notin Subs \cup RThreads
    /\ IO # Starter
    /\ QDurable \in BOOLEAN

ASSUME BoundsAssumption ==
    /\ MaxSeq \in Nat /\ MaxMsgs \in Nat /\ MaxStarts \in Nat \ {0} /\ MaxRequests \in Nat
    /\ InFlights \subseteq Nat \ {0}
    /\ Events \subseteq {"publishFails", "addPendingFails", "ackFails",
                         "expireMsgs", "heartbeatFails"}
    /\ Positions \subseteq {"NewOnly", "LastReceived", "TimeDeltaStart",
                            "SequenceStart", "First"}

VARIABLES
    first, last,    \* FirstAndLastSequence of the message store
    io,             \* ioLoop: where it is and the cursors it still has to visit
    place,          \* which list of the subStore holds the object
    ClientID,       \* FALSE when the subscription's ClientID is ""
    initialized, newOnHold, hasFailedHB, stalled,
    LastSent, MaxInFlight,
    acksPending,    \* the sequences that are the keys of acksPending
    ackTimer,       \* "nil", "armed", or "fired" while its callback runs
    lastSent, stalledSubCount,                         \* the queueState
    request,        \* subscription whose request is being answered
    requests,       \* number of subscription requests so far
    subStartCh,
    starter,        \* performDurableRedelivery in the Starter goroutine
    rd,             \* performAckExpirationRedelivery, per callback
    rm,             \* subStore.Remove
    want,           \* the cursor on which a goroutine is about to send
    loop,           \* the goroutine inside the send loop of a cursor
    delivered,      \* history: sequences published to the current inbox
    acked,          \* history: sequences that owe the subscription nothing
    qacked,         \* the same for the queue group
    resumeSeq       \* history: LastSent when the subscription (re)started

store == <<first, last>>
subFlags == <<place, ClientID, initialized, newOnHold, hasFailedHB, MaxInFlight, resumeSeq>>
sendVars == <<stalled, LastSent, acksPending, ackTimer, delivered>>
queue == <<lastSent, stalledSubCount>>
ackVars == <<acked, qacked>>
requestVars == <<request, requests>>
goroutines == <<io, requestVars, subStartCh, starter, rd, rm, want, loop>>
vars == <<store, subFlags, sendVars, queue, ackVars, goroutines>>
-----------------------------------------------------------------------------
Cursor(s) == IF s \in QSubs THEN Group ELSE s
Members == {s \in QSubs : place[s] = "listed"}
NoRedelivery == [sub |-> Nobody, todo |-> {}, ack |-> 0]
NoStart == [sub |-> Nobody, todo |-> {}, hold |-> FALSE]
NoRemove == [pc |-> "idle", sub |-> Nobody, unsubscribe |-> FALSE, rearm |-> {}]

(* The goroutine is about to send, or is sending, on behalf of a caller. *)
Busy(t) == want[t] # Nobody \/ \E x \in Cursors : loop[x] = t

(* Locks.  ss.Lock excludes processMsg's walk and a Remove under way;      *)
(* a plain subscription's lock is held by its send loop.                   *)
ssFree == io.pc # "walk" /\ rm.pc # "queue"
subFree(s) == s \in PSubs => loop[s] = Nobody
allFree(s) == loop[Cursor(s)] = Nobody

(* A message is in the store. *)
Stored(q) == first <= q /\ q <= last

(* Something can still reach the object in slot s. *)
Referenced(s) ==
    \/ request = s \/ starter.sub = s \/ rm.sub = s \/ s \in rm.rearm
    \/ \E i \in 1..Len(subStartCh) : subStartCh[i] = s
    \/ \E r \in RThreads : rd[r].sub = s
    \/ ackTimer[s] # "nil"
    \/ Busy(s)
    \/ s \in PSubs /\ (loop[s] # Nobody \/ \E t \in Threads : want[t] = s)
Free(s) == place[s] \in {"left", "gone"} /\ ~Referenced(s)
-----------------------------------------------------------------------------
Init ==
    /\ first = 0 /\ last = 0
    /\ io = [pc |-> "idle", left |-> {}]
    /\ place = [s \in Subs |-> "gone"]
    /\ ClientID = [s \in Subs |-> FALSE]
    /\ initialized = [s \in Subs |-> FALSE]
    /\ newOnHold = [s \in Subs |-> FALSE]
    /\ hasFailedHB = [s \in Subs |-> FALSE]
    /\ stalled = [s \in Subs |-> FALSE]
    /\ LastSent = [s \in Subs |-> 0]
    /\ MaxInFlight = [s \in Subs |-> 1]
    /\ acksPending = [s \in Subs |-> {}]
    /\ ackTimer = [s \in Subs |-> "nil"]
    /\ lastSent = 0 /\ stalledSubCount = 0
    /\ request = Nobody /\ requests = 0 /\ subStartCh = <<>>
    /\ starter = NoStart
    /\ rd = [r \in RThreads |-> NoRedelivery]
    /\ rm = NoRemove
    /\ want = [t \in Threads |-> Nobody]
    /\ loop = [x \in Cursors |-> Nobody]
    /\ delivered = [s \in Subs |-> {}]
    /\ acked = [s \in Subs |-> {}]
    /\ qacked = {}
    /\ resumeSeq = [s \in Subs |-> 0]
-----------------------------------------------------------------------------
(***************************************************************************)
(* The message store, as far as delivery sees it: Store appends and        *)
(* removes what exceeds MaxMsgs, never the message just added; expireMsgs  *)
(* may remove all of them.                                                 *)
(***************************************************************************)
ioStore ==
    /\ io.pc \in {"idle", "stored"} /\ last < MaxSeq
    /\ io' = [io EXCEPT !.pc = "stored"]
    /\ last' = last + 1
    /\ first' = IF first = 0 THEN 1
                ELSE IF MaxMsgs > 0 /\ last + 1 - first + 1 > MaxMsgs THEN first + 1
                ELSE first
    /\ UNCHANGED <<subFlags, sendVars, queue, ackVars, requestVars, subStartCh,
                   starter, rd, rm, want, loop>>

expireMsgs ==
    /\ "expireMsgs" \in Events /\ 0 < first /\ first <= last
    /\ first' = first + 1
    /\ UNCHANGED <<last, subFlags, sendVars, queue, ackVars, goroutines>>

(* processMsg takes ss.RLock and walks the plain subscriptions, then the   *)
(* queue groups, calling the send loop of each.                            *)
processMsg ==
    /\ io.pc = "stored" /\ rm.pc # "queue"
    /\ io' = [pc |-> "walk",
              left |-> {s \in PSubs : place[s] = "listed"}
                        \cup IF Members = {} THEN {} ELSE {Group}]
    /\ UNCHANGED <<store, subFlags, sendVars, queue, ackVars, requestVars,
                   subStartCh, starter, rd, rm, want, loop>>

processMsgVisit(x) ==
    /\ io.pc = "walk" /\ x \in io.left /\ ~Busy(IO)
    /\ x = Group => io.left = {Group}
    /\ loop[x] = Nobody
    /\ loop' = [loop EXCEPT ![x] = IO]
    /\ io' = [io EXCEPT !.left = @ \ {x}]
    /\ UNCHANGED <<store, subFlags, sendVars, queue, ackVars, requestVars,
                   subStartCh, starter, rd, rm, want>>

processMsgDone ==
    /\ io.pc = "walk" /\ io.left = {} /\ ~Busy(IO)
    /\ io' = [io EXCEPT !.pc = "idle"]
    /\ UNCHANGED <<store, subFlags, sendVars, queue, ackVars, requestVars,
                   subStartCh, starter, rd, rm, want, loop>>
-----------------------------------------------------------------------------
(***************************************************************************)
(* sendMsgToSub: one attempt to send message q to subscription s.  `ls' is *)
(* the subscription's LastSent as the caller left it; `sent' and `more'    *)
(* are the two results.  A message is sent with force exactly when it is   *)
(* flagged as redelivered.                                                 *)
(***************************************************************************)
Refused(s, force) == ~initialized[s] \/ ~ClientID[s] \/ (newOnHold[s] /\ ~force)

Full(s) == Cardinality(acksPending[s]) >= MaxInFlight[s]

NotSent(s, ls, sent, more) ==
    /\ ~sent /\ ~more
    /\ LastSent' = [LastSent EXCEPT ![s] = ls]
    /\ UNCHANGED acksPending

(* Mutant: a message that fills the subscription is not kept as pending. *)
AddPendingTooLate(s, q, ls, force, sent, more) ==
    /\ sent
    /\ more = (force \/ Cardinality(acksPending[s]) + 1 # MaxInFlight[s])
    /\ LastSent' = [LastSent EXCEPT ![s] = IF q > ls THEN q ELSE ls]
    /\ acksPending' = [acksPending EXCEPT ![s] = IF more THEN @ \cup {q} ELSE @]
    /\ stalled' = [stalled EXCEPT ![s] = @ \/ ~more]

AddPending(s, q, ls, force, sent, more) ==
    /\ sent
    /\ more = (force \/ Cardinality(acksPending[s]) + 1 # MaxInFlight[s])
    /\ LastSent' = [LastSent EXCEPT ![s] = IF q > ls THEN q ELSE ls]
    /\ acksPending' = [acksPending EXCEPT ![s] = @ \cup {q}]
    /\ stalled' = [stalled EXCEPT ![s] = @ \/ ~more]

(* The ack timer after a message was published. *)
(* Mutant: only a full subscription gets a timer. *)
setupAckTimerIfStalled(s) == IF ackTimer[s] = "nil" /\ stalled[s] THEN "armed" ELSE ackTimer[s]
setupAckTimer(s) == IF ackTimer[s] = "nil" THEN "armed" ELSE ackTimer[s]

sendMsgToSub(s, q, ls, force, sent, more) ==
    \/ /\ Refused(s, force)
       /\ NotSent(s, ls, sent, more)
       /\ UNCHANGED <<stalled, ackTimer, delivered>>
    \/ /\ ~Refused(s, force) /\ ~force /\ Full(s)
       /\ NotSent(s, ls, sent, more)
       /\ stalled' = [stalled EXCEPT ![s] = TRUE]
       /\ UNCHANGED <<ackTimer, delivered>>
    \/ /\ ~Refused(s, force) /\ (force \/ ~Full(s))
       /\ "publishFails" \in Events
       /\ NotSent(s, ls, sent, more)
       /\ UNCHANGED <<stalled, ackTimer, delivered>>
    \/ /\ ~Refused(s, force) /\ (force \/ ~Full(s))
       /\ delivered' = [delivered EXCEPT ![s] = @ \cup {q}]
       /\ ackTimer' = [ackTimer EXCEPT ![s] = setupAckTimer(s)]
       /\ \/ /\ q \in acksPending[s]
             /\ sent /\ more
             /\ LastSent' = [LastSent EXCEPT ![s] = ls]
             /\ UNCHANGED <<stalled, acksPending>>
          \/ /\ q \notin acksPending[s] /\ "addPendingFails" \in Events
             /\ NotSent(s, ls, sent, more)
             /\ UNCHANGED stalled
          \/ /\ q \notin acksPending[s]
             /\ AddPending(s, q, ls, force, sent, more)

(* findBestQueueSub: the members it may return.  Which of several equally  *)
(* loaded members comes first depends on the order of the list, which the  *)
(* function itself rotates; the order is left open.                        *)
findBestQueueSub ==
    LET favored == {m \in Members : ~stalled[m] /\ ~hasFailedHB[m]}
        out(m) == Cardinality(acksPending[m])
    IN  IF favored = {} THEN Members
        ELSE {m \in favored : \A n \in favored : out(m) <= out(n)}

(* sendMsgToQueueGroup to member m, with the group's lastSent at gls.      *)
sendMsgToQueueGroup(m, q, gls, force, sent) ==
    /\ \E more \in BOOLEAN : sendMsgToSub(m, q, LastSent[m], force, sent, more)
    /\ stalledSubCount' = IF ~force /\ ~stalled[m] /\ stalled'[m]
                          THEN stalledSubCount + 1 ELSE stalledSubCount
    /\ lastSent' = IF sent /\ LastSent'[m] > gls THEN LastSent'[m] ELSE gls
-----------------------------------------------------------------------------
(***************************************************************************)
(* sendAvailableMessages and sendAvailableMessagesToQueue.                 *)
(***************************************************************************)
(* getNextMsg after `ls': the message found, 0 for none, and the new value *)
(* of the cursor, moved past what the store has removed.                   *)
getNextMsg(ls) ==
    IF Stored(ls + 1) THEN [seq |-> ls + 1, lastSent |-> ls]
    ELSE IF ls + 1 >= last THEN [seq |-> 0, lastSent |-> ls]
    ELSE [seq |-> IF first <= last THEN first ELSE 0, lastSent |-> first - 1]

beginSend(t) ==
    /\ want[t] # Nobody
    /\ loop[want[t]] = Nobody
    /\ loop' = [loop EXCEPT ![want[t]] = t]
    /\ want' = [want EXCEPT ![t] = Nobody]
    /\ UNCHANGED <<store, subFlags, sendVars, queue, ackVars, io, requestVars,
                   subStartCh, starter, rd, rm>>

(* One iteration of the loop of sendAvailableMessages. *)
sendAvailableMessages(s) ==
    LET n == getNextMsg(LastSent[s]) IN
    /\ loop[s] # Nobody
    /\ \/ /\ stalled[s]
          /\ loop' = [loop EXCEPT ![s] = Nobody]
          /\ UNCHANGED sendVars
       \/ /\ ~stalled[s] /\ n.seq = 0
          /\ loop' = [loop EXCEPT ![s] = Nobody]
          /\ LastSent' = [LastSent EXCEPT ![s] = n.lastSent]
          /\ UNCHANGED <<stalled, acksPending, ackTimer, delivered>>
       \/ /\ ~stalled[s] /\ n.seq # 0
          /\ \E sent, more \in BOOLEAN :
                /\ sendMsgToSub(s, n.seq, n.lastSent, FALSE, sent, more)
                /\ loop' = IF sent /\ more THEN loop ELSE [loop EXCEPT ![s] = Nobody]
    /\ UNCHANGED <<store, subFlags, queue, ackVars, io, requestVars, subStartCh,
                   starter, rd, rm, want>>

(* One iteration of the loop of sendAvailableMessagesToQueue. *)
sendAvailableMessagesToQueue ==
    LET n == getNextMsg(lastSent)
        open == Members # {} /\ stalledSubCount < Cardinality(Members)
        stop == loop' = [loop EXCEPT ![Group] = Nobody]
    IN
    /\ loop[Group] # Nobody
    /\ \/ /\ ~open /\ stop
          /\ UNCHANGED <<sendVars, queue>>
       \/ /\ open /\ n.seq = 0 /\ stop
          /\ lastSent' = n.lastSent
          /\ UNCHANGED <<sendVars, stalledSubCount>>
       \/ /\ open /\ n.seq # 0
          /\ \E m \in findBestQueueSub, sent \in BOOLEAN :
                /\ sendMsgToQueueGroup(m, n.seq, n.lastSent, FALSE, sent)
                /\ loop' = IF sent THEN loop ELSE [loop EXCEPT ![Group] = Nobody]
    /\ UNCHANGED <<store, subFlags, ackVars, io, requestVars, subStartCh,
                   starter, rd, rm, want>>
-----------------------------------------------------------------------------
(***************************************************************************)
(* processAck, run by goroutine t for sequence q of subscription s.  The   *)
(* goroutine goes on to send if s was stalled and now has room.            *)
(***************************************************************************)
(* The subscriptions whose acksPending the ack may clear. *)
ackHolders(s, q, fromUser) ==
    IF q \in acksPending[s] THEN {s}
    ELSE IF s \in QSubs /\ fromUser
         THEN {m \in Members \ {s} : q \in acksPending[m]}
    ELSE {}

recordAck(s, q, fromUser) ==
    IF ~fromUser THEN UNCHANGED ackVars
    ELSE IF s \in QSubs THEN qacked' = qacked \cup {q} /\ UNCHANGED acked
    ELSE acked' = [acked EXCEPT ![s] = @ \cup {q}] /\ UNCHANGED qacked

(* Mutant: one ack less than the limit is not enough. *)
HasRoomLate(s) == Cardinality(acksPending'[s]) < MaxInFlight[s] - 1
HasRoom(s) == Cardinality(acksPending'[s]) < MaxInFlight[s]

(* The count after a stalled member is no longer one. *)
(* Mutant: no guard against zero. *)
oneLessUnguarded == stalledSubCount - 1
oneLess == IF stalledSubCount > 0 THEN stalledSubCount - 1 ELSE stalledSubCount

unstall(t, s) ==
    LET live == s \in PSubs \/ place[s] # "gone" IN
    IF stalled[s] /\ HasRoom(s)
    THEN /\ stalled' = [stalled EXCEPT ![s] = FALSE]
         /\ stalledSubCount' = IF s \in QSubs /\ live THEN oneLess ELSE stalledSubCount
         /\ want' = IF live THEN [want EXCEPT ![t] = Cursor(s)] ELSE want
    ELSE UNCHANGED <<stalled, stalledSubCount, want>>

processAck(t, s, q, fromUser) ==
    /\ allFree(s)
    /\ \/ /\ q \in acksPending[s] /\ "ackFails" \in Events
          /\ UNCHANGED <<acksPending, stalled, stalledSubCount, want, ackVars>>
       \/ /\ ackHolders(s, q, fromUser) = {}
          /\ UNCHANGED acksPending
          /\ unstall(t, s)
          /\ UNCHANGED ackVars
       \/ /\ \E h \in ackHolders(s, q, fromUser) :
                acksPending' = [acksPending EXCEPT ![h] = @ \ {q}]
          /\ unstall(t, s)
          /\ recordAck(s, q, fromUser)
    /\ UNCHANGED <<LastSent, ackTimer, delivered, lastSent>>

(* processAckMsg: an ack for a message the client has received arrives on  *)
(* the subscription's current AckInbox.                                    *)
processAckMsg(s, q) ==
    /\ place[s] = "listed" /\ ClientID[s] /\ rm.pc # "queue"
    /\ q \in delivered[s]
    /\ ~Busy(s)
    /\ processAck(s, s, q, TRUE)
    /\ UNCHANGED <<store, subFlags, io, requestVars, subStartCh, starter, rd,
                   rm, loop>>
-----------------------------------------------------------------------------
(***************************************************************************)
(* performAckExpirationRedelivery.  Time is abstract: the timer may fire   *)
(* at any moment, and any of the pending messages, taken in any order, may *)
(* be found to have expired or not.                                        *)
(***************************************************************************)
(* The timer fires and its callback takes the pending messages.  A plain   *)
(* subscription whose client misses heartbeats only resets the timer.      *)
ackTimerFires(r, s) ==
    /\ ackTimer[s] = "armed" /\ rd[r] = NoRedelivery /\ ~Busy(r) /\ subFree(s)
    /\ IF acksPending[s] = {}
       THEN ackTimer' = [ackTimer EXCEPT ![s] = "nil"] /\ UNCHANGED rd
       ELSE /\ s \in QSubs \/ ~hasFailedHB[s]
            /\ ackTimer' = [ackTimer EXCEPT ![s] = "fired"]
            /\ rd' = [rd EXCEPT ![r] = [sub |-> s, todo |-> acksPending[s], ack |-> 0]]
    /\ UNCHANGED <<store, subFlags, stalled, LastSent, acksPending, delivered,
                   queue, ackVars, io, requestVars, subStartCh, starter, rm,
                   want, loop>>

redeliveryReady(r, q) == q \in rd[r].todo /\ rd[r].ack = 0 /\ ~Busy(r)

(* getMsgForRedelivery does not find the message and acks it. *)
redeliverMissing(r, q) ==
    /\ redeliveryReady(r, q) /\ ~Stored(q)
    /\ processAck(r, rd[r].sub, q, FALSE)
    /\ rd' = [rd EXCEPT ![r].todo = @ \ {q}]
    /\ UNCHANGED <<store, subFlags, io, requestVars, subStartCh, starter, rm,
                   loop>>

(* The first message that has not expired ends the loop. *)
redeliverNotExpired(r, q) ==
    /\ redeliveryReady(r, q) /\ Stored(q)
    /\ rd' = [rd EXCEPT ![r].todo = {}]
    /\ UNCHANGED <<store, subFlags, sendVars, queue, ackVars, io, requestVars,
                   subStartCh, starter, rm, want, loop>>

redeliverExpired(r, q) ==
    LET s == rd[r].sub
        next(ack) == rd' = [rd EXCEPT ![r].todo = @ \ {q}, ![r].ack = ack]
    IN
    /\ redeliveryReady(r, q) /\ Stored(q)
    /\ allFree(s)
    /\ \/ /\ q \notin acksPending[s]
          /\ next(0)
          /\ UNCHANGED <<sendVars, queue>>
       \/ /\ q \in acksPending[s] /\ s \in PSubs
          /\ \E sent, more \in BOOLEAN :
                sendMsgToSub(s, q, LastSent[s], TRUE, sent, more)
          /\ next(0)
          /\ UNCHANGED queue
       \/ /\ q \in acksPending[s] /\ s \in QSubs
          /\ place[s] = "gone" \/ Members = {}
          /\ rd' = [rd EXCEPT ![r].todo = {}]
          /\ UNCHANGED <<sendVars, queue>>
       \/ /\ q \in acksPending[s] /\ s \in QSubs /\ place[s] # "gone"
          /\ \E m \in findBestQueueSub, sent \in BOOLEAN :
                /\ sendMsgToQueueGroup(m, q, lastSent, TRUE, sent)
                /\ next(IF sent /\ m # s THEN q ELSE 0)
    /\ UNCHANGED <<store, subFlags, ackVars, io, requestVars, subStartCh,
                   starter, rm, want, loop>>

(* The message went to another member: implicit ack for the original one.  *)
redeliverImplicitAck(r) ==
    /\ rd[r].ack # 0 /\ ~Busy(r)
    /\ processAck(r, rd[r].sub, rd[r].ack, FALSE)
    /\ rd' = [rd EXCEPT ![r].ack = 0]
    /\ UNCHANGED <<store, subFlags, io, requestVars, subStartCh, starter, rm,
                   loop>>

(* Mutant: the timer is not set again while the subscription is stalled. *)
adjustedTimerUnstalled(s) ==
    IF ackTimer[s] = "nil" \/ acksPending[s] = {} \/ stalled[s] THEN "nil" ELSE "armed"
adjustedTimer(s) == IF ackTimer[s] = "nil" \/ acksPending[s] = {} THEN "nil" ELSE "armed"

adjustAckTimer(r) ==
    LET s == rd[r].sub IN
    /\ s # Nobody /\ rd[r].todo = {} /\ rd[r].ack = 0 /\ ~Busy(r) /\ subFree(s)
    /\ ackTimer' = [ackTimer EXCEPT ![s] = adjustedTimer(s)]
    /\ rd' = [rd EXCEPT ![r] = NoRedelivery]
    /\ UNCHANGED <<store, subFlags, stalled, LastSent, acksPending, delivered,
                   queue, ackVars, io, requestVars, subStartCh, starter, rm,
                   want, loop>>

(* checkClientHealth: the result of a heartbeat reaches the subscription. *)
checkClientHealth(s) ==
    /\ "heartbeatFails" \in Events
    /\ place[s] = "listed" /\ ClientID[s] /\ subFree(s)
    /\ hasFailedHB' = [hasFailedHB EXCEPT ![s] = ~@]
    /\ UNCHANGED <<store, place, ClientID, initialized, newOnHold, MaxInFlight,
                   resumeSeq, sendVars, queue, ackVars, goroutines>>
-----------------------------------------------------------------------------
(***************************************************************************)
(* Subscription requests: processSub, then the tail of                     *)
(* processSubscriptionRequest, then processSubscriptionsStart.             *)
(***************************************************************************)
(* setSubStartSequence: the values of lastSent a start position may give. *)
(* Mutant: an empty channel is not told apart. *)
setSubStartSequenceUnguarded(pos) ==
    IF pos \in {"NewOnly", "LastReceived"} THEN {last - (IF pos = "NewOnly" THEN 0 ELSE 1)}
    ELSE {first - 1}
setSubStartSequence(pos) ==
    CASE pos = "NewOnly" -> {last}
      [] pos = "LastReceived" -> {IF last > 0 THEN last - 1 ELSE 0}
      [] pos = "TimeDeltaStart" -> IF first = 0 THEN {0} ELSE (first - 1)..last
      [] pos = "SequenceStart" ->
            {IF n < first THEN first - 1 ELSE IF n > last THEN last
             ELSE IF n > 0 THEN n - 1 ELSE 0 : n \in 0..(MaxSeq + 1)}
      [] pos = "First" -> {IF first > 0 THEN first - 1 ELSE 0}

(* The requests are handled one at a time. *)
requestAllowed == request = Nobody /\ requests < MaxRequests

(* A new subState in slot s, with LastSent at ls. *)
newSub(s, ls, max) ==
    /\ place' = [place EXCEPT ![s] = "listed"]
    /\ ClientID' = [ClientID EXCEPT ![s] = TRUE]
    /\ initialized' = [initialized EXCEPT ![s] = FALSE]
    /\ newOnHold' = [newOnHold EXCEPT ![s] = FALSE]
    /\ hasFailedHB' = [hasFailedHB EXCEPT ![s] = FALSE]
    /\ MaxInFlight' = [MaxInFlight EXCEPT ![s] = max]
    /\ resumeSeq' = [resumeSeq EXCEPT ![s] = ls]
    /\ stalled' = [stalled EXCEPT ![s] = FALSE]
    /\ LastSent' = [LastSent EXCEPT ![s] = ls]
    /\ acksPending' = [acksPending EXCEPT ![s] = {}]
    /\ delivered' = [delivered EXCEPT ![s] = {}]
    /\ acked' = [acked EXCEPT ![s] = 1..ls]
    /\ request' = s /\ requests' = requests + 1
    /\ UNCHANGED <<store, ackTimer, io, subStartCh, starter, rd, rm, want,
                   loop>>

(* processSub for a plain or durable subscription that does not exist.     *)
processSubNew(s, pos, max) ==
    /\ s \in PSubs /\ Free(s) /\ requestAllowed /\ ssFree
    /\ \E ls \in setSubStartSequence(pos) : newSub(s, ls, max)
    /\ UNCHANGED <<queue, qacked>>

(* processSub for a new member of the queue group.  Only the one that      *)
(* creates the group gets a start position.                                *)
processSubQueue(s, pos, max) ==
    /\ s \in QSubs /\ Free(s) /\ requestAllowed /\ ssFree
    /\ \A m \in QSubs : place[m] # "shadow"
    /\ IF Members # {}
       THEN loop[Group] = Nobody /\ newSub(s, 0, max) /\ UNCHANGED <<queue, qacked>>
       ELSE \E ls \in setSubStartSequence(pos) :
                /\ newSub(s, ls, max)
                /\ lastSent' = ls /\ qacked' = 1..ls
                /\ UNCHANGED stalledSubCount

(* The ack timer of a subscription that resumes. *)
(* Mutant: the timer is left to the first message sent. *)
resumedTimerLater(s) == ackTimer[s]
resumedTimer(s) == IF acksPending[s] # {} THEN "armed" ELSE ackTimer[s]

(* processSub for a remembered subscription: an offline durable or the     *)
(* shadow of an empty durable group.                                       *)
processSubResume(s, max) ==
    /\ place[s] \in {"offline", "shadow"} /\ requestAllowed /\ ssFree
    /\ allFree(s)
    /\ place' = [place EXCEPT ![s] = "listed"]
    /\ ClientID' = [ClientID EXCEPT ![s] = TRUE]
    /\ MaxInFlight' = [MaxInFlight EXCEPT ![s] = max]
    /\ stalled' = [stalled EXCEPT ![s] = FALSE]
    /\ newOnHold' = [newOnHold EXCEPT ![s] = @ \/ acksPending[s] # {}]
    /\ ackTimer' = [ackTimer EXCEPT ![s] = resumedTimer(s)]
    /\ hasFailedHB' = [hasFailedHB EXCEPT ![s] = FALSE]
    /\ initialized' = [initialized EXCEPT ![s] = FALSE]
    /\ resumeSeq' = [resumeSeq EXCEPT ![s] = LastSent[s]]
    /\ request' = s /\ requests' = requests + 1
    /\ UNCHANGED <<store, LastSent, acksPending, delivered, queue, ackVars, io,
                   subStartCh, starter, rd, rm, want, loop>>

(* The response is sent: messages may flow from now on. *)
subscriptionResponse(s) ==
    /\ request = s /\ subFree(s) /\ Len(subStartCh) < MaxStarts
    /\ initialized' = [initialized EXCEPT ![s] = TRUE]
    /\ subStartCh' = Append(subStartCh, s)
    /\ request' = Nobody
    /\ UNCHANGED <<requests, store, place, ClientID, newOnHold, hasFailedHB,
                   MaxInFlight, resumeSeq, sendVars, queue, ackVars, io,
                   starter, rd, rm, want, loop>>

IsDurable(s) == s \in Durables \/ (s \in QSubs /\ QDurable)

(* What performDurableRedelivery remembers of newOnHold. *)
(* Mutant: nothing to do when no message is pending. *)
heldIfPending(s) == IsDurable(s) /\ newOnHold[s] /\ acksPending[s] # {}
held(s) == IsDurable(s) /\ newOnHold[s]

(* processSubscriptionsStart takes a subscription.  For a durable,         *)
(* performDurableRedelivery takes the pending messages, if it finds the    *)
(* client, and remembers newOnHold.                                        *)
startSub ==
    LET s == Head(subStartCh) IN
    /\ starter.sub = Nobody /\ ~Busy(Starter) /\ subStartCh # <<>>
    /\ subFree(s)
    /\ subStartCh' = Tail(subStartCh)
    /\ starter' = [sub |-> s,
                   todo |-> IF IsDurable(s) /\ ClientID[s] THEN acksPending[s] ELSE {},
                   hold |-> held(s)]
    /\ UNCHANGED <<store, subFlags, sendVars, queue, ackVars, io, requestVars,
                   rd, rm, want, loop>>

performDurableRedelivery(q) ==
    LET s == starter.sub IN
    /\ s # Nobody /\ ~Busy(Starter)
    /\ q \in starter.todo /\ \A p \in starter.todo : q <= p
    /\ allFree(s)
    /\ \/ /\ ~Stored(q)
          /\ processAck(Starter, s, q, FALSE)
       \/ /\ Stored(q) /\ q \in acksPending[s]
          /\ \E sent, more \in BOOLEAN :
                sendMsgToSub(s, q, LastSent[s], TRUE, sent, more)
          /\ UNCHANGED <<queue, ackVars, want>>
       \/ /\ Stored(q) /\ q \notin acksPending[s]
          /\ UNCHANGED <<sendVars, queue, ackVars, want>>
    /\ starter' = [starter EXCEPT !.todo = @ \ {q}]
    /\ UNCHANGED <<store, subFlags, io, requestVars, subStartCh, rd, rm, loop>>

(* newOnHold is released and the available messages are sent. *)
releaseNewOnHold ==
    LET s == starter.sub
        live == s \in PSubs \/ place[s] # "gone"
    IN
    /\ s # Nobody /\ starter.todo = {} /\ ~Busy(Starter) /\ subFree(s)
    /\ newOnHold' = [newOnHold EXCEPT ![s] = @ /\ ~starter.hold]
    /\ want' = IF live THEN [want EXCEPT ![Starter] = Cursor(s)] ELSE want
    /\ starter' = NoStart
    /\ UNCHANGED <<store, place, ClientID, initialized, hasFailedHB,
                   MaxInFlight, resumeSeq, sendVars, queue, ackVars, io,
                   requestVars, subStartCh, rd, rm, loop>>
-----------------------------------------------------------------------------
(***************************************************************************)
(* subStore.Remove, under closeMu: an unsubscribe, a close, or the close   *)
(* of the client.                                                          *)
(***************************************************************************)
removePlain(s, unsubscribe) ==
    /\ s \in PSubs /\ place[s] = "listed" /\ ClientID[s]
    /\ rm.pc = "idle" /\ ssFree /\ subFree(s)
    /\ ClientID' = [ClientID EXCEPT ![s] = FALSE]
    /\ ackTimer' = [ackTimer EXCEPT ![s] = "nil"]
    /\ place' = [place EXCEPT ![s] = IF s \in Durables /\ ~unsubscribe
                                     THEN "offline" ELSE "gone"]
    /\ delivered' = [delivered EXCEPT ![s] = {}]
    /\ UNCHANGED <<store, initialized, newOnHold, hasFailedHB, MaxInFlight,
                   resumeSeq, stalled, LastSent, acksPending, queue, ackVars,
                   goroutines>>

(* First part for a queue member: the ClientID is cleared under the lock   *)
(* of the subscription only.                                               *)
removeMember(s, unsubscribe) ==
    /\ s \in Members /\ ClientID[s]
    /\ rm.pc = "idle" /\ ssFree
    /\ ClientID' = [ClientID EXCEPT ![s] = FALSE]
    /\ rm' = [pc |-> "queue", sub |-> s, unsubscribe |-> unsubscribe, rearm |-> {}]
    /\ UNCHANGED <<store, place, initialized, newOnHold, hasFailedHB,
                   MaxInFlight, resumeSeq, sendVars, queue, ackVars, io,
                   requestVars, subStartCh, starter, rd, want, loop>>

(* The last member leaves: the group goes away, or the member stays behind *)
(* as the shadow of a durable group.                                       *)
removeLast(s) ==
    /\ Members = {s}
    /\ IF ~QDurable \/ rm.unsubscribe
       THEN /\ place' = [m \in Subs |-> IF m \in QSubs THEN "gone" ELSE place[m]]
            /\ want' = [t \in Threads |-> IF want[t] = Group THEN Nobody ELSE want[t]]
            /\ lastSent' = 0 /\ qacked' = {}
            /\ UNCHANGED LastSent
       ELSE /\ place' = [place EXCEPT ![s] = "shadow"]
            /\ LastSent' = [LastSent EXCEPT ![s] = lastSent]
            /\ UNCHANGED <<want, lastSent, qacked>>
    /\ stalledSubCount' = 0
    /\ rm' = NoRemove
    /\ UNCHANGED acksPending

(* What may be dealt out of a leaving member's pending messages. *)
(* Mutant: the loop stops one message early. *)
transferredButLast(s) == {acksPending[s] \ {lastSent}}
transferred(s) ==
    IF "addPendingFails" \in Events THEN SUBSET acksPending[s] ELSE {acksPending[s]}

(* The group's lastSent must be recorded by another member. *)
(* Mutant: any transfer is taken to record it. *)
storageUpdateIfNone(s, moved) == LastSent[s] = lastSent /\ moved = {}
storageUpdate(s, moved) == LastSent[s] = lastSent /\ lastSent \notin moved

(* The number of stalled members without the leaving one. *)
(* Mutant: the leaving member is forgotten. *)
stalledWithoutForgotten(s) == stalledSubCount
stalledWithout(s) == IF stalled[s] THEN oneLess ELSE stalledSubCount

(* The messages dealt out to member m. *)
given(moved, to, m) == {q \in moved : to[q] = m}

(* The transfer: the messages go to the remaining members in turn, and one *)
(* of these records the group's lastSent if no message does.               *)
transfer(s, others, moved, to, ls, keeper) ==
    /\ \A m, n \in others :
          Cardinality(given(moved, to, m)) <= Cardinality(given(moved, to, n)) + 1
    /\ \A m \in others :
          IF storageUpdate(s, moved) /\ m = keeper THEN ls[m] = lastSent
          ELSE /\ ls[m] \in given(moved, to, m) \cup {LastSent[m]}
               /\ \A q \in given(moved, to, m) \cup {LastSent[m]} : q <= ls[m]
    /\ LastSent' = [m \in Subs |-> IF m \in others THEN ls[m] ELSE LastSent[m]]
    /\ acksPending' = [m \in Subs |-> IF m \in others
                                       THEN acksPending[m] \cup given(moved, to, m)
                                       ELSE acksPending[m]]
    /\ rm' = [pc |-> "timers", sub |-> Nobody, unsubscribe |-> FALSE,
              rearm |-> {m \in others : given(moved, to, m) # {}}]

(* Another member leaves. *)
removeAndTransfer(s) ==
    LET others == Members \ {s} IN
    /\ others # {}
    /\ \E moved \in transferred(s) :
       \E to \in [moved -> others], ls \in [others -> 0..MaxSeq], keeper \in others :
          transfer(s, others, moved, to, ls, keeper)
    /\ place' = [place EXCEPT ![s] = "left"]
    /\ stalledSubCount' = stalledWithout(s)
    /\ UNCHANGED <<want, lastSent, qacked>>

(* Second part, under the lock of the group.                               *)
removeFromQueue ==
    LET s == rm.sub IN
    /\ rm.pc = "queue" /\ loop[Group] = Nobody
    /\ ackTimer' = [ackTimer EXCEPT ![s] = "nil"]
    /\ delivered' = [delivered EXCEPT ![s] = {}]
    /\ removeLast(s) \/ removeAndTransfer(s)
    /\ UNCHANGED <<store, ClientID, initialized, newOnHold, hasFailedHB,
                   MaxInFlight, resumeSeq, stalled, acked, io, requestVars,
                   subStartCh, starter, rd, loop>>

(* Last part, after ss.Unlock: the timers of the members that received     *)
(* messages are made to fire soon.                                         *)
(* Mutant: a member without a timer gets none. *)
rearmedIfSet(m) == IF m \in rm.rearm /\ ackTimer[m] # "nil" THEN "armed" ELSE ackTimer[m]
rearmed(m) == IF m \in rm.rearm THEN "armed" ELSE ackTimer[m]

rearmTimers ==
    /\ rm.pc = "timers"
    /\ ackTimer' = [m \in Subs |-> rearmed(m)]
    /\ rm' = NoRemove
    /\ UNCHANGED <<store, subFlags, stalled, LastSent, acksPending, delivered,
                   queue, ackVars, io, requestVars, subStartCh, starter, rd,
                   want, loop>>
-----------------------------------------------------------------------------
ioNext == ioStore \/ processMsg \/ processMsgDone \/ \E x \in Cursors : processMsgVisit(x)

sendNext ==
    \/ \E t \in Threads : beginSend(t)
    \/ \E s \in PSubs : sendAvailableMessages(s)
    \/ sendAvailableMessagesToQueue

redeliveryNext(r) ==
    \/ \E s \in Subs : ackTimerFires(r, s)
    \/ \E q \in Seqs : redeliverMissing(r, q) \/ redeliverNotExpired(r, q) \/ redeliverExpired(r, q)
    \/ redeliverImplicitAck(r)
    \/ adjustAckTimer(r)

startNext ==
    \/ \E s \in Subs : subscriptionResponse(s)
    \/ startSub
    \/ \E q \in Seqs : performDurableRedelivery(q)
    \/ releaseNewOnHold

subscribeNext ==
    \E s \in Subs, max \in InFlights :
        \/ \E pos \in Positions : processSubNew(s, pos, max) \/ processSubQueue(s, pos, max)
        \/ processSubResume(s, max)

removeNext ==
    \/ \E s \in Subs, unsubscribe \in BOOLEAN :
          removePlain(s, unsubscribe) \/ removeMember(s, unsubscribe)
    \/ removeFromQueue
    \/ rearmTimers

Next ==
    \/ ioNext
    \/ expireMsgs
    \/ sendNext
    \/ \E s \in Subs, q \in Seqs : processAckMsg(s, q)
    \/ \E r \in RThreads : redeliveryNext(r)
    \/ \E s \in Subs : checkClientHealth(s)
    \/ startNext
    \/ subscribeNext
    \/ removeNext

Spec == Init /\ [][Next]_vars
-----------------------------------------------------------------------------
StoreType == last \in 0..MaxSeq /\ first \in 0..(last + 1) /\ (first = 0 => last = 0)

FlagsType ==
    /\ place \in [Subs -> {"gone", "listed", "left", "offline", "shadow"}]
    /\ ClientID \in [Subs -> BOOLEAN]
    /\ initialized \in [Subs -> BOOLEAN]
    /\ newOnHold \in [Subs -> BOOLEAN]
    /\ hasFailedHB \in [Subs -> BOOLEAN]
    /\ MaxInFlight \in [Subs -> Nat \ {0}]
    /\ resumeSeq \in [Subs -> 0..MaxSeq]

SendType ==
    /\ stalled \in [Subs -> BOOLEAN]
    /\ LastSent \in [Subs -> 0..MaxSeq]
    /\ acksPending \in [Subs -> SUBSET Seqs]
    /\ ackTimer \in [Subs -> {"nil", "armed", "fired"}]
    /\ delivered \in [Subs -> SUBSET Seqs]

QueueType == lastSent \in 0..MaxSeq /\ stalledSubCount \in Nat

AckType == acked \in [Subs -> SUBSET Seqs] /\ qacked \subseteq Seqs

RequestType ==
    /\ request \in Subs \cup {Nobody} /\ requests \in Nat
    /\ subStartCh \in Seq(Subs)
    /\ starter \in {NoStart} \cup [sub : Subs, todo : SUBSET Seqs, hold : BOOLEAN]

RedeliveryType ==
    rd \in [RThreads -> {NoRedelivery} \cup
                          [sub : Subs, todo : SUBSET Seqs, ack : 0..MaxSeq]]

RemoveType ==
    rm \in {NoRemove}
           \cup [pc : {"queue"}, sub : QSubs, unsubscribe : BOOLEAN, rearm : {{}}]
           \cup [pc : {"timers"}, sub : {Nobody}, unsubscribe : {FALSE},
                 rearm : SUBSET QSubs]

LoopType ==
    /\ io \in [pc : {"idle", "stored", "walk"}, left : SUBSET Cursors]
    /\ want \in [Threads -> Cursors \cup {Nobody}]
    /\ loop \in [Cursors -> Threads \cup {Nobody}]

(* The values the variables take. *)
TypeOK ==
    /\ StoreType /\ FlagsType /\ SendType /\ QueueType /\ AckType
    /\ RequestType /\ RedeliveryType /\ RemoveType /\ LoopType

(* At-least-once delivery to a plain or durable subscription: the cursor   *)
(* LastSent never passes a message unless it is waiting in acksPending,    *)
(* the client has acked it, or the store has removed it.                   *)
NoMsgLost ==
    \A s \in PSubs : place[s] # "gone" =>
        \A q \in 1..LastSent[s] : q \in acksPending[s] \cup acked[s] \/ q < first

(* A subscription with unacknowledged messages has an ack timer that will  *)
(* fire, a redelivery callback that will set it again, or is about to get  *)
(* one from Remove: no pending message is left without redelivery.         *)
RedeliveryScheduled ==
    \A s \in Subs : place[s] = "listed" /\ acksPending[s] # {} =>
        \/ ackTimer[s] = "armed"
        \/ ackTimer[s] = "fired" /\ \E r \in RThreads : rd[r].sub = s
        \/ s \in rm.rearm

(* Somebody is going to call the send loop of subscription s. *)
WakeUpPending(s) ==
    \/ io.pc = "stored" \/ s \in io.left
    \/ loop[s] # Nobody \/ \E t \in Threads : want[t] = s
    \/ starter.sub = s \/ \E i \in 1..Len(subStartCh) : subStartCh[i] = s

(* No lost wake-up: when a subscription could be sent a message of the     *)
(* store (its request is answered, it is not on hold, it is below          *)
(* MaxInFlight), some goroutine is about to try.  The stalled flag, set by *)
(* sendMsgToSub and cleared by processAck, must never be left behind.      *)
NoLostWakeUp ==
    \A s \in PSubs :
        /\ place[s] = "listed" /\ initialized[s] /\ ~newOnHold[s]
        /\ ~Full(s)
        /\ LastSent[s] < last /\ first <= last
        => WakeUpPending(s)

(* newOnHold, which blocks new messages to a resumed durable, is always    *)
(* going to be released by processSubscriptionsStart.                      *)
HoldReleased ==
    \A s \in Durables : place[s] = "listed" /\ newOnHold[s] =>
        \/ request = s
        \/ \E i \in 1..Len(subStartCh) : subStartCh[i] = s
        \/ starter.sub = s /\ starter.hold

(* processSub: "We have a durable with pending messages, set newOnHold     *)
(* until we have performed the initial redelivery": a resumed durable gets *)
(* no new message before the stored ones that it had not acknowledged.     *)
OldBeforeNew ==
    \A s \in Durables : place[s] = "listed" =>
        \A p \in acksPending[s], q \in delivered[s] :
            p <= resumeSeq[s] /\ resumeSeq[s] < q /\ Stored(p) => p \in delivered[s]
-----------------------------------------------------------------------------
(* Some subscription still has the message to deliver, or it needs no      *)
(* delivery.                                                               *)
Covered(q) ==
    \/ q \in qacked \/ q < first
    \/ \E m \in QSubs : place[m] \in {"listed", "shadow"} /\ q \in acksPending[m]

(* At-least-once delivery to a queue group: every message the group's      *)
(* lastSent has passed is covered.                                         *)
QueueNoMsgLost == \A q \in 1..lastSent : Covered(q)

(* The group never has more stalled members on record than it has: an      *)
(* overcount would stop the delivery to members that are free.             *)
NoOverCount == stalledSubCount <= Cardinality({m \in Members : stalled[m]})

(* The position of a durable group is held by one of its subscriptions:    *)
(* what lies between the highest stored LastSent and qs.lastSent has been  *)
(* removed.  A restarted server computes qs.lastSent as that maximum.      *)
GroupPosition ==
    \A q \in Seqs : q <= lastSent /\ first <= q =>
        \E m \in QSubs : place[m] \in {"listed", "shadow"} /\ q <= LastSent[m]

(* A message is only ever lost to the group by the implicit ack that ends  *)
(* the hand-over of an expired message to another member: no other step,   *)
(* of any goroutine, uncovers a message.                                   *)
LostOnlyByHandOver ==
    [][\A q \in 1..lastSent : Covered(q) /\ lastSent' # 0 /\ ~Covered(q)'
            => \E r \in RThreads : rd[r].ack = q /\ rd'[r].ack = 0]_vars

-----------------------------------------------------------------------------
(***************************************************************************)
(* Fairness: every goroutine that can run does (Go's scheduler, and        *)
(* sync.Mutex does not starve its waiters).  Time passes: ack timers fire, *)
(* and a message that stays pending is found to have expired.              *)
(***************************************************************************)
ioWalk == processMsg \/ processMsgDone \/ \E x \in Cursors : processMsgVisit(x)

Fairness ==
    /\ WF_vars(ioWalk)
    /\ WF_vars(sendNext)
    /\ WF_vars(startNext)
    /\ WF_vars(removeFromQueue \/ rearmTimers)
    /\ \A r \in RThreads : WF_vars(redeliveryNext(r))
    /\ \A s \in Subs, q \in Seqs :
          SF_vars(\E r \in RThreads : rd[r].sub = s /\ redeliverExpired(r, q))

LiveSpec == Spec /\ Fairness

(* The clients' part: each message received is acked. *)
ClientsAck == \A s \in Subs, q \in Seqs : WF_vars(processAckMsg(s, q))

(* If the clients ack what they receive, a message of the store is         *)
(* eventually sent to every plain or durable subscription that is to get   *)
(* it, unless the store removes the message or the subscription is closed  *)
(* first: no combination of stalls, holds and lost locks stops the loops   *)
(* of sendAvailableMessages for good.                                      *)
EventuallyDelivered ==
    ClientsAck =>
    \A s \in PSubs, q \in Seqs :
        place[s] = "listed" /\ LastSent[s] < q /\ Stored(q)
            ~> q \in delivered[s] \/ q < first \/ place[s] # "listed"

(* performAckExpirationRedelivery sends q once more. *)
Redelivered(s, q) ==
    \E r \in RThreads : rd[r].sub = s /\ redeliverExpired(r, q) /\ ~Refused(s, TRUE)

(* Whatever the clients do, a message that stays pending on a subscription *)
(* is sent to it again and again: the ack timer is set again after every   *)
(* redelivery and after every resumption.                                  *)
RedeliveredUntilAcked ==
    \A s \in Subs, q \in Seqs :
        <>[](place[s] = "listed" /\ q \in acksPending[s])
            => []<><<Redelivered(s, q)>>_vars
=============================================================================
