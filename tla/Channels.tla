------------------------------ MODULE Channels ------------------------------
(* A channel, its creation on demand and its deletion when it is inactive    *)
(* (channelStore, channelActivity and the handlers that use them in          *)
(* server/server.go), on a server that is not clustered. Each creation makes *)
(* a new channel object: callbacks keep a pointer to the one they are for.   *)
(* A step is what is done under the lock of the channelStore.                *)
EXTENDS Integers, FiniteSets, Sequences, Functions

CONSTANTS MaxCreates,  \* bound on the creations of the channel
          ChanSubs,    \* the subscription requests
          IOChanSize,  \* bound on the requests waiting in ioChannel
          MaxPubs,     \* bound on the messages
          ChanFaults   \* the store operations that can fail

ASSUME ChannelsAssumption ==
    /\ ChanFaults \subseteq {"create", "delete", "sub", "flush"}
    /\ MaxCreates \in Nat

Objects == 1..MaxCreates
NoChannel == 0

VARIABLES
    cur,         \* cs.channels[name]
    created,     \* the objects that exist
    timer,       \* activity.timer is running
    recent,      \* there was a message since the timer was set
    deleteInProgress, preventDelete,
    missed,      \* the timer was last not started where it should have been
    ioChannel,   \* the messages and the deletion requests for the ioLoop
    ioPc,        \* the object handleChannelDelete is about to delete
    chSubPc, chOf, \* of processSubscriptionRequest, and the channel it holds
    chActive,    \* the active subscriptions of each object
    closedSub,   \* the objects a subscription was just removed from
    pubs

actVars == <<timer, recent, deleteInProgress, preventDelete, missed>>
chVars == <<cur, created, actVars, ioChannel, ioPc, chSubPc, chOf, chActive, closedSub, pubs>>

ChInit ==
    /\ cur = NoChannel /\ created = 0 /\ pubs = 0
    /\ timer = [c \in Objects |-> FALSE] /\ recent = timer /\ missed = timer
    /\ deleteInProgress = timer /\ preventDelete = timer
    /\ ioChannel = <<>> /\ ioPc = NoChannel /\ closedSub = {}
    /\ chSubPc = [s \in ChanSubs |-> "new"] /\ chOf = [s \in ChanSubs |-> NoChannel]
    /\ chActive = [c \in Objects |-> {}]

-----------------------------------------------------------------------------
hasActiveSubs(c) == chActive[c] # {}

\* The deletion timer of c, after the lock is released.
startDeleteTimer(c) ==
    /\ timer' = [timer EXCEPT ![c] = TRUE] /\ recent' = [recent EXCEPT ![c] = FALSE]
    /\ missed' = [missed EXCEPT ![c] = FALSE]
stopDeleteTimer(c) == timer' = [timer EXCEPT ![c] = FALSE] /\ UNCHANGED recent

\* createChannelLocked, when the channel is not there.
createChannelLocked ==
    /\ created < MaxCreates /\ created' = created + 1 /\ cur' = created + 1

\* The timer fires: sendDeleteChannelRequest.
sendDeleteChannelRequest(c) ==
    /\ timer[c] /\ Len(ioChannel) < IOChanSize
    /\ timer' = [timer EXCEPT ![c] = FALSE] /\ ioChannel' = Append(ioChannel, c)
    /\ UNCHANGED <<cur, created, recent, deleteInProgress, preventDelete, missed, ioPc, chSubPc, chOf, chActive, closedSub, pubs>>

\* A message for the channel is queued; NoChannel stands for it.
chPublish ==
    /\ pubs < MaxPubs /\ pubs' = pubs + 1 /\ Len(ioChannel) < IOChanSize
    /\ ioChannel' = Append(ioChannel, NoChannel)
    /\ UNCHANGED <<cur, created, actVars, ioPc, chSubPc, chOf, chActive, closedSub>>

\* The ioLoop stores a message: lookupOrCreateChannel, Store and, when the batch
\* has been delivered, activity.last.
ioLoopStore ==
    /\ ioPc = NoChannel /\ ioChannel # <<>> /\ Head(ioChannel) = NoChannel
    /\ ioChannel' = Tail(ioChannel)
    /\ \/ /\ cur # NoChannel /\ deleteInProgress[cur]
          /\ UNCHANGED <<cur, created, timer, recent>>
       \/ /\ cur # NoChannel /\ ~deleteInProgress[cur]
          /\ recent' = [recent EXCEPT ![cur] = TRUE] /\ UNCHANGED <<cur, created, timer>>
       \/ /\ cur = NoChannel /\ createChannelLocked
          /\ timer' = [timer EXCEPT ![cur'] = TRUE] /\ recent' = [recent EXCEPT ![cur'] = TRUE]
       \/ cur = NoChannel /\ "create" \in ChanFaults /\ UNCHANGED <<cur, created, timer, recent>>
    /\ UNCHANGED <<deleteInProgress, preventDelete, missed, ioPc, chSubPc, chOf, chActive, closedSub, pubs>>

-----------------------------------------------------------------------------
\* handleChannelDelete, for the object of the request.
SubscribedOrDeleted(c) == deleteInProgress[c] \/ hasActiveSubs(c)
NotDeletable(c) == preventDelete[c] \/ deleteInProgress[c] \/ hasActiveSubs(c)

handleChannelDelete ==
    /\ ioPc = NoChannel /\ ioChannel # <<>> /\ Head(ioChannel) # NoChannel
    /\ ioChannel' = Tail(ioChannel)
    /\ LET c == Head(ioChannel) IN
       \/ /\ NotDeletable(c)
          /\ stopDeleteTimer(c)
          /\ missed' = [missed EXCEPT ![c] = @ \/ ~(deleteInProgress[c] \/ hasActiveSubs(c))]
          /\ UNCHANGED <<deleteInProgress, ioPc>>
       \/ /\ ~NotDeletable(c) /\ ~recent[c]
          /\ stopDeleteTimer(c)
          /\ deleteInProgress' = [deleteInProgress EXCEPT ![c] = TRUE] /\ ioPc' = c
          /\ UNCHANGED missed
       \/ /\ ~NotDeletable(c) /\ recent[c]
          /\ startDeleteTimer(c) /\ UNCHANGED <<deleteInProgress, ioPc>>
    /\ UNCHANGED <<cur, created, preventDelete, chSubPc, chOf, chActive, closedSub, pubs>>

\* processDeleteChannel looks the channel up again, by name.
processDeleteChannel ==
    /\ ioPc # NoChannel /\ ioPc' = NoChannel
    /\ \/ /\ cur = NoChannel \/ preventDelete[cur]
          /\ UNCHANGED <<cur, timer, recent, missed, deleteInProgress>>
       \/ /\ cur # NoChannel /\ ~preventDelete[cur]
          /\ cur' = NoChannel /\ UNCHANGED <<timer, recent, missed, deleteInProgress>>
       \/ /\ cur # NoChannel /\ ~preventDelete[cur] /\ "delete" \in ChanFaults
          /\ deleteInProgress' = [deleteInProgress EXCEPT ![cur] = FALSE]
          /\ startDeleteTimer(cur) /\ UNCHANGED cur
    /\ UNCHANGED <<created, preventDelete, ioChannel, chSubPc, chOf, chActive, closedSub, pubs>>

-----------------------------------------------------------------------------
\* processSubscriptionRequest, the callback of one subscription: the channel is
\* looked up or created and held, the subscription is created, the hold released.
lookupOrCreateChannelPreventDelete(s) ==
    /\ chSubPc[s] = "new" /\ \A t \in ChanSubs : chSubPc[t] \in {"new", "done", "active", "closing"}
    /\ \/ /\ cur # NoChannel /\ deleteInProgress[cur]
          /\ chSubPc' = [chSubPc EXCEPT ![s] = "failed"]
          /\ UNCHANGED <<cur, created, timer, recent, preventDelete, chOf>>
       \/ /\ cur = NoChannel /\ "create" \in ChanFaults
          /\ chSubPc' = [chSubPc EXCEPT ![s] = "failed"]
          /\ UNCHANGED <<cur, created, timer, recent, preventDelete, chOf>>
       \/ /\ \/ cur # NoChannel /\ ~deleteInProgress[cur] /\ UNCHANGED <<cur, created>>
             \/ cur = NoChannel /\ createChannelLocked
          /\ preventDelete' = [preventDelete EXCEPT ![cur'] = TRUE] /\ stopDeleteTimer(cur')
          /\ chSubPc' = [chSubPc EXCEPT ![s] = "held"] /\ chOf' = [chOf EXCEPT ![s] = cur']
    /\ UNCHANGED <<deleteInProgress, missed, ioChannel, ioPc, chActive, closedSub, pubs>>

chProcessSub(s) ==
    /\ chSubPc[s] = "held"
    /\ \/ /\ chSubPc' = [chSubPc EXCEPT ![s] = "subscribed"]
          /\ chActive' = [chActive EXCEPT ![chOf[s]] = @ \cup {s}]
       \/ "sub" \in ChanFaults /\ chSubPc' = [chSubPc EXCEPT ![s] = "failed"] /\ UNCHANGED chActive
    /\ UNCHANGED <<cur, created, actVars, ioChannel, ioPc, chOf, closedSub, pubs>>

turnOffPreventDelete(s) ==
    /\ chSubPc[s] \in {"subscribed", "failed"}
    /\ chSubPc' = [chSubPc EXCEPT ![s] = IF @ = "failed" THEN "closing" ELSE "active"]
    /\ preventDelete' = [c \in Objects |-> preventDelete[c] /\ c # chOf[s]]
    /\ UNCHANGED <<cur, created, timer, recent, deleteInProgress, missed, ioChannel, ioPc, chOf, chActive, closedSub, pubs>>

\* maybeStartChannelDeleteTimer of channel c.
maybeStartUnlessRecent(c) ==
    IF c # NoChannel /\ ~deleteInProgress[c] /\ ~hasActiveSubs(c) /\ ~recent[c]
    THEN startDeleteTimer(c) ELSE UNCHANGED <<timer, recent, missed>>
maybeStart(c) ==
    IF c # NoChannel /\ ~deleteInProgress[c] /\ ~hasActiveSubs(c)
    THEN startDeleteTimer(c) ELSE UNCHANGED <<timer, recent, missed>>

\* After a failed request, for its channel; or by name, if it has none.
maybeStartAfterFailure(s) ==
    /\ chSubPc[s] = "closing" /\ chSubPc' = [chSubPc EXCEPT ![s] = "done"]
    /\ maybeStart(IF chOf[s] = NoChannel THEN cur ELSE chOf[s])
    /\ UNCHANGED <<cur, created, deleteInProgress, preventDelete, ioChannel, ioPc, chOf, chActive, closedSub, pubs>>

\* A subscription is closed, or its client is: it is removed, then the timer of
\* the channel with that name is started. It is not when the store cannot be
\* flushed after the removal (unsubscribeSub).
chRemove(s) ==
    /\ \E c \in Objects :
          /\ s \in chActive[c] /\ chActive' = [chActive EXCEPT ![c] = @ \ {s}]
          /\ \/ closedSub' = closedSub \cup {s} /\ UNCHANGED missed
             \/ /\ "flush" \in ChanFaults /\ UNCHANGED closedSub
                /\ missed' = [missed EXCEPT ![c] = TRUE]
    /\ UNCHANGED <<cur, created, timer, recent, deleteInProgress, preventDelete, ioChannel, ioPc, chSubPc, chOf, pubs>>

maybeStartAfterRemove(s) ==
    /\ s \in closedSub /\ closedSub' = closedSub \ {s} /\ maybeStart(cur)
    /\ UNCHANGED <<cur, created, deleteInProgress, preventDelete, ioChannel, ioPc, chSubPc, chOf, chActive, pubs>>

ChNext ==
    \/ \E c \in Objects : sendDeleteChannelRequest(c)
    \/ chPublish \/ ioLoopStore \/ handleChannelDelete \/ processDeleteChannel
    \/ \E s \in ChanSubs :
          \/ lookupOrCreateChannelPreventDelete(s) \/ chProcessSub(s) \/ turnOffPreventDelete(s)
          \/ maybeStartAfterFailure(s) \/ chRemove(s) \/ maybeStartAfterRemove(s)

ChSpec == ChInit /\ [][ChNext]_chVars

-----------------------------------------------------------------------------
ChTypeOK ==
    /\ cur \in 0..created /\ ioPc \in 0..created /\ Range(ioChannel) \subseteq 0..created
    /\ timer \in [Objects -> BOOLEAN] /\ recent \in [Objects -> BOOLEAN]
    /\ deleteInProgress \in [Objects -> BOOLEAN] /\ preventDelete \in [Objects -> BOOLEAN]
    /\ chActive \in [Objects -> SUBSET ChanSubs] /\ chOf \in [ChanSubs -> 0..created]

\* A subscription that was accepted, or is being, is on the channel that
\* publishers reach: the inactivity of the channel never deletes it under them.
SubOnLiveChannel ==
    \A c \in Objects :
       (hasActiveSubs(c) \/ \E s \in ChanSubs : chOf[s] = c /\ chSubPc[s] = "held") => cur = c

\* A channel with no subscription will be considered for deletion: its timer
\* runs, a request is queued or a handler is about to start it. There are two
\* exceptions, until the timer is next started: a request met by preventDelete
\* after the subscription that set it was already closed (turnOffPreventDelete
\* does not start the timer again), and a subscription whose removal could not be
\* flushed (performUnsubOrCloseSubscription then does not start it).
DeletionArmed ==
    (cur # NoChannel /\ ~hasActiveSubs(cur)) =>
       \/ timer[cur] \/ cur \in Range(ioChannel) \/ ioPc = cur \/ missed[cur]
       \/ closedSub # {}
       \/ \E s \in ChanSubs : chOf[s] = cur /\ chSubPc[s] \in {"held", "failed", "closing"}
=============================================================================
