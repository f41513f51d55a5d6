------------------------------- MODULE Clients ------------------------------
(* The clients of the server (server/client.go and the connect, close,       *)
(* heartbeat and subscription handlers of server/server.go), for one client  *)
(* ID and a server that is not clustered: the connections of Conns are       *)
(* successive or concurrent users of that ID. A step is what a handler does  *)
(* under one lock, or between two of them.                                   *)
EXTENDS Integers, FiniteSets

CONSTANTS Conns,          \* connect requests, each one with its ConnID and heartbeat inbox
          CliSubs,        \* subscription requests
          Waiters,        \* calls of isValidWithTimeout: the ConnID, NoConn for a subscription
          HBFailCount,    \* ClientHBFailCount
          MaxKnownInvalid,\* maxKnownInvalidConns
          MaxRestarts,    \* bound on the crashes of the server
          MaxChecks,      \* bound on the heartbeats in flight to a client
          MaxCloseReqs,   \* bound on the pending calls of closeClient
          NoConn          \* not a connection

ASSUME ClientsAssumption == HBFailCount \in Nat /\ MaxKnownInvalid \in Nat /\ NoConn \notin Conns
                            /\ Waiters \subseteq Conns \cup {NoConn}

VARIABLES
    reg,        \* cs.clients[ID]
    connIDs,    \* the keys of cs.connIDs
    stored,     \* the client in the store
    alive,      \* the connections whose application answers heartbeats
    connPc, old,\* of connectCB and of its goroutine; the client it found registered
    dip,        \* the ID is in cliDipCIDsMap
    hbt, fhb,   \* of each client: its timer ("none", "armed" or "fired") and its count
    checks,     \* of each client: the callbacks of checkClientHealth that wait for it
    closeReqs,  \* the number of calls of closeClient(ID) behind the barrier
    closing,    \* the call that holds closeMu: its client, the subscriptions left, its caller
    subPc,      \* of processSubscriptionRequest
    clientSubs, \* client.subs
    active,     \* the subscriptions in the channel's subStore
    ackSubs,    \* those with an ack subscription
    storedSubs, \* those in the store
    waitOn,     \* cs.waitOnRegister[ID]
    waitPc,     \* of isValidWithTimeout
    knownInvalid,
    restarts

regVars == <<reg, connIDs, stored, hbt, fhb>>
connVars == <<connPc, old, dip>>
subVars == <<subPc, clientSubs, active, ackSubs, storedSubs>>
waitVars == <<waitOn, waitPc, knownInvalid>>
closeVars == <<closeReqs, closing>>
cliVars == <<regVars, alive, connVars, checks, closeVars, subVars, waitVars, restarts>>

NotClosing == [conn |-> NoConn, left |-> {}, for |-> NoConn]

CliInit ==
    /\ reg = NoConn /\ connIDs = {} /\ stored = NoConn /\ alive = Conns
    /\ connPc = [k \in Conns |-> "new"] /\ old = [k \in Conns |-> NoConn] /\ dip = FALSE
    /\ hbt = [k \in Conns |-> "none"] /\ fhb = [k \in Conns |-> 0]
    /\ checks = [k \in Conns |-> 0] /\ closeReqs = 0 /\ closing = NotClosing
    /\ subPc = [s \in CliSubs |-> "new"] /\ clientSubs = [k \in Conns |-> {}]
    /\ active = {} /\ ackSubs = {} /\ storedSubs = {}
    /\ waitOn = {} /\ waitPc = [w \in Waiters |-> "new"]
    /\ knownInvalid = {} /\ restarts = 0

-----------------------------------------------------------------------------
\* cliDupCIDsMu is held during handleConnect, closeMu while subscriptions are
\* removed, the lock of the subStore while one is added.
MutexFree == \A k \in Conns : connPc[k] \notin {"closing", "register", "finishing"}
CloseMuFree == closing = NotClosing
SubStoreFree == \A s \in CliSubs : subPc[s] # "adding"

\* connectCB runs in the callback of one subscription. It looks the client up,
\* then waits for the mutex.
connectCB(k) ==
    /\ connPc[k] = "new" /\ \A j \in Conns : connPc[j] # "lookedUp"
    /\ connPc' = [connPc EXCEPT ![k] = "lookedUp"] /\ old' = [old EXCEPT ![k] = reg]
    /\ UNCHANGED <<regVars, alive, dip, checks, closeVars, subVars, waitVars, restarts>>

connectLocked(k) ==
    /\ connPc[k] = "lookedUp" /\ MutexFree
    /\ connPc' = [connPc EXCEPT ![k] = IF old[k] = NoConn THEN "register"
                                       ELSE IF dip THEN "refused" ELSE "pinging"]
    /\ dip' = (dip \/ old[k] # NoConn)
    /\ UNCHANGED <<regVars, alive, old, checks, closeVars, subVars, waitVars, restarts>>

\* isDuplicateConnect pings the client that was found. The answer of one that is
\* alive may be late.
isDuplicateConnect(k) ==
    /\ connPc[k] = "pinging" /\ MutexFree
    /\ \/ /\ old[k] \in alive
          /\ connPc' = [connPc EXCEPT ![k] = "refused"] /\ dip' = FALSE
       \/ connPc' = [connPc EXCEPT ![k] = "closing"] /\ UNCHANGED dip
    /\ UNCHANGED <<regVars, alive, old, checks, closeVars, subVars, waitVars, restarts>>

\* register, and the end of handleConnect when it fails.
register(k) ==
    /\ connPc[k] = "register"
    /\ \/ /\ reg # NoConn
          /\ connPc' = [connPc EXCEPT ![k] = "refused"] /\ dip' = (dip /\ old[k] = NoConn)
          /\ UNCHANGED <<regVars, waitVars>>
       \/ /\ reg = NoConn
          /\ reg' = k /\ connIDs' = connIDs \cup {k} /\ stored' = k
          /\ connPc' = [connPc EXCEPT ![k] = "finishing"]
          /\ knownInvalid' = knownInvalid \ {k}
          /\ waitPc' = [w \in Waiters |-> IF w \in waitOn THEN "told" ELSE waitPc[w]]
          /\ waitOn' = {} /\ UNCHANGED <<hbt, fhb, dip>>
    /\ UNCHANGED <<alive, old, checks, closeVars, subVars, restarts>>

\* setClientHB, by ID, and the response.
finishConnectRequestOnly(k) ==
    /\ connPc[k] = "finishing"
    /\ connPc' = [connPc EXCEPT ![k] = "connected"] /\ dip' = (dip /\ old[k] = NoConn)
    /\ UNCHANGED <<regVars, alive, old, checks, closeVars, subVars, waitVars, restarts>>
finishConnectRequest(k) ==
    /\ connPc[k] = "finishing"
    /\ connPc' = [connPc EXCEPT ![k] = "connected"] /\ dip' = (dip /\ old[k] = NoConn)
    /\ hbt' = [j \in Conns |-> IF j = reg /\ hbt[j] = "none" THEN "armed" ELSE hbt[j]]
    /\ UNCHANGED <<reg, connIDs, stored, fhb, alive, old, checks, closeVars, subVars, waitVars, restarts>>

-----------------------------------------------------------------------------
\* closeClient, called for the connect request k or for a pending close.
unregisterByID ==
    /\ reg' = NoConn /\ UNCHANGED connIDs /\ stored' = NoConn
    /\ hbt' = [hbt EXCEPT ![reg] = "none"] /\ waitOn' = {}
unregister ==
    /\ reg' = NoConn /\ connIDs' = connIDs \ {reg} /\ stored' = NoConn
    /\ hbt' = [hbt EXCEPT ![reg] = "none"] /\ waitOn' = {}

closeClient(k) ==
    /\ CloseMuFree
    /\ IF reg = NoConn
       THEN /\ connPc' = [j \in Conns |-> IF j = k THEN "register" ELSE connPc[j]]
            /\ UNCHANGED <<regVars, closing, waitOn>>
       ELSE /\ unregister /\ closing' = [conn |-> reg, left |-> clientSubs[reg], for |-> k]
            /\ UNCHANGED <<connPc, fhb>>
    /\ UNCHANGED <<alive, old, dip, checks, subVars, waitPc, knownInvalid, restarts>>

ReplaceOld(k) == connPc[k] = "closing" /\ closing.for # k /\ closeClient(k) /\ UNCHANGED closeReqs

CloseBehindBarrier ==
    /\ closeReqs > 0 /\ closeReqs' = closeReqs - 1
    /\ closeClient(NoConn)

\* removeAllNonDurableSubscribers: subStore.Remove of each one.
removeSubscriber(s) ==
    /\ s \in closing.left /\ SubStoreFree
    /\ closing' = [closing EXCEPT !.left = @ \ {s}]
    /\ active' = active \ {s} /\ ackSubs' = ackSubs \ {s} /\ storedSubs' = storedSubs \ {s}
    /\ UNCHANGED <<regVars, alive, connVars, checks, closeReqs, subPc, clientSubs, waitVars, restarts>>

closeClientReturns ==
    /\ closing.conn # NoConn /\ closing.left = {} /\ closing' = NotClosing
    /\ connPc' = [k \in Conns |-> IF k = closing.for THEN "register" ELSE connPc[k]]
    /\ UNCHANGED <<regVars, alive, old, dip, checks, closeReqs, subVars, waitVars, restarts>>

\* The application closes its connection, or dies.
processCloseRequest(k) ==
    /\ connPc[k] = "connected" /\ k \in alive
    /\ closeReqs < MaxCloseReqs
    /\ alive' = alive \ {k} /\ closeReqs' = closeReqs + 1
    /\ UNCHANGED <<regVars, connVars, checks, closing, subVars, waitVars, restarts>>

Die(k) ==
    /\ connPc[k] = "connected" /\ k \in alive /\ alive' = alive \ {k}
    /\ UNCHANGED <<regVars, connVars, checks, closeVars, subVars, waitVars, restarts>>

-----------------------------------------------------------------------------
\* checkClientHealth: the timer of k fires and the client is looked up by ID.
checkClientHealth(k) ==
    /\ hbt[k] = "armed" /\ hbt' = [hbt EXCEPT ![k] = "fired"]
    /\ \/ reg = NoConn /\ UNCHANGED checks
       \/ /\ reg # NoConn /\ checks[reg] < MaxChecks
          /\ checks' = [checks EXCEPT ![reg] = @ + 1]
    /\ UNCHANGED <<reg, connIDs, stored, fhb, alive, connVars, closeVars, subVars, waitVars, restarts>>

\* The answer to the heartbeat, or its timeout: the answer of a client that is
\* alive may be late or lost.
Heartbeat(k) ==
    /\ checks[k] > 0 /\ checks' = [checks EXCEPT ![k] = @ - 1]
    /\ \/ hbt[k] = "none" /\ UNCHANGED <<hbt, fhb, closeReqs>>
       \/ /\ hbt[k] # "none" /\ k \in alive
          /\ fhb' = [fhb EXCEPT ![k] = 0] /\ hbt' = [hbt EXCEPT ![k] = "armed"]
          /\ UNCHANGED closeReqs
       \/ /\ hbt[k] # "none" /\ fhb[k] < HBFailCount
          /\ fhb' = [fhb EXCEPT ![k] = @ + 1] /\ hbt' = [hbt EXCEPT ![k] = "armed"]
          /\ UNCHANGED closeReqs
       \/ /\ hbt[k] # "none" /\ fhb[k] >= HBFailCount /\ closeReqs < MaxCloseReqs
          /\ fhb' = [fhb EXCEPT ![k] = HBFailCount + 1]
          /\ closeReqs' = closeReqs + 1 /\ UNCHANGED hbt
    /\ UNCHANGED <<reg, connIDs, stored, alive, connVars, closing, subVars, waitVars, restarts>>

\* A ping of a client with failed heartbeats brings its next one forward: the
\* timer runs again, while an earlier callback may still wait for its answer.
processClientPings(k) ==
    /\ k \in alive /\ k \in connIDs /\ fhb[k] > 0 /\ hbt[k] = "fired"
    /\ hbt' = [hbt EXCEPT ![k] = "armed"]
    /\ UNCHANGED <<reg, connIDs, stored, fhb, alive, connVars, checks, closeVars, subVars, waitVars, restarts>>

-----------------------------------------------------------------------------
\* processSubscriptionRequest, the callback of one subscription, and processSub.
processSubscriptionRequest(s) ==
    /\ subPc[s] = "new" /\ \A t \in CliSubs : subPc[t] \notin {"valid", "adding", "stored"}
    /\ subPc' = [subPc EXCEPT ![s] = IF reg = NoConn THEN "failed" ELSE "valid"]
    /\ UNCHANGED <<regVars, alive, connVars, checks, closeVars, clientSubs, active, ackSubs, storedSubs, waitVars, restarts>>

addSubUnchecked(s) ==
    /\ subPc[s] = "valid"
    /\ subPc' = [subPc EXCEPT ![s] = "adding"]
    /\ clientSubs' = [k \in Conns |-> IF k = reg THEN clientSubs[k] \cup {s} ELSE clientSubs[k]]
    /\ UNCHANGED <<regVars, alive, connVars, checks, closeVars, active, ackSubs, storedSubs, waitVars, restarts>>
addSub(s) ==
    /\ subPc[s] = "valid"
    /\ subPc' = [subPc EXCEPT ![s] = IF reg = NoConn THEN "failed" ELSE "adding"]
    /\ clientSubs' = [k \in Conns |-> IF k = reg THEN clientSubs[k] \cup {s} ELSE clientSubs[k]]
    /\ UNCHANGED <<regVars, alive, connVars, checks, closeVars, active, ackSubs, storedSubs, waitVars, restarts>>

\* subStore.Store: the subscription is stored, or it fails.
removeSub(s) == [k \in Conns |-> IF k = reg THEN clientSubs[k] \ {s} ELSE clientSubs[k]]

addSubscription(s) ==
    /\ subPc[s] = "adding"
    /\ \/ /\ subPc' = [subPc EXCEPT ![s] = "stored"]
          /\ active' = active \cup {s} /\ storedSubs' = storedSubs \cup {s}
          /\ UNCHANGED clientSubs
       \/ subPc' = [subPc EXCEPT ![s] = "failed"] /\ clientSubs' = removeSub(s)
          /\ UNCHANGED <<active, storedSubs>>
    /\ UNCHANGED <<regVars, alive, connVars, checks, closeVars, ackSubs, waitVars, restarts>>

startAckSub(s) ==
    /\ subPc[s] = "stored"
    /\ subPc' = [subPc EXCEPT ![s] = "active"] /\ ackSubs' = ackSubs \cup {s}
    /\ UNCHANGED <<regVars, alive, connVars, checks, closeVars, clientSubs, active, storedSubs, waitVars, restarts>>

\* unsubscribeSub, behind the barrier and under closeMu.
unsubscribeSub(s) ==
    /\ subPc[s] = "active" /\ s \in active /\ CloseMuFree /\ SubStoreFree
    /\ reg # NoConn /\ s \in clientSubs[reg]
    /\ clientSubs' = removeSub(s)
    /\ active' = active \ {s} /\ ackSubs' = ackSubs \ {s} /\ storedSubs' = storedSubs \ {s}
    /\ UNCHANGED <<regVars, alive, connVars, checks, closeVars, subPc, waitVars, restarts>>

-----------------------------------------------------------------------------
\* isValidWithTimeout, for a message of connection w or a subscription request.
Registered(w) == IF w = NoConn THEN reg # NoConn ELSE w \in connIDs

isValidWithTimeout(w) ==
    /\ waitPc[w] = "new"
    /\ IF Registered(w) \/ w \in knownInvalid
       THEN waitPc' = [waitPc EXCEPT ![w] = "returned"] /\ UNCHANGED waitOn
       ELSE waitPc' = [waitPc EXCEPT ![w] = "waiting"] /\ waitOn' = {w}
    /\ UNCHANGED <<regVars, alive, connVars, checks, closeVars, subVars, knownInvalid, restarts>>

WaiterReturns(w) ==
    /\ waitPc[w] = "told" /\ waitPc' = [waitPc EXCEPT ![w] = "returned"]
    /\ UNCHANGED <<regVars, alive, connVars, checks, closeVars, subVars, waitOn, knownInvalid, restarts>>

\* addToKnownInvalid makes room when there are too many.
WaiterTimesOut(w) ==
    /\ waitPc[w] \in {"waiting", "told"} /\ waitPc' = [waitPc EXCEPT ![w] = "returned"]
    /\ waitOn' = {}
    /\ LET all == knownInvalid \cup {w} IN
       knownInvalid' = IF Cardinality(all) >= MaxKnownInvalid THEN {w} ELSE all
    /\ UNCHANGED <<regVars, alive, connVars, checks, closeVars, subVars, restarts>>

-----------------------------------------------------------------------------
\* The server crashes and restarts: recoverClients, recoverOneSub and the
\* heartbeat timers of postRecoveryProcessing.
CliRestart ==
    /\ restarts < MaxRestarts /\ restarts' = restarts + 1
    /\ reg' = stored /\ connIDs' = {stored} \ {NoConn}
    /\ hbt' = [k \in Conns |-> IF k = stored THEN "armed" ELSE "none"]
    /\ fhb' = [k \in Conns |-> 0] /\ checks' = [k \in Conns |-> 0] /\ closeReqs' = 0 /\ closing' = NotClosing
    /\ connPc' = [k \in Conns |-> IF k = stored THEN "connected"
                                  ELSE IF connPc[k] = "new" THEN "new" ELSE "refused"]
    /\ dip' = FALSE
    /\ subPc' = [s \in CliSubs |-> IF subPc[s] = "new" THEN "new"
                                   ELSE IF s \in storedSubs THEN "active" ELSE "failed"]
    /\ active' = IF stored = NoConn THEN {} ELSE storedSubs
    /\ ackSubs' = active'
    /\ clientSubs' = [k \in Conns |-> IF k = stored THEN storedSubs ELSE {}]
    /\ waitPc' = [w \in Waiters |-> IF waitPc[w] = "new" THEN "new" ELSE "returned"]
    /\ waitOn' = {} /\ knownInvalid' = {}
    /\ UNCHANGED <<stored, alive, old, storedSubs>>

CliNext ==
    \/ \E k \in Conns :
          \/ connectCB(k) \/ connectLocked(k) \/ isDuplicateConnect(k) \/ ReplaceOld(k)
          \/ register(k) \/ finishConnectRequest(k) \/ processCloseRequest(k) \/ Die(k)
          \/ checkClientHealth(k) \/ Heartbeat(k) \/ processClientPings(k)
    \/ CloseBehindBarrier \/ closeClientReturns
    \/ \E s \in CliSubs :
          \/ removeSubscriber(s) \/ processSubscriptionRequest(s) \/ addSub(s)
          \/ addSubscription(s) \/ startAckSub(s) \/ unsubscribeSub(s)
    \/ \E w \in Waiters : isValidWithTimeout(w) \/ WaiterReturns(w) \/ WaiterTimesOut(w)
    \/ CliRestart

CliSpec == CliInit /\ [][CliNext]_cliVars

-----------------------------------------------------------------------------
CliTypeOK ==
    /\ {reg, stored} \subseteq Conns \cup {NoConn} /\ connIDs \subseteq Conns
    /\ connIDs = {reg} \ {NoConn} /\ stored = reg
    /\ closing \in [conn : Conns \cup {NoConn}, left : SUBSET CliSubs, for : Conns \cup {NoConn}]
    /\ hbt \in [Conns -> {"none", "armed", "fired"}] /\ fhb \in [Conns -> 0..HBFailCount + 1]
    /\ clientSubs \in [Conns -> SUBSET CliSubs] /\ active \subseteq CliSubs
    /\ waitOn \subseteq Waiters /\ Cardinality(waitOn) <= 1

\* A subscription the channel delivers to belongs to the registered client, or
\* closeClient is about to remove it: closing a client while a subscription of
\* its is being added, or its ID is being reused, leaves none behind.
SubsOwned ==
    \A s \in active :
       \/ reg # NoConn /\ s \in clientSubs[reg]
       \/ s \in closing.left

\* A client that has its connect response is being watched: its timer is armed,
\* a heartbeat is in flight or it is about to be closed, whether it answers in
\* time or not, and whatever pings of its reset the timer meanwhile.
HeartbeatArmed ==
    (reg # NoConn /\ connPc[reg] = "connected") =>
       hbt[reg] = "armed" \/ checks[reg] > 0 \/ closeReqs > 0
=============================================================================
