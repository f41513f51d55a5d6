------------------------------ MODULE SentAck -------------------------------
(* How the leader of a cluster replicates what it delivered and what was      *)
(* acknowledged (server/server.go, collectSentOrAck to                        *)
(* processReplicatedSendAndAck). The events of a subscription are collected   *)
(* in memory and replicated lazily, in batches, by one go-routine. Closing a  *)
(* subscription flushes its events first, unless the client is closed because *)
(* it failed its heartbeats, or it unsubscribes. The raft library is          *)
(* external: an operation given to raft.Apply is appended to a log that every *)
(* node applies in order. The follower of this module may become the leader   *)
(* at any of its states. The group is one durable subscription, or the        *)
(* members of a durable queue group; one that joins later has got nothing     *)
(* before. The stores do not fail here.                                       *)
EXTENDS Integers, FiniteSets, Sequences, FiniteSetsExt

CONSTANTS
    Members,
    maxSentOrAckSequences,      \* size of a batch that is replicated at once
    SAMaxSeq,                   \* bound: messages sent
    SAMaxMoves,                 \* bound: redeliveries to another member, and closes
    SAMaxLog                    \* bound: how far behind the follower is

ASSUME SentAckAssumption ==
    /\ Members # {}
    /\ maxSentOrAckSequences \in Nat \ {0, 1}

VARIABLES
    group,              \* the members in use
    lastSent, acksPending, open, inc,   \* leader: inc numbers the ack inboxes
    shadow,             \* the last member that left, if there is none
    replicate,          \* sub.replicate
    waiting, ready, notifyCh,           \* s.ssarepl
    replicator,         \* where subsSentAndAckReplicator is
    ending,             \* member -> the close or subscribe request under way
    log,                \* raft log, external: what the follower has not applied
    toApply,            \* external: the closes and subscribes the leader has not applied
    fLastSent, fPending, fOpen, fInc,   \* the follower
    acked, dropped,     \* history: acked by clients; member -> sent events never applied
    moves

leaderVars == <<lastSent, acksPending, open, inc, shadow>>
schedVars == <<waiting, ready, notifyCh>>
followerVars == <<fLastSent, fPending, fOpen, fInc>>
saVars == <<group, leaderVars, replicate, schedVars, replicator, ending, log,
            toApply, followerVars, acked, dropped, moves>>

NoEvents(applying, stopped) ==
    [sent |-> {}, ack |-> {}, hiSentSeq |-> 0, hiAckSeq |-> 0,
     applying |-> applying, stopped |-> stopped]
Idle == [pc |-> "select", todo |-> {}, sub |-> {}, ops |-> <<>>, addedToReady |-> FALSE]
NotEnding == [pc |-> "none", op |-> "none", ops |-> <<>>]

SAInit ==
    /\ group \in {G \in SUBSET Members : G # {}}
    /\ lastSent = 0
    /\ acksPending = [m \in group |-> {}]
    /\ open = [m \in group |-> TRUE]
    /\ inc = [m \in group |-> 0]
    /\ shadow = {}
    /\ replicate = [m \in group |-> NoEvents(FALSE, FALSE)]
    /\ waiting = {} /\ ready = {} /\ notifyCh = FALSE
    /\ replicator = Idle
    /\ ending = [m \in group |-> NotEnding]
    /\ log = <<>> /\ toApply = <<>>
    /\ fLastSent = 0
    /\ fPending = [m \in group |-> {}]
    /\ fOpen = [m \in group |-> TRUE]
    /\ fInc = [m \in group |-> 0]
    /\ acked = {} /\ dropped = [m \in group |-> {}]
    /\ moves = 0

IsQueue == Cardinality(group) > 1

Outstanding(r) == r.sent \cup r.ack # {} \/ r.hiAckSeq > 0

-----------------------------------------------------------------------------
(* Collecting events.                                                         *)

CollectedSent(r, seq) ==
    [r EXCEPT !.sent = @ \cup {seq},
              !.ack = IF IsQueue THEN @ \ {seq} ELSE @,
              !.hiSentSeq = Max({@, seq}),
              !.hiAckSeq = IF seq >= r.hiSentSeq THEN 0 ELSE @]

CollectedAck(r, seq) ==
    IF seq \in r.sent
    THEN [r EXCEPT !.sent = @ \ {seq},
                   !.hiAckSeq = IF seq = r.hiSentSeq THEN seq ELSE @]
    ELSE [r EXCEPT !.ack = @ \cup {seq}]

Count(r) == Cardinality(r.sent) + Cardinality(r.ack)

\* The subscriptions that get their first event, and those that fill a batch.
ScheduleSilently(first, full) ==
    /\ waiting' = (waiting \cup first) \ full
    /\ ready' = ready \cup full
    /\ UNCHANGED notifyCh
Schedule(first, full) ==
    /\ waiting' = (waiting \cup first) \ full
    /\ ready' = ready \cup full
    /\ notifyCh' = (notifyCh \/ full # {})

\* Collects the events of the functions sent and ack, from members to sequences.
collectSentOrAck(sent, ack) ==
    LET After(m) ==
          CASE replicate[m].stopped -> replicate[m]
            [] m \in DOMAIN sent -> CollectedSent(replicate[m], sent[m])
            [] OTHER -> CollectedAck(replicate[m], ack[m])
        M == {m \in (DOMAIN sent) \cup (DOMAIN ack) : ~replicate[m].stopped}
    IN  /\ replicate' = [m \in group |-> IF m \in M THEN After(m) ELSE replicate[m]]
        /\ Schedule({m \in M : Count(replicate'[m]) = 1},
                    {m \in M : Count(replicate'[m]) = maxSentOrAckSequences})
        /\ dropped' = [m \in group |-> IF m \in (DOMAIN sent) \ M THEN dropped[m] \cup {sent[m]}
                                      ELSE dropped[m]]

\* The lock of the queue group is held while the messages of a member that leaves
\* are transferred.
GroupUnlocked == \A m \in group : ending[m].pc # "transfer"

\* A new message is sent to one member.
sendMsgToSub(m) ==
    /\ open[m] /\ GroupUnlocked
    /\ lastSent < SAMaxSeq
    /\ lastSent' = lastSent + 1
    /\ acksPending' = [acksPending EXCEPT ![m] = @ \cup {lastSent + 1}]
    /\ collectSentOrAck([x \in {m} |-> lastSent + 1], <<>>)
    /\ UNCHANGED <<group, open, inc, shadow, replicator, ending, log, toApply,
                   followerVars, acked, moves>>

\* A client acknowledges; the message is looked for in every member.
processAck(seq) ==
    \E m \in group :
        /\ seq \in acksPending[m]
        /\ open[m] /\ GroupUnlocked
        /\ acksPending' = [acksPending EXCEPT ![m] = @ \ {seq}]
        /\ acked' = acked \cup {seq}
        /\ collectSentOrAck(<<>>, [x \in {m} |-> seq])
        /\ UNCHANGED <<group, lastSent, open, inc, shadow, replicator, ending, log,
                       toApply, followerVars, moves>>

\* A message of a queue group is redelivered to another member, which gets a sent
\* event, and is implicitly acknowledged for the first one.
redeliverToOther(m, n, seq) ==
    /\ m # n /\ open[m] /\ open[n] /\ GroupUnlocked
    /\ seq \in acksPending[m]
    /\ moves < SAMaxMoves
    /\ moves' = moves + 1
    /\ acksPending' = [acksPending EXCEPT ![m] = @ \ {seq}, ![n] = @ \cup {seq}]
    /\ collectSentOrAck([x \in {n} |-> seq], [x \in {m} |-> seq])
    /\ UNCHANGED <<group, lastSent, open, inc, shadow, replicator, ending, log,
                   toApply, followerVars, acked>>

-----------------------------------------------------------------------------
(* The replicator go-routine. A Range visits at least the keys that are in    *)
(* the map when it starts and are not deleted.                                *)

\* createSubSentAndAckProto: the batch, with the highest message sent and acked.
createProtoOfHighest(m) ==
    LET r == replicate[m]
        hi == {r.hiAckSeq} \ {0}
    IN  [type |-> "sent_ack", sub |-> m, inbox |-> inc[m],
         sent |-> (r.sent \cap {r.hiSentSeq}) \cup hi, ack |-> r.ack \cup hi]
createSubSentAndAckProto(m) ==
    LET r == replicate[m]
        hi == {r.hiAckSeq} \ {0}
    IN  [type |-> "sent_ack", sub |-> m, inbox |-> inc[m],
         sent |-> r.sent \cup hi, ack |-> r.ack \cup hi]

replicatorMoves(pc) ==
    /\ replicator.pc = pc
    /\ UNCHANGED <<group, leaderVars, toApply, followerVars, acked, dropped, moves>>

StartFlush == [Idle EXCEPT !.pc = "flush", !.todo = ready]

tick ==
    /\ replicatorMoves("select")
    /\ waiting # {}
    /\ replicator' = [replicator EXCEPT !.pc = "move", !.todo = waiting]
    /\ UNCHANGED <<replicate, schedVars, ending, log>>

\* One visit of the Range over waiting: delete, then store in ready.
moveToReady(m) ==
    /\ replicatorMoves("move")
    /\ m \in waiting
    /\ waiting' = waiting \ {m}
    /\ replicator' = [replicator EXCEPT !.pc = "store", !.sub = {m}]
    /\ UNCHANGED <<replicate, ready, notifyCh, ending, log>>

storeInReady ==
    /\ replicatorMoves("store")
    /\ ready' = ready \cup replicator.sub
    /\ replicator' = [replicator EXCEPT !.pc = "move", !.sub = {}, !.addedToReady = TRUE]
    /\ UNCHANGED <<replicate, waiting, notifyCh, ending, log>>

\* The Range is over; flush what it added, unless somebody signaled (then the
\* next select does).
tickEnds ==
    /\ replicatorMoves("move")
    /\ replicator.todo \cap waiting = {}
    /\ replicator' = IF replicator.addedToReady /\ ~notifyCh THEN StartFlush ELSE Idle
    /\ UNCHANGED <<replicate, schedVars, ending, log>>

notified ==
    /\ replicatorMoves("select")
    /\ notifyCh
    /\ notifyCh' = FALSE
    /\ replicator' = StartFlush
    /\ UNCHANGED <<replicate, waiting, ready, ending, log>>

takeReady(m) ==
    /\ replicatorMoves("flush")
    /\ m \in ready
    /\ ready' = ready \ {m}
    /\ replicator' = [replicator EXCEPT !.pc = "lock", !.sub = {m}]
    /\ UNCHANGED <<replicate, waiting, notifyCh, ending, log>>

flushEnds ==
    /\ replicatorMoves("flush")
    /\ replicator.todo \cap ready = {}
    /\ replicator' = Idle
    /\ UNCHANGED <<replicate, schedVars, ending, log>>

\* First part of replicateSubSentAndAck, under the subscription's lock.
replicateSubSentAndAck(m) ==
    /\ replicatorMoves("lock")
    /\ m \in replicator.sub
    /\ IF Outstanding(replicate[m])
       THEN /\ replicator' = [replicator EXCEPT !.pc = "apply",
                                 !.ops = <<createSubSentAndAckProto(m)>>]
            /\ replicate' = [replicate EXCEPT ![m] =
                  NoEvents(TRUE, replicate[m].stopped)]
       ELSE /\ replicator' = [replicator EXCEPT !.pc = "flush", !.sub = {}]
            /\ UNCHANGED replicate
    /\ UNCHANGED <<schedVars, ending, log>>

\* raft.Apply, not waited for; then a close that waits for it is signaled.
applyBatch(m) ==
    /\ replicatorMoves("apply")
    /\ m \in replicator.sub /\ Len(log) < SAMaxLog
    /\ log' = log \o replicator.ops
    /\ replicate' = [replicate EXCEPT ![m].applying = FALSE]
    /\ ending' = [ending EXCEPT ![m].pc = IF @ = "wait" THEN "apply" ELSE @]
    /\ replicator' = [replicator EXCEPT !.pc = "flush", !.sub = {}, !.ops = <<>>]
    /\ UNCHANGED schedVars

-----------------------------------------------------------------------------
(* Closing a subscription, and opening a durable one again. The requests for  *)
(* several members may be under way together.                                 *)

closeMoves ==
    UNCHANGED <<group, leaderVars, replicator, followerVars, acked>>

\* clearSentAndAck
clearSentAndAck(m) ==
    /\ waiting' = waiting \ {m}
    /\ ready' = ready \ {m}
    /\ replicate' = [replicate EXCEPT ![m] = NoEvents(replicate[m].applying, TRUE)]
    /\ UNCHANGED notifyCh

StartClose(m) ==
    /\ open[m] /\ ending[m] = NotEnding
    /\ moves < SAMaxMoves /\ moves' = moves + 1

\* A close request (of the subscription, or of the connection), or an unsubscribe
\* request, which flushes nothing. (The unsubscribe of a durable subscription ends
\* it: only that of a queue member is here.)
endSubSentAndAckReplication(m, unsub) ==
    /\ StartClose(m) /\ (unsub => IsQueue)
    /\ ending' = [ending EXCEPT ![m] =
                    [pc |-> IF replicate[m].applying THEN "wait" ELSE "apply",
                     op |-> IF unsub THEN "unsubscribe" ELSE "close",
                     ops |-> IF Outstanding(replicate[m]) /\ ~unsub
                             THEN <<createSubSentAndAckProto(m)>> ELSE <<>>]]
    /\ dropped' = [dropped EXCEPT ![m] = IF unsub THEN @ \cup replicate[m].sent ELSE @]
    /\ clearSentAndAck(m)
    /\ closeMoves /\ UNCHANGED <<log, toApply>>

\* The wait is over after five seconds: the events are not replicated.
endTimesOut(m) ==
    /\ ending[m].pc = "wait"
    /\ ending' = [ending EXCEPT ![m].pc = "apply", ![m].ops = <<>>]
    /\ dropped' = [dropped EXCEPT ![m] =
                     @ \cup UNION {ending[m].ops[i].sent : i \in DOMAIN ending[m].ops}]
    /\ closeMoves /\ UNCHANGED <<replicate, schedVars, log, toApply, moves>>

\* The operation that ends or resumes the subscription, whose result is waited for.
Replicate(m, batch, op, inbox) ==
    LET last == <<[type |-> op, sub |-> m, inbox |-> inbox, sent |-> {}, ack |-> {}]>>
    IN  /\ Len(log) < SAMaxLog
        /\ log' = log \o batch \o last /\ toApply' = toApply \o last
        /\ ending' = [ending EXCEPT ![m] = [pc |-> "replicated", op |-> op, ops |-> <<>>]]

\* The last batch, and the close itself.
replicateSubCloseOrUnsubscribe(m) ==
    /\ ending[m].pc = "apply"
    /\ Replicate(m, ending[m].ops, ending[m].op, inc[m])
    /\ closeMoves /\ UNCHANGED <<replicate, schedVars, dropped, moves>>

\* The heartbeats of the client failed: nothing is flushed.
heartbeatClose(m) ==
    /\ StartClose(m)
    /\ Replicate(m, <<>>, "close", inc[m])
    /\ closeMoves /\ UNCHANGED <<replicate, schedVars, dropped>>

\* The durable, or the queue group that has no member left, is subscribed to
\* again, with a new ack inbox.
replicateSub(m) ==
    /\ m \in shadow /\ ending[m] = NotEnding
    /\ Replicate(m, <<>>, "subscribe", inc[m] + 1)
    /\ closeMoves /\ UNCHANGED <<replicate, schedVars, dropped, moves>>

-----------------------------------------------------------------------------
(* The nodes apply the log.                                                   *)

\* The leader skips the batches. It applies a close or a subscribe, whose
\* request then gets its answer. The messages of a member that leaves others
\* behind are transferred first.
leaderApply ==
    /\ toApply # <<>> /\ GroupUnlocked
    /\ toApply' = Tail(toApply)
    /\ LET op == Head(toApply)
           m == op.sub
           others == \E n \in group \ {m} : open[n]
       IN  /\ open' = [open EXCEPT ![m] = op.type = "subscribe"]
           /\ inc' = [inc EXCEPT ![m] = op.inbox]
           /\ shadow' = IF op.type = "close" /\ ~others THEN {m} ELSE {}
           /\ replicate' = [replicate EXCEPT ![m].stopped = @ /\ op.type # "subscribe"]
           /\ acksPending' = [acksPending EXCEPT ![m] =
                               IF op.type = "unsubscribe" /\ ~others THEN {} ELSE @]
           /\ ending' = [ending EXCEPT ![m] =
                          IF op.type # "subscribe" /\ others
                          THEN [NotEnding EXCEPT !.pc = "transfer"] ELSE NotEnding]
    /\ UNCHANGED <<group, lastSent, schedVars, replicator, log, followerVars, acked,
                   dropped, moves>>

\* Remove: the messages that were pending go to the other members, one by one.
transferToOther(m, n) ==
    /\ ending[m].pc = "transfer" /\ open[n] /\ acksPending[m] # {}
    /\ LET seq == Min(acksPending[m])
       IN  /\ acksPending' = [acksPending EXCEPT ![m] = @ \ {seq}, ![n] = @ \cup {seq}]
           /\ collectSentOrAck([x \in {n} |-> seq], <<>>)
    /\ UNCHANGED <<group, lastSent, open, inc, shadow, replicator, ending, log, toApply,
                   followerVars, acked, moves>>

transferEnds(m) ==
    /\ ending[m].pc = "transfer" /\ acksPending[m] = {}
    /\ ending' = [ending EXCEPT ![m] = NotEnding]
    /\ closeMoves /\ UNCHANGED <<replicate, schedVars, log, toApply, dropped, moves>>

\* A batch for an ack inbox that is not known any more is ignored.
processReplicatedSendAndAck(op) ==
    IF fOpen[op.sub] /\ fInc[op.sub] = op.inbox
    THEN /\ fLastSent' = Max({fLastSent} \cup op.sent)
         /\ fPending' = [fPending EXCEPT ![op.sub] = (@ \cup op.sent) \ op.ack]
         /\ UNCHANGED dropped
    ELSE /\ dropped' = [dropped EXCEPT ![op.sub] = @ \cup op.sent]
         /\ UNCHANGED <<fLastSent, fPending>>

\* A member that is not the last one takes what it had pending with it.
followerApply ==
    /\ log # <<>>
    /\ log' = Tail(log)
    /\ LET op == Head(log)
           m == op.sub
           gone == \/ op.type = "unsubscribe"
                   \/ op.type = "close" /\ \E n \in group \ {m} : fOpen[n]
       IN  IF op.type = "sent_ack"
           THEN processReplicatedSendAndAck(op) /\ UNCHANGED <<fOpen, fInc>>
           ELSE /\ fOpen' = [fOpen EXCEPT ![m] = op.type = "subscribe"]
                /\ fInc' = [fInc EXCEPT ![m] = op.inbox]
                /\ fPending' = [fPending EXCEPT ![m] = IF gone THEN {} ELSE @]
                /\ UNCHANGED <<fLastSent, dropped>>
    /\ UNCHANGED <<group, leaderVars, replicate, schedVars, replicator, ending, toApply,
                   acked, moves>>

-----------------------------------------------------------------------------
SANext ==
    \/ \E m \in group :
          \/ sendMsgToSub(m) \/ moveToReady(m) \/ takeReady(m)
          \/ replicateSubSentAndAck(m) \/ applyBatch(m)
          \/ \E unsub \in BOOLEAN : endSubSentAndAckReplication(m, unsub)
          \/ endTimesOut(m) \/ replicateSubCloseOrUnsubscribe(m)
          \/ heartbeatClose(m) \/ replicateSub(m) \/ transferEnds(m)
          \/ \E n \in group : transferToOther(m, n)
          \/ \E seq \in acksPending[m], n \in group : redeliverToOther(m, n, seq)
    \/ \E seq \in 1..lastSent : processAck(seq)
    \/ tick \/ storeInReady \/ tickEnds \/ notified \/ flushEnds
    \/ leaderApply \/ followerApply

SASpec == SAInit /\ [][SANext]_saVars

-----------------------------------------------------------------------------
\* The state has the shape of the code's, and nothing is known of a message
\* that was not sent.
SATypeOK ==
    /\ group \subseteq Members
    /\ lastSent \in 0..SAMaxSeq
    /\ fLastSent \in 0..lastSent
    /\ \A m \in group :
          /\ acksPending[m] \cup fPending[m] \subseteq 1..lastSent
          /\ replicate[m].sent \cup replicate[m].ack \subseteq 1..lastSent
          /\ replicate[m].hiAckSeq \in {0, replicate[m].hiSentSeq}
          /\ dropped[m] \subseteq 1..lastSent
    /\ waiting \cup ready \cup replicator.sub \cup shadow \subseteq group
    /\ acked \subseteq 1..lastSent

\* Events that were collected are always about to be replicated: the
\* subscription waits for the next tick, or it is ready and a flush is certain
\* to visit it, or the replicator has it in hand. collectSentOrAck relies on an
\* exact count instead of a flag for this.
EventsScheduled ==
    \A m \in group :
        Outstanding(replicate[m]) =>
            \/ m \in waiting
            \/ m \in ready /\ \/ notifyCh
                              \/ replicator.pc \in {"move", "store"} /\ replicator.addedToReady
                              \/ replicator.pc \in {"flush", "lock", "apply"}
                                 /\ m \in replicator.todo
            \/ replicator.pc \in {"store", "lock"} /\ m \in replicator.sub

InFlight(m) ==
    \/ Outstanding(replicate[m])
    \/ \E i \in DOMAIN replicator.ops : replicator.ops[i].sub = m
    \/ ending[m] # NotEnding
    \/ \E i \in DOMAIN log : log[i].sub = m

\* The follower of a durable subscription, if it became the leader now, would
\* deliver every message again or for the first time unless it was acknowledged,
\* or its sent event was dropped because the subscription was being closed: what
\* it believes sent (up to LastSent) and was not acknowledged is pending. Once
\* its events are applied, it waits for every ack the leader waits for. So it is
\* for each member of a queue group, those included that got the messages of a
\* member that left (Remove), but for the events that were dropped: those of a
\* member that was itself being closed, or unsubscribed.
LostOnlyByClose ==
    /\ IsQueue \/ \A seq \in 1..fLastSent :
                     seq \in acked \cup UNION {fPending[m] \cup dropped[m] : m \in group}
    /\ \A m \in group : InFlight(m) \/ acksPending[m] \subseteq fPending[m] \cup dropped[m]
=============================================================================
