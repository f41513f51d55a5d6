--------------------------- MODULE ClusterPublish ---------------------------
(* Publishing to a channel in a cluster (server/server.go: ioLoop, replicate,  *)
(* startRaftNode, leadershipAcquired, leadershipLost; server/clustering.go:    *)
(* raftFSM.Apply). The leader gives each message the next sequence of the      *)
(* channel, proposes it to raft and acks the publisher when it was applied.    *)
(* Raft itself is external: one leader at a time, a log of committed entries   *)
(* that every node applies in order, and a proposal of a leader that steps     *)
(* down which the next leader commits or drops.                                *)
EXTENDS Integers, Sequences, SequencesExt, FiniteSets

CONSTANTS
    CPNodes, NoNode,
    CPMaxPubs, CPMaxElections   \* bounds

VARIABLES
    raftLeader,     \* raft: the leader or NoNode
    committed,      \* raft: sequence of [seq, msg]
    proposed,       \* raft: entries proposed and not committed
    elections,
    applied,        \* node -> number of entries its FSM applied
    last,           \* node -> last sequence of its message store
    notifications,  \* node -> raft's notifications of leadership, not yet handled
    promotion,      \* node -> leadershipAcquired: "none", "sync"
    serving,        \* nodes with internal subscriptions: they receive publishes
    cpIOChannel,    \* node -> its ioChannel: messages and synchronization requests
    io,             \* node -> ioLoop: "idle", "waiting" for the future of a message,
                    \* "failing" (the future has an error), "synced"
    nextSequence,   \* node -> next sequence of the channel
    ackedPubs,      \* [seq, msg] acked to the publisher
    published,      \* messages published so far
    early           \* history: messages proposed by a leader before its leadershipAcquired

cpRaft == <<raftLeader, committed, proposed, elections>>
cpLead == <<notifications, promotion, serving>>
cpVars == <<cpRaft, applied, last, cpLead, cpIOChannel, io, nextSequence, ackedPubs, published, early>>

Sync == 0   \* the synchronization request; messages are positive

IOLoop(pc, msg) == [pc |-> pc, msg |-> msg]
IOMoves(n, pc, msg) == io' = [io EXCEPT ![n] = IOLoop(pc, msg)]

CPInit ==
    /\ raftLeader = NoNode /\ committed = <<>> /\ proposed = <<>> /\ elections = 0
    /\ applied = [n \in CPNodes |-> 0]
    /\ last = [n \in CPNodes |-> 0]
    /\ notifications = [n \in CPNodes |-> <<>>]
    /\ promotion = [n \in CPNodes |-> "none"]
    /\ serving = {}
    /\ cpIOChannel = [n \in CPNodes |-> <<>>]
    /\ io = [n \in CPNodes |-> IOLoop("idle", 0)]
    /\ nextSequence = [n \in CPNodes |-> 1]
    /\ ackedPubs = {} /\ published = 0 /\ early = {}

-----------------------------------------------------------------------------
(* Raft                                                                        *)

\* Raft's channel of notifications has room for one: the leader takes proposals
\* once the notification is in it.
elect(n) ==
    /\ raftLeader = NoNode /\ elections < CPMaxElections
    /\ notifications[n] = <<>>
    /\ elections' = elections + 1
    /\ raftLeader' = n
    /\ committed' \in {committed, committed \o proposed}
    /\ proposed' = <<>>
    /\ notifications' = [notifications EXCEPT ![n] = Append(@, TRUE)]
    /\ UNCHANGED <<applied, last, promotion, serving, cpIOChannel, io, nextSequence, ackedPubs, published, early>>

commitProposal ==
    /\ raftLeader # NoNode /\ proposed # <<>>
    /\ committed' = committed \o proposed
    /\ proposed' = <<>>
    /\ UNCHANGED <<raftLeader, elections, applied, last, cpLead, cpIOChannel, io, nextSequence,
                   ackedPubs, published, early>>

\* The future of a proposal that is not committed fails.
stepDown ==
    /\ raftLeader # NoNode
    /\ raftLeader' = NoNode
    /\ notifications' = [notifications EXCEPT ![raftLeader] = Append(@, FALSE)]
    /\ IF proposed # <<>> THEN IOMoves(raftLeader, "failing", 0) ELSE UNCHANGED io
    /\ UNCHANGED <<committed, proposed, elections, applied, last, promotion, serving, cpIOChannel,
                   nextSequence, ackedPubs, published, early>>

-----------------------------------------------------------------------------
(* The ioLoop and the FSM                                                      *)

processClientPublish(n) ==
    /\ n \in serving /\ published < CPMaxPubs
    /\ published' = published + 1
    /\ cpIOChannel' = [cpIOChannel EXCEPT ![n] = Append(@, published + 1)]
    /\ UNCHANGED <<cpRaft, applied, last, cpLead, io, nextSequence, ackedPubs, early>>

TakesMessage(n) ==
    /\ io[n].pc = "idle" /\ cpIOChannel[n] # <<>> /\ Head(cpIOChannel[n]) # Sync
    /\ cpIOChannel' = [cpIOChannel EXCEPT ![n] = Tail(@)]

\* The server has not come to, or not finished, leadershipAcquired.
Acquiring(n) == notifications[n] # <<>> \/ promotion[n] # "none"

\* Raft takes the proposal of its leader. Otherwise the future fails at once and
\* the next sequence is that of the store.
replicatePublish(n) ==
    /\ TakesMessage(n)
    /\ IF raftLeader = n
       THEN /\ proposed' = Append(proposed, [seq |-> nextSequence[n], msg |-> Head(cpIOChannel[n])])
            /\ nextSequence' = [nextSequence EXCEPT ![n] = @ + 1]
            /\ IOMoves(n, "waiting", Head(cpIOChannel[n]))
            /\ early' = IF Acquiring(n) THEN early \cup {Head(cpIOChannel[n])} ELSE early
       ELSE /\ nextSequence' = [nextSequence EXCEPT ![n] = last[n] + 1]
            /\ UNCHANGED <<proposed, io, early>>
    /\ UNCHANGED <<raftLeader, committed, elections, applied, last, cpLead, ackedPubs, published>>

\* The channel of a later message of the batch cannot be created: all of the batch
\* fails, and the sequences given to its first messages are not taken back.
replicateFails(n) ==
    /\ TakesMessage(n)
    /\ nextSequence' = [nextSequence EXCEPT ![n] = @ + 1]
    /\ UNCHANGED <<cpRaft, applied, last, cpLead, io, ackedPubs, published, early>>

futureFails(n) ==
    /\ io[n].pc = "failing"
    /\ IOMoves(n, "idle", 0)
    /\ nextSequence' = [nextSequence EXCEPT ![n] = last[n] + 1]
    /\ UNCHANGED <<cpRaft, applied, last, cpLead, cpIOChannel, ackedPubs, published, early>>

\* The FSM stores the message unless its sequence is not above the last one. On the
\* node that waits for it, the future is completed and the publisher gets its ack.
Apply(n) ==
    /\ applied[n] < Len(committed)
    /\ LET op == committed[applied[n] + 1]
           waits == io[n] = IOLoop("waiting", op.msg)
       IN  /\ last' = [last EXCEPT ![n] = IF op.seq > @ THEN op.seq ELSE @]
           /\ ackedPubs' = IF waits THEN ackedPubs \cup {op} ELSE ackedPubs
           /\ IF waits THEN IOMoves(n, "idle", 0) ELSE UNCHANGED io
    /\ applied' = [applied EXCEPT ![n] = @ + 1]
    /\ UNCHANGED <<cpRaft, cpLead, cpIOChannel, nextSequence, published, early>>

synchronizationRequest(n) ==
    /\ io[n].pc = "idle" /\ cpIOChannel[n] # <<>> /\ Head(cpIOChannel[n]) = Sync
    /\ cpIOChannel' = [cpIOChannel EXCEPT ![n] = Tail(@)]
    /\ IOMoves(n, "synced", 0)
    /\ UNCHANGED <<cpRaft, applied, last, cpLead, nextSequence, ackedPubs, published, early>>

-----------------------------------------------------------------------------
(* Leadership                                                                  *)

HandlesNotification(n, isLeader) ==
    /\ promotion[n] = "none" /\ notifications[n] # <<>> /\ Head(notifications[n]) = isLeader
    /\ notifications' = [notifications EXCEPT ![n] = Tail(@)]

sendSynchronizationRequest(n) ==
    /\ HandlesNotification(n, TRUE)
    /\ promotion' = [promotion EXCEPT ![n] = "sync"]
    /\ cpIOChannel' = [cpIOChannel EXCEPT ![n] = Append(@, Sync)]
    /\ UNCHANGED <<cpRaft, applied, last, serving, io, nextSequence, ackedPubs, published, early>>

Promoted(n) ==
    /\ promotion[n] = "sync" /\ io[n].pc = "synced"
    /\ promotion' = [promotion EXCEPT ![n] = "none"]
    /\ IOMoves(n, "idle", 0)
    /\ UNCHANGED <<cpRaft, applied, last, notifications, cpIOChannel, ackedPubs, published, early>>

\* The barrier: all preceding entries are applied.
leadershipAcquiredAsIs(n) ==
    /\ Promoted(n)
    /\ raftLeader = n /\ applied[n] = Len(committed)
    /\ serving' = serving \cup {n} /\ UNCHANGED nextSequence
leadershipAcquired(n) ==
    /\ Promoted(n)
    /\ raftLeader = n /\ applied[n] = Len(committed)
    /\ nextSequence' = [nextSequence EXCEPT ![n] = IF @ <= last[n] THEN last[n] + 1 ELSE @]
    /\ serving' = serving \cup {n}

barrierFails(n) ==
    /\ Promoted(n)
    /\ raftLeader # n
    /\ UNCHANGED <<nextSequence, serving>>

leadershipLost(n) ==
    /\ HandlesNotification(n, FALSE)
    /\ serving' = serving \ {n}
    /\ UNCHANGED <<cpRaft, applied, last, promotion, cpIOChannel, io, nextSequence, ackedPubs, published, early>>

CPNext ==
    \/ commitProposal \/ stepDown
    \/ \E n \in CPNodes :
          \/ elect(n) \/ processClientPublish(n) \/ replicatePublish(n) \/ replicateFails(n)
          \/ futureFails(n) \/ Apply(n) \/ synchronizationRequest(n)
          \/ sendSynchronizationRequest(n) \/ leadershipAcquired(n) \/ barrierFails(n)
          \/ leadershipLost(n)

CPSpec == CPInit /\ [][CPNext]_cpVars

-----------------------------------------------------------------------------
\* The state has the shape of the code's.
CPTypeOK ==
    /\ raftLeader \in CPNodes \cup {NoNode}
    /\ applied \in [CPNodes -> 0..Len(committed)]
    /\ serving \subseteq CPNodes
    /\ io \in [CPNodes -> [pc : {"idle", "waiting", "failing", "synced"}, msg : 0..CPMaxPubs]]
    /\ Len(proposed) <= 1

\* A message that was acked to its publisher is stored by every node that applies
\* the log: no earlier entry has its sequence or a later one, which would make
\* the message stores ignore it (leadershipAcquired, replicate, Apply). The one
\* exception is a message that the ioLoop still had queued when its node lost the
\* leadership and got it back, and proposes before the synchronization request.
Stores(i) == \A j \in 1..(i - 1) : committed[j].seq < committed[i].seq

AckedKept ==
    \A a \in ackedPubs :
        a.msg \in early \/ \E i \in DOMAIN committed : committed[i] = a /\ Stores(i)
=============================================================================
