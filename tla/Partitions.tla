----------------------------- MODULE Partitions -----------------------------
(* Servers that each handle their own list of channels (server/partitions.go, *)
(* util/channels.go). A server subscribes to the lists of the others, then    *)
(* sends its own and collects replies until none comes in time; it does so    *)
(* again when the topology of the NATS cluster changes.                       *)
EXTENDS Subjects, FiniteSets

CONSTANTS
    PtServers,
    PtLists,        \* the lists of channels a server may be configured with
    PtUniverse,     \* channels a client may use
    PtMaxStarts     \* bound on the starts of a server

VARIABLES
    lists,          \* server -> its channels
    partState,      \* "off", "subscribed", "checking", "running", "failed"
    listRequests,   \* <<from, to>>: lists on their way
    listReplies,    \* [to, from, conflict]: replies on their way
    linked,         \* the NATS servers of the two are connected
    changed,        \* servers with a notification of a topology change
    awaited,        \* history: who got a server's list and was not heard since
    partStarts

ptVars == <<lists, partState, listRequests, listReplies, linked, changed, awaited, partStarts>>

PtInit ==
    /\ lists \in [PtServers -> PtLists]
    /\ partState = [s \in PtServers |-> "off"]
    /\ listRequests = {} /\ listReplies = {} /\ linked \in BOOLEAN /\ changed = {}
    /\ awaited = [s \in PtServers |-> {}]
    /\ partStarts = [s \in PtServers |-> 0]

PartMoves(s, st) == partState' = [partState EXCEPT ![s] = st]
Listening(s) == partState[s] \in {"subscribed", "checking", "running"}

-----------------------------------------------------------------------------
\* The subscriptions to the lists of the others and to an inbox come first.
initPartitions(s) ==
    /\ partState[s] = "off" /\ partStarts[s] < PtMaxStarts
    /\ PartMoves(s, "subscribed")
    /\ partStarts' = [partStarts EXCEPT ![s] = @ + 1]
    /\ UNCHANGED <<lists, listRequests, listReplies, linked, changed, awaited>>

\* The list goes to the servers that listen and that it can reach. Lists and
\* replies are late, or lost: those that never arrive.
SendChannelsList(s) ==
    LET reached == {t \in PtServers \ {s} : linked /\ Listening(t)}
    IN  /\ listRequests' = listRequests \cup ({s} \X reached)
        /\ awaited' = [awaited EXCEPT ![s] = reached]

checkChannelsUniqueInCluster(s) ==
    /\ partState[s] = "subscribed"
    /\ SendChannelsList(s)
    /\ PartMoves(s, "checking")
    /\ UNCHANGED <<lists, listReplies, linked, changed, partStarts>>

\* The handler of topology changes waits for the check in progress, if any.
topologyChanged(s) ==
    /\ s \in changed /\ partState[s] = "running"
    /\ SendChannelsList(s)
    /\ PartMoves(s, "checking")
    /\ changed' = changed \ {s}
    /\ UNCHANGED <<lists, listReplies, linked, partStarts>>

\* One of the other server's channels is matched by one of ours, or one of ours
\* by one of the other's.
CommonToOurs(ours, theirs) == \E c \in ours, d \in theirs : matchLiteral(d, c)
Common(ours, theirs) ==
    \E c \in ours, d \in theirs : matchLiteral(d, c) \/ matchLiteral(c, d)

processChannelsListRequests(t) ==
    \E r \in listRequests :
        /\ r[2] = t /\ Listening(t)
        /\ listRequests' = listRequests \ {r}
        /\ listReplies' = listReplies \cup
             {[to |-> r[1], from |-> t, conflict |-> Common(lists[t], lists[r[1]])]}
        /\ UNCHANGED <<lists, partState, linked, changed, awaited, partStarts>>

\* Requests and replies of a server that is gone are lost.
Gone(s) ==
    /\ listRequests' = {r \in listRequests : s \notin {r[1], r[2]}}
    /\ listReplies' = {r \in listReplies : r.to # s}
    /\ changed' = changed \ {s}
    /\ awaited' = [t \in PtServers |-> IF t = s THEN {} ELSE awaited[t] \ {s}]

\* A conflict makes the start fail, or the running server exit. A reply to an
\* earlier list counts as well: the inbox is the same for all the checks.
receiveReply(s) ==
    /\ partState[s] = "checking"
    /\ \E r \in listReplies :
          /\ r.to = s
          /\ IF r.conflict
             THEN Gone(s) /\ PartMoves(s, "failed")
             ELSE /\ listReplies' = listReplies \ {r}
                  /\ awaited' = [awaited EXCEPT ![s] = @ \ {r.from}]
                  /\ UNCHANGED <<partState, listRequests, changed>>
    /\ UNCHANGED <<lists, linked, partStarts>>

\* NextMsg times out: no reply came for a second (partitionsRequestTimeout). Some
\* may still be on their way.
repliesEnd(s) ==
    /\ partState[s] = "checking"
    /\ PartMoves(s, "running")
    /\ UNCHANGED <<lists, listRequests, listReplies, linked, changed, awaited, partStarts>>

shutdown(s) ==
    /\ partState[s] = "running"
    /\ Gone(s) /\ PartMoves(s, "off")
    /\ UNCHANGED <<lists, linked, partStarts>>

\* NATS: the servers get connected; the ones that run are told.
topologyChanges ==
    /\ ~linked
    /\ linked' = TRUE
    /\ changed' = {s \in PtServers : Listening(s)}
    /\ UNCHANGED <<lists, partState, listRequests, listReplies, awaited, partStarts>>

PtNext ==
    \/ topologyChanges
    \/ \E s \in PtServers :
          \/ initPartitions(s) \/ checkChannelsUniqueInCluster(s) \/ topologyChanged(s)
          \/ processChannelsListRequests(s) \/ receiveReply(s) \/ repliesEnd(s) \/ shutdown(s)

PtSpec == PtInit /\ [][PtNext]_ptVars

-----------------------------------------------------------------------------
\* The state has the shape of the code's.
PtTypeOK ==
    /\ partState \in [PtServers -> {"off", "subscribed", "checking", "running", "failed"}]
    /\ listRequests \subseteq PtServers \X PtServers
    /\ changed \subseteq PtServers
    /\ awaited \in [PtServers -> SUBSET PtServers]

\* The channels that a name of a list stands for.
Handles(c) == Literals(c, PtUniverse)

\* Two wildcards cross when each also stands for channels that the other does not.
Cross(c, d) == ~(Handles(c) \subseteq Handles(d)) /\ ~(Handles(d) \subseteq Handles(c))

\* Of two servers that finished their checks and are connected, no channel
\* belongs to both, however their starts, a change of the topology and late
\* replies interleave: each listens before it sends its own list
\* (initPartitions). Two exceptions: the check of one of them ended before the
\* other's reply came (NextMsg gives up after partitionsRequestTimeout), and two
\* wildcards that cross, of which neither Sublist has a match for the other
\* (processChannelsListRequests).
PartitionsDisjoint ==
    \A s, t \in PtServers :
        s # t /\ linked /\ {s, t} \cap changed = {}
          /\ partState[s] = "running" /\ partState[t] = "running"
          /\ t \notin awaited[s] /\ s \notin awaited[t]
        => \A c \in lists[s], d \in lists[t] :
              Handles(c) \cap Handles(d) = {} \/ Cross(c, d)
=============================================================================
