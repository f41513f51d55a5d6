--------------------------- MODULE RaftTransport ----------------------------
(* The stream between two raft nodes over NATS (server/raft_transport.go): the *)
(* handshake of Dial and Accept, which gives each end an inbox, and the two   *)
(* ends (natsConn) that write to the other's inbox and read from their own.   *)
(* NATS delivers what is published to an inbox in order; a handshake message  *)
(* may be lost. Bytes are numbered by their position in the stream; an empty  *)
(* buffer signals the end of the stream.                                      *)
EXTENDS Integers, Sequences, SequencesExt, FiniteSets

CONSTANTS
    MaxPayload,         \* of a NATS message
    ReadSizes,          \* sizes of the buffers given to Read
    RTMaxBytes,         \* bound on the bytes written by the two ends
    RTMaxLost           \* bound on the handshake messages that are lost

ASSUME RTAssumption == MaxPayload \in Nat \ {0} /\ ReadSizes \subseteq Nat \ {0}

VARIABLES
    dial,           \* Dial: "idle", "requested", "answered", "done", "failed"
    accept,         \* Accept: "idle", "replied", "asked", "accepted", "dropped"
    dialInboxes,    \* what the dialing node answers about the inbox
    wire,           \* handshake messages on their way
    conn,           \* end -> natsConn
    reader,         \* end -> where its Read is: "idle", "waiting", "copying"
    net,            \* end -> buffers on their way to its inbox
    written, got,   \* end -> bytes written, bytes returned by Read
    rtLost

rtVars == <<dial, accept, dialInboxes, wire, conn, reader, net, written, got, rtLost>>
handshake == <<dial, accept, dialInboxes, wire, rtLost>>

Ends == {"dialer", "acceptor"}
Peer(e) == IF e = "dialer" THEN "acceptor" ELSE "dialer"
EOF == <<>>

\* tick: the timer's channel holds a tick; armed: it is going to fire
NoStream == [open |-> FALSE, outbox |-> FALSE, pending |-> <<>>, ch |-> 0,
           armed |-> FALSE, tick |-> FALSE]

RTInit ==
    /\ dial = "idle" /\ accept = "idle" /\ dialInboxes = "" /\ wire = {} /\ rtLost = 0
    /\ conn = [e \in Ends |-> NoStream]
    /\ reader = [e \in Ends |-> "idle"]
    /\ net = [e \in Ends |-> <<>>]
    /\ written = [e \in Ends |-> 0]
    /\ got = [e \in Ends |-> <<>>]

Message(type, val) == [type |-> type, val |-> val]

-----------------------------------------------------------------------------
(* natsConn                                                                    *)

\* The other end is told if its inbox is known; the channel of notifications is
\* closed, the timer is stopped and the inbox is unsubscribed.
close(e, signalRemote) ==
    /\ conn' = [conn EXCEPT ![e].open = FALSE, ![e].armed = FALSE]
    /\ net' = IF signalRemote /\ conn[e].outbox
              THEN [net EXCEPT ![Peer(e)] = Append(@, EOF)] ELSE net

Established(e) == IF e = "dialer" THEN dial = "done" ELSE accept = "accepted"

Close(e) ==
    /\ Established(e) /\ conn[e].open
    /\ close(e, TRUE)
    /\ IF e = "dialer" THEN dialInboxes' = "" ELSE UNCHANGED dialInboxes
    /\ UNCHANGED <<dial, accept, wire, rtLost, reader, written, got>>

\* Data is sent in chunks that fit in a message.
RECURSIVE Chunks(_)
Chunks(b) ==
    IF Len(b) <= MaxPayload THEN <<b>>
    ELSE <<SubSeq(b, 1, MaxPayload)>> \o Chunks(SubSeq(b, MaxPayload + 1, Len(b)))

Write(e, size) ==
    /\ Established(e) /\ conn[e].open
    /\ written[e] + written[Peer(e)] + size <= RTMaxBytes
    /\ net' = [net EXCEPT ![Peer(e)] = @ \o Chunks([i \in 1..size |-> written[e] + i])]
    /\ written' = [written EXCEPT ![e] = @ + size]
    /\ UNCHANGED <<handshake, conn, reader, got>>

\* A buffer arrives: the reader is notified of the first one of the list.
onMsg(e) ==
    /\ net[e] # <<>>
    /\ net' = [net EXCEPT ![e] = Tail(@)]
    /\ conn' = IF ~conn[e].open THEN conn
               ELSE [conn EXCEPT ![e].pending = Append(@, Head(net[e])),
                                 ![e].ch = IF conn[e].pending = <<>> THEN 1 ELSE @]
    /\ UNCHANGED <<handshake, reader, written, got>>

\* Read sets the timer and waits only if no buffer is pending.
Read(e) ==
    /\ Established(e) /\ conn[e].open /\ reader[e] = "idle"
    /\ IF conn[e].pending # <<>>
       THEN reader' = [reader EXCEPT ![e] = "copying"] /\ UNCHANGED conn
       ELSE /\ reader' = [reader EXCEPT ![e] = "waiting"]
            /\ conn' = [conn EXCEPT ![e].armed = TRUE]
    /\ UNCHANGED <<handshake, net, written, got>>

\* The deadline set by SetDeadline passes.
timerFires(e) ==
    /\ conn[e].armed
    /\ conn' = [conn EXCEPT ![e].armed = FALSE, ![e].tick = TRUE]
    /\ UNCHANGED <<handshake, reader, net, written, got>>

readTimesOut(e) ==
    /\ reader[e] = "waiting" /\ conn[e].tick
    /\ conn' = [conn EXCEPT ![e].tick = FALSE]
    /\ reader' = [reader EXCEPT ![e] = "idle"]
    /\ UNCHANGED <<handshake, net, written, got>>

\* A notification of a buffer that was read already is skipped. The timer is
\* stopped; a tick that it left stays in its channel.
notifiedOfBuffer(e) ==
    /\ reader[e] = "waiting" /\ conn[e].ch = 1
    /\ IF conn[e].pending = <<>>
       THEN /\ conn' = [conn EXCEPT ![e].ch = 0]
            /\ UNCHANGED reader
       ELSE /\ conn' = [conn EXCEPT ![e].ch = 0, ![e].armed = FALSE]
            /\ reader' = [reader EXCEPT ![e] = "copying"]
    /\ UNCHANGED <<handshake, net, written, got>>

\* The channel of notifications was closed.
readEnds(e) ==
    /\ reader[e] = "waiting" /\ ~conn[e].open /\ conn[e].ch = 0
    /\ reader' = [reader EXCEPT ![e] = "idle"]
    /\ UNCHANGED <<handshake, conn, net, written, got>>

\* The head of the list is copied as far as it fits; what does not fit stays.
copyBufferOnce(e, size) ==
    LET buf == Head(conn[e].pending)
    IN  /\ reader[e] = "copying" /\ buf # EOF
        /\ got' = [got EXCEPT ![e] = @ \o SubSeq(buf, 1, IF size < Len(buf) THEN size ELSE Len(buf))]
        /\ conn' = [conn EXCEPT ![e].pending = Tail(@)]
        /\ reader' = [reader EXCEPT ![e] = "idle"]
        /\ UNCHANGED <<handshake, net, written>>
copyBuffer(e, size) ==
    LET buf == Head(conn[e].pending)
        nb == IF size < Len(buf) THEN size ELSE Len(buf)
    IN  /\ reader[e] = "copying" /\ buf # EOF
        /\ got' = [got EXCEPT ![e] = @ \o SubSeq(buf, 1, nb)]
        /\ conn' = [conn EXCEPT ![e].pending =
                       IF nb # Len(buf) THEN <<SubSeq(buf, nb + 1, Len(buf))>> \o Tail(@)
                       ELSE Tail(@)]
        /\ reader' = [reader EXCEPT ![e] = "idle"]
        /\ UNCHANGED <<handshake, net, written>>

remoteClosed(e) ==
    /\ reader[e] = "copying" /\ Head(conn[e].pending) = EOF
    /\ reader' = [reader EXCEPT ![e] = "idle"]
    /\ close(e, FALSE)
    /\ IF e = "dialer" THEN dialInboxes' = "" ELSE UNCHANGED dialInboxes
    /\ UNCHANGED <<dial, accept, wire, rtLost, written, got>>

-----------------------------------------------------------------------------
(* natsStreamLayer                                                             *)

Unread == UNCHANGED <<reader, written, got>>

\* The inbox is subscribed to and recorded before the request is sent.
Dial ==
    /\ dial = "idle"
    /\ dial' = "requested"
    /\ conn' = [conn EXCEPT !["dialer"].open = TRUE]
    /\ dialInboxes' = "dialInProgress"
    /\ wire' = wire \cup {Message("request", "")}
    /\ Unread /\ UNCHANGED <<accept, rtLost, net>>

dialAnswered ==
    /\ dial = "requested" /\ Message("response", "") \in wire
    /\ dial' = "answered"
    /\ wire' = wire \ {Message("response", "")}
    /\ conn' = [conn EXCEPT !["dialer"].outbox = TRUE]
    /\ Unread /\ UNCHANGED <<accept, dialInboxes, rtLost, net>>

dialCompletes ==
    /\ dial = "answered"
    /\ dial' = "done"
    /\ dialInboxes' = "dialComplete"
    /\ Unread /\ UNCHANGED <<accept, wire, rtLost, conn, net>>

\* The request times out: the other end's inbox is not known, so it is not told.
dialTimesOut ==
    /\ dial = "requested"
    /\ dial' = "failed"
    /\ dialInboxes' = ""
    /\ close("dialer", TRUE)
    /\ Unread /\ UNCHANGED <<accept, wire, rtLost>>

\* The accepting end subscribes to its inbox, and replies with it.
Accept ==
    /\ accept = "idle" /\ Message("request", "") \in wire
    /\ accept' = "replied"
    /\ wire' = (wire \ {Message("request", "")}) \cup {Message("response", "")}
    /\ conn' = [conn EXCEPT !["acceptor"].open = TRUE, !["acceptor"].outbox = TRUE]
    /\ Unread /\ UNCHANGED <<dial, dialInboxes, rtLost, net>>

retryAccept ==
    /\ accept' = "dropped"
    /\ close("acceptor", TRUE)
    /\ Unread /\ UNCHANGED <<dial, dialInboxes, rtLost>>

\* The reply could not be flushed.
acceptFails == accept = "replied" /\ retryAccept /\ UNCHANGED wire

\* The accepting end asks the dialing node until its dial is complete.
askDialer ==
    /\ accept = "replied"
    /\ accept' = "asked"
    /\ wire' = wire \cup {Message("check", "")}
    /\ Unread /\ UNCHANGED <<dial, dialInboxes, rtLost, conn, net>>

answerCheck ==
    /\ Message("check", "") \in wire
    /\ wire' = (wire \ {Message("check", "")}) \cup {Message("answer", dialInboxes)}
    /\ Unread /\ UNCHANGED <<dial, accept, dialInboxes, rtLost, conn, net>>

acceptAnswered ==
    /\ accept = "asked"
    /\ \E m \in wire :
          /\ m.type = "answer"
          /\ wire' = wire \ {m}
          /\ \/ m.val = "" /\ retryAccept
             \/ /\ m.val # ""
                /\ accept' = IF m.val = "dialComplete" THEN "accepted" ELSE "replied"
                /\ Unread /\ UNCHANGED <<dial, dialInboxes, rtLost, conn, net>>

checkTimesOut ==
    /\ accept = "asked"
    /\ retryAccept
    /\ wire' = {m \in wire : m.type \notin {"check", "answer"}}

lose(m) ==
    /\ rtLost < RTMaxLost
    /\ wire' = wire \ {m}
    /\ rtLost' = rtLost + 1
    /\ Unread /\ UNCHANGED <<dial, accept, dialInboxes, conn, net>>

RTNext ==
    \/ Dial \/ dialAnswered \/ dialCompletes \/ dialTimesOut
    \/ Accept \/ acceptFails \/ askDialer \/ answerCheck \/ acceptAnswered \/ checkTimesOut
    \/ \E m \in wire : lose(m)
    \/ \E e \in Ends :
          \/ onMsg(e) \/ Read(e) \/ timerFires(e) \/ readTimesOut(e)
          \/ notifiedOfBuffer(e) \/ readEnds(e) \/ remoteClosed(e) \/ Close(e)
          \/ \E size \in 1..RTMaxBytes : Write(e, size)
          \/ \E size \in ReadSizes : copyBuffer(e, size)

RTSpec == RTInit /\ [][RTNext]_rtVars

-----------------------------------------------------------------------------
\* The state has the shape of the code's.
RTTypeOK ==
    /\ dial \in {"idle", "requested", "answered", "done", "failed"}
    /\ accept \in {"idle", "replied", "asked", "accepted", "dropped"}
    /\ reader \in [Ends -> {"idle", "waiting", "copying"}]
    /\ \A e \in Ends : conn[e].ch \in 0..1 /\ written[e] \in 0..RTMaxBytes

\* What an open end promises. The bytes that were returned by Read, that are
\* pending and that are on their way are those written by the other end, each once
\* and in order, however they were cut into messages and buffers. A Read that
\* waits while a buffer is pending is going to be notified, although the list is
\* looked at before the wait begins. And an end that is established learns that
\* the other one has gone: a dial that timed out is never accepted, and an end
\* that closes knows the other's inbox (Write, onMsg, Read, Dial, Accept, close).
StreamRight ==
    \A e \in Ends :
        conn[e].open =>
            /\ got[e] \o FlattenSeq(conn[e].pending \o net[e]) = [i \in 1..written[Peer(e)] |-> i]
            /\ reader[e] = "waiting" /\ conn[e].pending # <<>> => conn[e].ch = 1
            /\ Established(e) /\ ~conn[Peer(e)].open => EOF \in Range(conn[e].pending \o net[e])
=============================================================================
