------------------------------ MODULE Restore -------------------------------
(* Restoring the messages of a channel on a follower (server/snapshot.go,     *)
(* server/clustering.go). A raft snapshot only has the first and last         *)
(* sequence of a channel: the follower asks the leader for the messages, in   *)
(* batches, while the messages expire on both nodes and replies are lost.     *)
(* Then it applies the publish operations that follow the snapshot. The first *)
(* one makes it check once more that no message is missing.                   *)
(* Both nodes are of the version of the source (no pre 0.14.2 leader). NATS   *)
(* is external: the replies to one inbox arrive in order, or are lost.        *)
EXTENDS Integers, Sequences, FiniteSets, FiniteSetsExt

CONSTANTS
    RsMaxSeq,               \* bound: messages of the channel
    RestoreBatch,           \* messages asked for in one request
    restoreMsgsAttempts,
    ProceedOnRestoreFailure,    \* the option of this name
    RsMaxLost               \* bound: replies that are lost

ASSUME RestoreAssumption ==
    /\ RestoreBatch \in Nat \ {0} /\ restoreMsgsAttempts \in Nat
    /\ ProceedOnRestoreFailure \in BOOLEAN

VARIABLES
    lFirst, lLast,          \* leader: it has the messages lFirst..lLast
    snap,                   \* the channel in the snapshot: [first, last]
    msgs, sLast,            \* follower's store: sequences, LastSequence
    firstSeq, lSeqChecked,  \* c.firstSeq, c.lSeqChecked
    rs,                     \* the restore in progress: the locals of the code
    attempt,
    requests, replies,      \* NATS: to the leader, to the follower's inbox
    target,                 \* all operations up to this message are applied
    expired, lost,          \* history: messages that expired on the follower
    gaveUp                  \* history: it went on without the messages

leaderSide == <<lFirst, lLast>>
storeVars == <<msgs, sLast>>
rsVars == <<leaderSide, snap, storeVars, firstSeq, lSeqChecked, rs, attempt,
            requests, replies, target, expired, lost, gaveUp>>

Seqs == 1..RsMaxSeq

NoRestore == [pc |-> "none", seq |-> 0, first |-> 0, last |-> 0, reqStart |-> 0,
              reqEnd |-> 0, got |-> 0, stored |-> FALSE, fromApply |-> FALSE]

RsInit ==
    /\ lLast \in Seqs
    /\ snap \in [first : 1..(lLast + 1), last : 1..lLast]
    /\ snap.first <= snap.last + 1
    /\ lFirst \in snap.first..(lLast + 1)
    /\ sLast \in 0..lLast
    /\ \E f \in 1..(sLast + 1) : msgs = f..sLast
    /\ firstSeq = snap.first
    /\ lSeqChecked = FALSE
    /\ rs = [NoRestore EXCEPT !.pc = "start"]
    /\ attempt = 1
    /\ requests = <<>> /\ replies = <<>>
    /\ target = snap.last
    /\ expired = (1..sLast) \ msgs /\ lost = 0 /\ gaveUp = FALSE

-----------------------------------------------------------------------------
(* The leader, subToSnapshotRestoreRequests.                                  *)

leaderExpire ==
    /\ lFirst <= lLast
    /\ lFirst' = lFirst + 1
    /\ UNCHANGED <<lLast, snap, storeVars, firstSeq, lSeqChecked, rs, attempt,
                   requests, replies, target, expired, lost, gaveUp>>

\* One iteration of the loop over a request. A message that is not found is
\* replaced by the first available one, and when there is none the loop ends.
serveRequest ==
    /\ requests # <<>>
    /\ LET seq == Head(requests).start
           end == Head(requests).end
           found == seq \in lFirst..lLast
           some == found \/ (lFirst <= lLast /\ lFirst >= seq)
           sent == IF found THEN seq ELSE lFirst
           rest == IF some /\ sent < end
                   THEN <<[start |-> sent + 1, end |-> end]>> ELSE <<>>
           reply == [seq |-> IF some THEN sent ELSE 0, firstAvail |-> some /\ ~found]
       IN  /\ requests' = rest \o Tail(requests)
           /\ \/ replies' = Append(replies, reply) /\ UNCHANGED lost
              \/ /\ lost < RsMaxLost
                 /\ lost' = lost + 1
                 /\ UNCHANGED replies
    /\ UNCHANGED <<leaderSide, snap, storeVars, firstSeq, lSeqChecked, rs, attempt,
                   target, expired, gaveUp>>

-----------------------------------------------------------------------------
(* The follower, restoreMsgsFromSnapshot.                                     *)

followerExpire ==
    /\ msgs # {}
    /\ msgs' = msgs \ {Min(msgs)}
    /\ expired' = expired \cup {Min(msgs)}
    /\ UNCHANGED <<leaderSide, snap, sLast, firstSeq, lSeqChecked, rs, attempt,
                   requests, replies, target, lost, gaveUp>>

Empty == msgs' = {} /\ sLast' = 0

\* The restore is at pc and has forgotten its locals.
Returned(pc) == [NoRestore EXCEPT !.pc = pc, !.fromApply = rs.fromApply]

restoreMoves(pc) ==
    /\ rs.pc = pc
    /\ UNCHANGED <<leaderSide, snap, lSeqChecked, attempt, expired, lost, gaveUp>>

\* The range that is missing, from the snapshot or (fromApply) from the store.
restoreMsgsFromSnapshot ==
    /\ restoreMoves("start")
    /\ LET from == IF rs.fromApply THEN sLast + 1 ELSE snap.first
           first == Max({firstSeq, IF from <= sLast THEN sLast + 1 ELSE from})
       IN  /\ IF from > sLast + 1 THEN Empty ELSE UNCHANGED storeVars
           /\ rs' = IF first > target
                    THEN Returned("ok")
                    ELSE [rs EXCEPT !.pc = "loop", !.seq = first, !.first = first,
                             !.last = target, !.reqStart = first]
    /\ UNCHANGED <<firstSeq, requests, replies, target>>

\* Top of the loop: ask for the next batch.
sendRestoreMsgRequest ==
    /\ restoreMoves("loop")
    /\ rs.seq <= rs.last
    /\ LET end == Min({rs.reqStart + RestoreBatch - 1, rs.last})
           ask == rs.seq = rs.reqStart
       IN  /\ requests' = IF ask
                          THEN Append(requests, [start |-> rs.reqStart, end |-> end])
                          ELSE requests
           /\ rs' = [rs EXCEPT !.pc = "recv",
                        !.reqEnd = IF ask THEN end ELSE @,
                        !.reqStart = IF ask /\ end # rs.last THEN end + 1 ELSE @]
    /\ UNCHANGED <<storeVars, firstSeq, replies, target>>

StoredMsg(r, seq) == [r EXCEPT !.pc = "loop", !.stored = TRUE, !.seq = seq + 1]

\* The message asked for.
receiveExpected ==
    /\ restoreMoves("recv")
    /\ replies # <<>> /\ Head(replies).seq = rs.seq
    /\ msgs' = msgs \cup {rs.seq}
    /\ sLast' = rs.seq
    /\ rs' = StoredMsg(rs, rs.seq)
    /\ replies' = Tail(replies)
    /\ UNCHANGED <<firstSeq, requests, target>>

\* Another message. Unless it is said to be the first available one, or lies
\* beyond the request, the leader is asked again.
receiveOtherUnverified ==
    /\ restoreMoves("recv")
    /\ replies # <<>>
    /\ Head(replies).seq \notin {0, rs.seq}
    /\ rs' = [rs EXCEPT !.got = Head(replies).seq, !.pc = "jump"]
    /\ replies' = Tail(replies)
    /\ UNCHANGED <<storeVars, firstSeq, requests, target>>
receiveOther ==
    /\ restoreMoves("recv")
    /\ replies # <<>>
    /\ Head(replies).seq \notin {0, rs.seq}
    /\ rs' = [rs EXCEPT !.got = Head(replies).seq,
                 !.pc = IF Head(replies).firstAvail \/ rs.seq > rs.reqEnd
                        THEN "jump" ELSE "verify"]
    /\ replies' = Tail(replies)
    /\ UNCHANGED <<storeVars, firstSeq, requests, target>>

hasLeaderSentFirstAvail ==
    /\ restoreMoves("verify")
    /\ rs' = [rs EXCEPT !.pc =
          IF rs.seq \notin lFirst..lLast /\ lFirst = rs.got /\ lFirst <= lLast
          THEN "jump" ELSE "failed"]
    /\ UNCHANGED <<storeVars, firstSeq, requests, replies, target>>

\* Messages before the one received are gone on the leader.
jumpToFirstAvail ==
    /\ restoreMoves("jump")
    /\ IF rs.got > rs.last
       THEN /\ Empty
            /\ firstSeq' = rs.last + 1
            /\ rs' = Returned("ok")
       ELSE /\ msgs' = {rs.got} /\ sLast' = rs.got
            /\ firstSeq' = rs.got
            /\ rs' = [StoredMsg(rs, rs.got) EXCEPT !.got = 0,
                         !.reqStart = IF rs.got > rs.reqEnd THEN rs.got + 1 ELSE @]
    /\ UNCHANGED <<requests, replies, target>>

\* The leader has no message at all.
receiveNone ==
    /\ restoreMoves("recv")
    /\ replies # <<>> /\ Head(replies).seq = 0
    /\ IF rs.seq = rs.first \/ rs.stored THEN Empty ELSE UNCHANGED storeVars
    /\ firstSeq' = rs.seq + 1
    /\ rs' = Returned("ok")
    /\ replies' = Tail(replies)
    /\ UNCHANGED <<requests, target>>

loopEnds ==
    /\ restoreMoves("loop")
    /\ rs.seq > rs.last
    /\ rs' = Returned("ok")
    /\ UNCHANGED <<storeVars, firstSeq, requests, replies, target>>

\* An error on the way: the leader could not be asked, no reply came within
\* restoreMsgsRcvTimeout, or the store failed, perhaps with the messages before
\* the first available one removed and that one not stored.
restoreErrs ==
    /\ \E pc \in {"start", "loop", "recv", "verify", "jump"} : restoreMoves(pc)
    /\ \/ UNCHANGED <<storeVars, firstSeq>>
       \/ /\ rs.pc = "jump" /\ rs.got <= rs.last
          /\ Empty
          /\ firstSeq' = rs.got
    /\ rs' = [rs EXCEPT !.pc = "failed"]
    /\ UNCHANGED <<requests, replies, target>>

\* The inbox is unsubscribed: late replies are not seen. A restore from a
\* snapshot is tried again, one from Apply panics. After the last attempt the
\* server stops, or goes on without the messages.
restoreFails ==
    /\ rs.pc = "failed"
    /\ LET next == CASE rs.fromApply -> "panic"
                     [] attempt < restoreMsgsAttempts -> "start"
                     [] ProceedOnRestoreFailure -> "none"
                     [] OTHER -> "abort"
       IN  /\ rs' = Returned(next)
           /\ gaveUp' = (next = "none")
    /\ attempt' = IF rs.fromApply THEN attempt ELSE attempt + 1
    /\ requests' = <<>> /\ replies' = <<>>
    /\ UNCHANGED <<leaderSide, snap, storeVars, firstSeq, lSeqChecked, target,
                   expired, lost>>

restoreSucceeds ==
    /\ rs.pc = "ok"
    /\ rs' = NoRestore
    /\ lSeqChecked' = rs.fromApply
    /\ gaveUp' = FALSE
    /\ requests' = <<>> /\ replies' = <<>>
    /\ UNCHANGED <<leaderSide, snap, storeVars, firstSeq, attempt, target, expired, lost>>

\* A publish operation that follows the snapshot, in raftFSM.Apply: the store is
\* checked up to the previous message, once, then the message is stored (one that
\* is in the store already is ignored).
checkBeforeApply ==
    /\ rs.pc = "none"
    /\ ~lSeqChecked
    /\ target < lLast
    /\ rs' = [NoRestore EXCEPT !.pc = "start", !.fromApply = TRUE]
    /\ UNCHANGED <<leaderSide, snap, storeVars, firstSeq, lSeqChecked, attempt,
                   requests, replies, target, expired, lost, gaveUp>>

applyPublish ==
    /\ rs.pc = "none"
    /\ lSeqChecked
    /\ target < lLast
    /\ target' = target + 1
    /\ IF target + 1 > sLast
       THEN msgs' = msgs \cup {target + 1} /\ sLast' = target + 1
       ELSE UNCHANGED storeVars
    /\ UNCHANGED <<leaderSide, snap, firstSeq, lSeqChecked, rs, attempt, requests,
                   replies, expired, lost, gaveUp>>

-----------------------------------------------------------------------------
RsNext ==
    \/ leaderExpire \/ serveRequest \/ followerExpire
    \/ restoreMsgsFromSnapshot \/ sendRestoreMsgRequest \/ receiveExpected
    \/ receiveOther \/ hasLeaderSentFirstAvail \/ jumpToFirstAvail \/ receiveNone
    \/ loopEnds \/ restoreErrs \/ restoreFails \/ restoreSucceeds
    \/ checkBeforeApply \/ applyPublish

RsSpec == RsInit /\ [][RsNext]_rsVars

-----------------------------------------------------------------------------
\* The state has the shape of the code's.
RsTypeOK ==
    /\ lFirst \in 1..(lLast + 1)
    /\ msgs \subseteq 1..sLast
    /\ sLast \in 0..lLast
    /\ firstSeq \in 1..(lLast + 1)
    /\ target \in snap.last..lLast
    /\ attempt \in 1..(restoreMsgsAttempts + 1)

\* When a restore has succeeded, and after every operation that is applied, the
\* follower has all the messages that the leader still has, up to the last one
\* applied, except those that expired on the follower; and no restore leaves a
\* hole: what the store holds ends with LastSequence (restoreMsgsFromSnapshot,
\* raftFSM.Apply). A server that was told to go on without the messages
\* (ProceedOnRestoreFailure) misses some until the check before its first publish
\* operation has succeeded, and no operation is applied before; if it could not
\* even empty its store, the hole that stays ends at c.firstSeq.
RestoredAll ==
    /\ rs.pc = "ok" \/ (rs.pc = "none" /\ ~gaveUp) =>
          (lFirst..target) \subseteq msgs \cup expired
    /\ gaveUp => target = snap.last
    /\ msgs # {} => \/ msgs = Min(msgs)..sLast
                    \/ attempt > restoreMsgsAttempts /\ firstSeq..sLast \subseteq msgs

\* getChannelFirstAndlLastSeq: what this node would use as the last sequence of
\* the channel if it became the leader.
ChannelLast == IF sLast = 0 THEN firstSeq - 1 ELSE sLast

\* When the messages of the snapshot have all expired on the leader, the node
\* still reports the last sequence of the snapshot, as the comment of
\* getChannelFirstAndlLastSeq says.
LastSeqKept == rs.pc = "none" => ChannelLast >= target
=============================================================================
