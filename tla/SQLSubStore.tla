---------------------------- MODULE SQLSubStore -----------------------------
(* The subscription store of one channel in the SQL store                    *)
(* (stores/sqlstore.go, type SQLSubStore) with its cache: pending messages   *)
(* and acks are flushed together, one row of table SubsPending for each      *)
(* subscription, and a row goes when all it says is obsolete.                *)
EXTENDS Integers, Sequences, SequencesExt, FiniteSets, FiniteSetsExt, Helpers

CONSTANTS SSMaxSubs,     \* bound: subscriptions ever created
          SSMaxSeq,      \* bound: sequences sent
          SSMaxOps,      \* bound: calls of AddSeqPending and AckSeqPending
          SSMaxCrashes,  \* bound: crashes and restarts
          SSMaxFails     \* bound: flushes that fail

VARIABLES ss,        \* the SQLSubStore
          flusher,   \* the store in subStoresFlusher: "idle", "listed", "taken"
          dbSubs,    \* table Subscriptions: id -> [last, deleted]
          dbPending, \* table SubsPending: row -> [sub, last, pending, acks]
          sqlSubs,   \* what the server did: id -> [last, pending]
          ssSent,    \* the last sequence the server sent to the group
          ssOps, ssCrashes, ssSafe, ssSince,
          maxID,     \* the highest subscription ID given so far
          ssFailed,  \* the last flush failed
          ssFails,
          \* Auxiliary, the sequences a crash may lose:
          ssLost,    \* cached when a flush was rolled back
          ssExposed  \* those, and the ones not safe before the next flush

ssAux == <<ssFailed, ssFails, ssLost, ssExposed>>
sqlSubVars == <<ss, flusher, dbSubs, dbPending, sqlSubs, ssSent, ssOps, ssCrashes, ssSafe,
                ssSince, maxID, ssAux>>

\* cache: id -> sqlSubAcksPending; rows: row -> sqlSubsPendingRow.
NewSQLSubStore == [maxSubID |-> 0, hasMarkedAsDel |-> FALSE, curRow |-> 0, needsFlush |-> FALSE,
                   cache |-> EmptyFcn, rows |-> EmptyFcn]
NewAcksPending == [lastSent |-> 0, prevLastSent |-> 0, msgs |-> {}, acks |-> {},
                   msgToRow |-> EmptyFcn, ackToRow |-> EmptyFcn]

SQLSubInit ==
    /\ ss = NewSQLSubStore /\ flusher = "idle" /\ dbSubs = EmptyFcn /\ dbPending = EmptyFcn
    /\ sqlSubs = EmptyFcn /\ ssSent = 0 /\ ssOps = 0 /\ ssCrashes = 0 /\ ssSafe = {}
    /\ ssSince = {} /\ maxID = 0 /\ ssFailed = FALSE /\ ssFails = 0 /\ ssLost = {} /\ ssExposed = {}

-----------------------------------------------------------------------------
\* The rows of the subscription that are marked as deleted go when another one
\* is created.
SQLCreateSub ==
    LET id == ss.maxSubID + 1
        marked == {i \in DOMAIN dbSubs : dbSubs[i].deleted}
    IN /\ id <= SSMaxSubs
       /\ dbSubs' = With(IF ss.hasMarkedAsDel THEN Without(dbSubs, marked) ELSE dbSubs,
                         id, [last |-> 0, deleted |-> FALSE])
       /\ ss' = [ss EXCEPT !.maxSubID = id, !.hasMarkedAsDel = FALSE]
       /\ sqlSubs' = With(sqlSubs, id, [last |-> 0, pending |-> {}])
       /\ ssSince' = ssSince \cup {id} /\ maxID' = Larger(maxID, id)
       /\ UNCHANGED <<flusher, dbPending, ssSent, ssOps, ssCrashes, ssSafe, ssAux>>

\* The row with the highest ID is only marked, so that the ID is not used again.
DeletedAtOnce(id) == FALSE
MarkedAsDeleted(id) == id = ss.maxSubID

SQLDeleteSub(id) ==
    LET mark == MarkedAsDeleted(id)
    IN /\ dbSubs' = IF mark THEN [dbSubs EXCEPT ![id].deleted = TRUE] ELSE Without(dbSubs, {id})
       /\ dbPending' = Without(dbPending, {r \in DOMAIN dbPending : dbPending[r].sub = id})
       /\ ss' = [ss EXCEPT !.hasMarkedAsDel = @ \/ mark, !.cache = Without(@, {id})]
       /\ sqlSubs' = Without(sqlSubs, {id})
       /\ UNCHANGED <<flusher, ssSent, ssOps, ssCrashes, ssSafe, ssSince, maxID, ssAux>>

\* The structure for a subscription; the store is listed for a flush.
getOrCreateAcksPending(id, seq) ==
    LET ap == IF id \in DOMAIN ss.cache THEN ss.cache[id] ELSE NewAcksPending
    IN [ap EXCEPT !.lastSent = Larger(@, seq)]

ListedIfNew == flusher' = IF ss.needsFlush \/ DOMAIN ss.cache # {} THEN flusher ELSE "listed"
Listed == flusher' = IF ss.needsFlush THEN flusher ELSE "listed"

\* A message that is pending for another member is redelivered to this one. The
\* ack of the other one may delete its row at once, before this one has a row.
SQLAddSeqPending(id, seq) ==
    LET ap == getOrCreateAcksPending(id, seq)
    IN /\ ssOps < SSMaxOps /\ ssOps' = ssOps + 1
       /\ SentTo(sqlSubs, ssSent, id, seq) /\ ssSent' = Larger(ssSent, seq)
       /\ ss' = [ss EXCEPT !.needsFlush = TRUE,
                           !.cache = With(@, id, [ap EXCEPT !.msgs = @ \cup {seq}])]
       /\ Listed
       /\ sqlSubs' = [sqlSubs EXCEPT ![id] = [last |-> Larger(@.last, seq), pending |-> @.pending \cup {seq}]]
       /\ ssExposed' = ssExposed \cup {q \in {seq} : \E i \in DOMAIN sqlSubs : q \in sqlSubs[i].pending}
       /\ UNCHANGED <<dbSubs, dbPending, ssCrashes, ssSafe, ssSince, maxID, ssFailed, ssFails, ssLost>>

\* ackSeq for a message of row r. When it was the last one pending there, the
\* row is deleted unless it also has acks, and the acks of its other messages
\* are of no use any more, whichever row they are in.
Useless(rows) == {r \in DOMAIN rows : rows[r].msgsRefs = 0 /\ rows[r].acksRefs = 0}
AckInRow(ap, r, seq) ==
    LET ap1 == [ap EXCEPT !.acks = @ \cup {seq}, !.msgToRow = Without(@, {seq})]
        rows1 == [ss.rows EXCEPT ![r].msgsRefs = @ - 1]
        acked(q) == q \in DOMAIN ap.ackToRow
        msgs == ss.rows[r].msgs
        rows2 == [k \in DOMAIN rows1 |->
                     [rows1[k] EXCEPT !.acksRefs = @ - Cardinality({q \in msgs : acked(q) /\ ap.ackToRow[q] = k}),
                                      !.msgs = IF k = r THEN {} ELSE @]]
    IN IF rows1[r].msgsRefs # 0 THEN [ap |-> ap1, rows |-> rows1, gone |-> {}]
       ELSE [ap |-> [ap1 EXCEPT !.acks = @ \ ({q \in msgs : ~acked(q)} \cup
                                              (IF rows1[r].acksRefs = 0 THEN {seq} ELSE {}))],
             rows |-> rows2,
             gone |-> ({r} \cap Useless(rows1)) \cup
                      (Useless(rows2) \cap {ap.ackToRow[q] : q \in {x \in msgs : acked(x)}})]

ackSeq(id, seq) ==
    LET ap == getOrCreateAcksPending(id, seq)
    IN CASE seq \in ap.msgs -> [ap |-> [ap EXCEPT !.msgs = @ \ {seq}], rows |-> ss.rows, gone |-> {}]
         [] seq \notin ap.msgs /\ seq \in DOMAIN ap.msgToRow -> AckInRow(ap, ap.msgToRow[seq], seq)
         [] OTHER -> [ap |-> ap, rows |-> ss.rows, gone |-> {}]

SQLAckSeqPending(id, seq) ==
    /\ ssOps < SSMaxOps /\ ssOps' = ssOps + 1
    /\ \E res \in {ackSeq(id, seq)} :
          /\ ss' = [ss EXCEPT !.needsFlush = TRUE, !.rows = res.rows, !.cache = With(@, id, res.ap)]
          /\ dbPending' = Without(dbPending, res.gone)
    /\ Listed
    /\ sqlSubs' = [sqlSubs EXCEPT ![id].pending = @ \ {seq}]
    /\ UNCHANGED <<dbSubs, ssSent, ssCrashes, ssSafe, ssSince, maxID, ssAux>>

-----------------------------------------------------------------------------
\* flush: one row for each subscription with pending messages or acks, and the
\* last sequence sent of the others in table Subscriptions.
ToWrite == {id \in DOMAIN ss.cache : ss.cache[id].msgs # {} \/ ss.cache[id].acks # {}}
RowOfAll(id) == ss.curRow + 1
RowOf(id) == ss.curRow + Cardinality({i \in ToWrite : i <= id})

FlushedCache(id) ==
    LET ap == ss.cache[id]
        ToRow(f, seqs) == [q \in (DOMAIN f) \cup seqs |-> IF q \in seqs THEN RowOf(id) ELSE f[q]]
    IN IF id \notin ToWrite THEN [ap EXCEPT !.prevLastSent = ap.lastSent]
       ELSE [ap EXCEPT !.msgs = {}, !.acks = {}, !.msgToRow = ToRow(@, ap.msgs),
                       !.ackToRow = ToRow(@, ap.acks)]

NewRows ==
    [r \in {RowOf(id) : id \in ToWrite} |->
        LET id == CHOOSE i \in ToWrite : RowOf(i) = r IN
        [sub |-> id, last |-> ss.cache[id].lastSent, pending |-> ss.cache[id].msgs,
         acks |-> ss.cache[id].acks]]
Union(f, g) == [r \in (DOMAIN f) \cup (DOMAIN g) |-> IF r \in DOMAIN g THEN g[r] ELSE f[r]]

AfterFlush(ok) ==
    [ss EXCEPT !.curRow = @ + Cardinality(ToWrite),
               !.cache = [id \in DOMAIN ss.cache |-> FlushedCache(id)],
               !.rows = Union(@, [r \in DOMAIN NewRows |->
                           [msgs |-> NewRows[r].pending, msgsRefs |-> Cardinality(NewRows[r].pending),
                            acksRefs |-> Cardinality(NewRows[r].acks)]]),
               !.needsFlush = ~ok]

\* A flush by the server, by subStoresFlusher, or because the cache is full.
SubFlushed ==
    /\ ss' = AfterFlush(TRUE)
    /\ dbPending' = Union(dbPending, NewRows)
    /\ dbSubs' = [id \in DOMAIN dbSubs |->
                     IF id \in (DOMAIN ss.cache) \ ToWrite /\ ss.cache[id].lastSent # ss.cache[id].prevLastSent
                     THEN [dbSubs[id] EXCEPT !.last = Larger(@, ss.cache[id].lastSent)] ELSE dbSubs[id]]
    /\ ssSafe' = DOMAIN sqlSubs /\ ssSince' = ssSafe'
    /\ ssFailed' = FALSE /\ ssExposed' = ssLost /\ UNCHANGED <<ssFails, ssLost>>

\* The transaction cannot begin, or it is rolled back after the cache was emptied.
Cached == UNION {ss.cache[id].msgs : id \in DOMAIN ss.cache}
SubFlushFailed ==
    /\ ssFails < SSMaxFails /\ ssFails' = ssFails + 1
    /\ \/ UNCHANGED <<ss, ssLost, ssExposed>>
       \/ /\ ss' = AfterFlush(FALSE)
          /\ ssLost' = ssLost \cup Cached /\ ssExposed' = ssExposed \cup Cached
    /\ ssFailed' = TRUE
    /\ UNCHANGED <<dbPending, dbSubs, ssSafe, ssSince>>

SQLSubFlush0 ==
    /\ IF ss.needsFlush THEN SubFlushed \/ SubFlushFailed
       ELSE UNCHANGED <<ss, dbPending, dbSubs, ssSafe, ssSince, ssAux>>
    /\ UNCHANGED <<sqlSubs, ssSent, ssOps, ssCrashes, maxID>>

SQLSubsFlush == ss.needsFlush /\ SQLSubFlush0 /\ UNCHANGED flusher

\* UpdateSub writes the last sequence sent along with the subscription at once,
\* also when messages before it are still in the cache.
SQLUpdateSub(id) ==
    /\ dbSubs' = [dbSubs EXCEPT ![id].last = Larger(@, sqlSubs[id].last)]
    /\ ssExposed' = ssExposed \cup Cached
    /\ UNCHANGED <<ss, dbPending, flusher, sqlSubs, ssSent, ssOps, ssCrashes, ssSafe, ssSince, maxID,
                   ssFailed, ssFails, ssLost>>

FlusherTakes ==
    /\ flusher = "listed" /\ flusher' = "taken"
    /\ UNCHANGED <<ss, dbSubs, dbPending, sqlSubs, ssSent, ssOps, ssCrashes, ssSafe, ssSince, maxID, ssAux>>
FlusherFlushes == flusher = "taken" /\ SQLSubFlush0 /\ flusher' = "idle"

-----------------------------------------------------------------------------
\* recoverPendingRow, for row r. The rows come back in the order of their IDs.
recoverPendingRow(st, r) ==
    LET row == dbPending[r]
        pending == st.pending \cup row.pending
        acks == row.acks \cap pending
        toRow == [q \in (DOMAIN st.msgToRow) \cup row.pending |-> IF q \in row.pending THEN r ELSE st.msgToRow[q]]
        In(k) == Cardinality({q \in acks \cap DOMAIN toRow : toRow[q] = k})
        old == With(st.rows, r, [msgs |-> row.pending, msgsRefs |-> Cardinality(row.pending),
                                 acksRefs |-> Cardinality(acks)])
        rows == [k \in DOMAIN old |-> [old[k] EXCEPT !.msgsRefs = @ - In(k)]]
    IN [last |-> Larger(st.last, row.last), lastSent |-> row.last, pending |-> pending \ acks,
        msgToRow |-> Without(toRow, acks), rows |-> rows,
        ackToRow |-> [q \in (DOMAIN st.ackToRow) \cup acks |-> IF q \in acks THEN r ELSE st.ackToRow[q]],
        gced |-> st.gced \cup {k \in Useless(rows) : In(k) > 0}]

RecoveredSub(id) ==
    FoldLeft(recoverPendingRow,
             [last |-> dbSubs[id].last, lastSent |-> 0, pending |-> {}, msgToRow |-> EmptyFcn,
              ackToRow |-> EmptyFcn, rows |-> EmptyFcn, gced |-> {}],
             SetToSortSeq({r \in DOMAIN dbPending : dbPending[r].sub = id}, <))

SQLSubRecovered(rec) ==
    /\ ss' = [NewSQLSubStore EXCEPT
                !.maxSubID = IF DOMAIN dbSubs = {} THEN 0 ELSE Max(DOMAIN dbSubs),
                !.curRow = Max({0} \cup UNION {DOMAIN rec[i].rows : i \in DOMAIN rec}),
                !.rows = [r \in UNION {DOMAIN rec[i].rows : i \in DOMAIN rec} |->
                             rec[dbPending[r].sub].rows[r]],
                !.cache = [i \in DOMAIN rec |->
                             [NewAcksPending EXCEPT !.lastSent = rec[i].lastSent, !.prevLastSent = rec[i].lastSent,
                                                    !.msgToRow = rec[i].msgToRow, !.ackToRow = rec[i].ackToRow]]]
    /\ dbPending' = Without(dbPending, UNION {rec[i].gced : i \in DOMAIN rec})
    /\ sqlSubs' = [i \in DOMAIN rec |-> [last |-> rec[i].last, pending |-> rec[i].pending]]
    /\ ssSafe' = DOMAIN rec /\ ssSince' = ssSafe'
    /\ ssFailed' = FALSE /\ ssLost' = {} /\ ssExposed' = {}

\* A crash and the recovery; Close, which flushes first, is a flush before it.
SQLSubRestart ==
    /\ ssCrashes < SSMaxCrashes /\ ssCrashes' = ssCrashes + 1
    /\ \E rec \in {[i \in {k \in DOMAIN dbSubs : ~dbSubs[k].deleted} |-> RecoveredSub(i)]} :
          SQLSubRecovered(rec)
    /\ flusher' = "idle" /\ ssSent' = RecoveredLastSent(sqlSubs')
    /\ UNCHANGED <<dbSubs, ssOps, maxID, ssFails>>

SQLSubNext ==
    \/ SQLCreateSub \/ SQLSubsFlush \/ FlusherTakes \/ FlusherFlushes \/ SQLSubRestart
    \/ \E id \in DOMAIN sqlSubs :
          \/ SQLUpdateSub(id) \/ SQLDeleteSub(id)
          \/ \E seq \in 1 .. SSMaxSeq : SQLAddSeqPending(id, seq)
          \/ \E seq \in sqlSubs[id].pending : SQLAckSeqPending(id, seq)

SQLSubSpec == SQLSubInit /\ [][SQLSubNext]_sqlSubVars

-----------------------------------------------------------------------------
\* No subscription ID is given twice, whatever was deleted before a restart
\* (DeleteSub only marks the row with the highest ID).
SQLSubTypeOK ==
    /\ ss.maxSubID = maxID
    /\ flusher \in {"idle", "listed", "taken"}
    /\ DOMAIN ss.cache \subseteq DOMAIN sqlSubs /\ DOMAIN sqlSubs \subseteq DOMAIN dbSubs

\* A store with something to flush is in the list of the flusher, or the flusher
\* has taken it and will flush it (scheduleSubStoreFlush against
\* subStoresFlusher): no pending message or ack waits in the cache for ever. The
\* one exception is a flush that failed: the store is not listed again until the
\* server itself flushes it.
FlushScheduled == ss.needsFlush => flusher # "idle" \/ ssFailed

\* The SQL store of the subscriptions is a subscription store, with a crash at
\* any point. But a crash may lose a pending message in three cases: it was just
\* redelivered to another member (ackSeq deletes the row of the first one), it was
\* in the cache when UpdateSub wrote a last sequence sent above it, both until the
\* next flush, or a flush was rolled back after it emptied the cache.
SQLSubAbs == INSTANCE SubStore WITH
    subs <- sqlSubs, safe <- ssSafe, since <- ssSince, undeleted <- {}, exposed <- ssExposed
SQLImplementsSubStore == SQLSubAbs!Spec
=============================================================================
