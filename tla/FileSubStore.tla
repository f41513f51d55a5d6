---------------------------- MODULE FileSubStore ----------------------------
(* The subscription store of one channel in the file store                   *)
(* (stores/filestore.go, type FileSubStore): a file of records written       *)
(* through a buffer, replayed on recovery and compacted when too many of its *)
(* records are of no use any more.                                           *)
EXTENDS Integers, Sequences, SequencesExt, FiniteSets, Helpers

CONSTANTS FSMaxSubs,      \* bound: subscriptions ever created
          FSMaxSeq,       \* bound: sequences sent
          FSMaxRecs,      \* bound: records written
          FSMaxCrashes,   \* bound: crashes and restarts
          FSBufferSize,   \* how many records the buffer takes
          Fragmentation,  \* CompactFragmentation, in percent
          MaxSubscriptions

VARIABLES fss,       \* the FileSubStore
          subsFile,  \* the records in the file
          subsBuf,   \* the records in the buffer
          subsSynced, \* how many records of the file were synced
          subsRecs, subsCrashes,
          subsSent,  \* the last sequence the server sent to the group
          subsSafe, subsSince, \* the subscriptions at the last Flush, and since
          subsUndeleted \* auxiliary: deleted in memory, but the file does not say so

fileSubVars == <<fss, subsFile, subsBuf, subsSynced, subsRecs, subsCrashes, subsSent,
                 subsSafe, subsSince, subsUndeleted>>

NewSubStore == [subs |-> EmptyFcn, maxSubID |-> 0, numRecs |-> 0, delRecs |-> 0]

FileSubInit ==
    /\ fss = NewSubStore /\ subsFile = <<>> /\ subsBuf = <<>> /\ subsSynced = 0 /\ subsSent = 0
    /\ subsSafe = {} /\ subsSince = {} /\ subsRecs = 0 /\ subsCrashes = 0 /\ subsUndeleted = {}

-----------------------------------------------------------------------------
\* What one record does in recoverSubscriptions.
Recovered1(ss, r) ==
    LET known == r.id \in DOMAIN ss.subs
        bumped == [ss EXCEPT !.maxSubID = Larger(@, r.id)]
    IN CASE r.type = "new" ->
              [bumped EXCEPT !.subs = With(@, r.id, [last |-> r.seq, pending |-> {}]), !.numRecs = @ + 1]
         [] r.type = "update" ->
              IF known THEN [bumped EXCEPT !.subs[r.id].last = r.seq, !.numRecs = @ + 1, !.delRecs = @ + 1]
              ELSE [bumped EXCEPT !.subs = With(@, r.id, [last |-> r.seq, pending |-> {}]), !.numRecs = @ + 1]
         [] r.type = "del" ->
              [bumped EXCEPT !.subs = Without(@, {r.id}),
                             !.delRecs = IF known THEN @ + 1 + Cardinality(ss.subs[r.id].pending) ELSE @]
         [] r.type = "msg" ->
              IF known THEN [ss EXCEPT !.subs[r.id] = [last |-> Larger(@.last, r.seq), pending |-> @.pending \cup {r.seq}],
                                       !.numRecs = @ + 1]
              ELSE ss
         [] OTHER ->
              IF known THEN [ss EXCEPT !.subs[r.id].pending = @ \ {r.seq}, !.delRecs = @ + 1] ELSE ss

recoverSubscriptions(recs) == FoldLeft(Recovered1, NewSubStore, recs)

\* writeRecord counts the record.
Counted1(ss, type) ==
    [ss EXCEPT !.numRecs = IF type \in {"new", "msg", "update"} THEN @ + 1 ELSE @,
               !.delRecs = IF type \in {"ack", "update", "del"} THEN @ + 1 ELSE @]

SubRec(type, id, seq) == [type |-> type, id |-> id, seq |-> seq]

\* A call that wrote a record, or failed to.
CanWrite ==
    /\ subsRecs < FSMaxRecs
    /\ subsRecs' = subsRecs + 1
    /\ subsSince' = subsSince \cup DOMAIN fss'.subs
    /\ UNCHANGED <<subsSafe, subsCrashes>>

\* The buffer goes to the file when it is full.
WrittenOver(recs) ==
    /\ subsBuf' = IF Len(subsBuf) < FSBufferSize THEN subsBuf \o recs ELSE recs
    /\ UNCHANGED <<subsFile, subsSynced>>
Written(recs) ==
    /\ IF Len(subsBuf) < FSBufferSize
       THEN subsBuf' = subsBuf \o recs /\ UNCHANGED subsFile
       ELSE subsFile' = subsFile \o subsBuf /\ subsBuf' = recs
    /\ UNCHANGED subsSynced

\* shouldCompact also says no when compaction is off, the file is small or the
\* last compaction was not long ago.
shouldCompact(ss) ==
    (IF ss.numRecs = 0 THEN 100 ELSE (ss.delRecs * 100) \div ss.numRecs) >= Fragmentation

\* The records compact writes: every subscription with its pending messages.
CompactedSubs(ss) ==
    FoldLeft(LAMBDA recs, id : Append(recs, SubRec("new", id, ss.subs[id].last)), <<>>,
             SetToSeq(DOMAIN ss.subs))
CompactedRecs(ss) ==
    LET Of(id) == <<SubRec("new", id, ss.subs[id].last)>> \o
                  SetToSeq({SubRec("msg", id, seq) : seq \in ss.subs[id].pending})
    IN FoldLeft(LAMBDA recs, id : recs \o Of(id), <<>>, SetToSeq(DOMAIN ss.subs))

\* The record is written, if it can be, then the file may be compacted: it is
\* closed, which flushes and syncs it, and replaced if the compaction succeeds.
WrittenAndCompacted(recs, ss, undeleted) ==
    \/ Written(recs) /\ fss' = ss /\ subsUndeleted' = undeleted
    \/ /\ shouldCompact(ss)
       /\ subsBuf' = <<>>
       /\ \/ /\ subsFile' = subsFile \o subsBuf \o recs
             /\ fss' = ss /\ subsUndeleted' = undeleted
          \/ /\ subsFile' = CompactedRecs(ss)
             /\ fss' = [ss EXCEPT !.numRecs = Len(subsFile'), !.delRecs = 0]
             /\ subsUndeleted' = {}
       /\ subsSynced' = Len(subsFile')

\* If the record cannot be written only the ID is gone.
FSCreateSub ==
    LET id == fss.maxSubID + 1
    IN /\ id <= FSMaxSubs /\ Cardinality(DOMAIN fss.subs) < MaxSubscriptions
       /\ \/ /\ fss' = [Counted1(fss, "new") EXCEPT !.maxSubID = id,
                                          !.subs = With(@, id, [last |-> 0, pending |-> {}])]
             /\ Written(<<SubRec("new", id, 0)>>)
          \/ fss' = [fss EXCEPT !.maxSubID = id] /\ UNCHANGED <<subsFile, subsBuf, subsSynced>>
       /\ CanWrite /\ UNCHANGED <<subsSent, subsUndeleted>>

\* The server updates a subscription it knows, with the last sequence it sent.
\* Here and for a pending message or an ack, a record that cannot be written
\* leaves everything as it is.
FSUpdateSub(id) ==
    /\ Written(<<SubRec("update", id, fss.subs[id].last)>>)
    /\ fss' = Counted1(fss, "update")
    /\ CanWrite /\ UNCHANGED <<subsSent, subsUndeleted>>

\* The subscription goes even if the record cannot be written.
FSDeleteSub(id) ==
    LET Gone(ss) == [ss EXCEPT !.subs = Without(@, {id}),
                               !.delRecs = @ + Cardinality(fss.subs[id].pending)]
    IN /\ \/ WrittenAndCompacted(<<SubRec("del", id, 0)>>, Gone(Counted1(fss, "del")), subsUndeleted)
          \/ WrittenAndCompacted(<<>>, Gone(fss), subsUndeleted \cup {id})
       /\ CanWrite /\ UNCHANGED subsSent

FSAddSeqPending(id, seq) ==
    /\ SentTo(fss.subs, subsSent, id, seq) /\ subsSent' = Larger(subsSent, seq)
    /\ Written(<<SubRec("msg", id, seq)>>)
    /\ fss' = [Counted1(fss, "msg") EXCEPT
                 !.subs[id] = [last |-> Larger(@.last, seq), pending |-> @.pending \cup {seq}]]
    /\ CanWrite /\ UNCHANGED subsUndeleted

FSAckSeqPending(id, seq) ==
    /\ WrittenAndCompacted(<<SubRec("ack", id, seq)>>,
          [Counted1(fss, "ack") EXCEPT !.subs[id].pending = @ \ {seq}], subsUndeleted)
    /\ CanWrite /\ UNCHANGED subsSent

\* Flush, autoSync and the close of an unused file: with something written since
\* the last one the file is synced.
FSFlush ==
    /\ subsFile' = subsFile \o subsBuf /\ subsBuf' = <<>> /\ subsSynced' = Len(subsFile')
    /\ subsSafe' = DOMAIN fss.subs /\ subsSince' = DOMAIN fss.subs \cup subsUndeleted
    /\ UNCHANGED <<fss, subsRecs, subsCrashes, subsSent, subsUndeleted>>

shrinkBuffer ==
    /\ subsBuf # <<>>
    /\ subsFile' = subsFile \o subsBuf /\ subsBuf' = <<>>
    /\ UNCHANGED <<fss, subsSynced, subsRecs, subsCrashes, subsSent, subsSafe, subsSince, subsUndeleted>>

\* A crash leaves what was synced, and any part of what follows, a buffer being
\* flushed included; a record cut in two is truncated by the recovery. Close
\* flushes first.
FSRestart(recs) ==
    /\ subsCrashes < FSMaxCrashes
    /\ subsCrashes' = subsCrashes + 1
    /\ subsFile' = recs /\ subsBuf' = <<>> /\ subsSynced' = Len(recs)
    /\ fss' = recoverSubscriptions(recs) /\ subsSent' = RecoveredLastSent(fss'.subs)
    /\ subsSafe' = DOMAIN fss'.subs /\ subsSince' = subsSafe' /\ subsUndeleted' = {}
    /\ UNCHANGED subsRecs

FSCrash ==
    \E n \in subsSynced .. Len(subsFile \o subsBuf) : FSRestart(SubSeq(subsFile \o subsBuf, 1, n))
FSClose == FSRestart(subsFile \o subsBuf)

FileSubNext ==
    \/ FSCreateSub \/ FSFlush \/ shrinkBuffer \/ FSCrash \/ FSClose
    \/ \E id \in DOMAIN fss.subs :
          \/ FSUpdateSub(id) \/ FSDeleteSub(id)
          \/ \E seq \in 1 .. FSMaxSeq : FSAddSeqPending(id, seq)
          \/ \E seq \in fss.subs[id].pending : FSAckSeqPending(id, seq)

FileSubSpec == FileSubInit /\ [][FileSubNext]_fileSubVars

-----------------------------------------------------------------------------
FileSubTypeOK ==
    /\ \A id \in DOMAIN fss.subs : id \in 1 .. FSMaxSubs /\ fss.subs[id].pending \subseteq 1 .. FSMaxSeq
    /\ Len(subsBuf) <= FSBufferSize /\ subsSynced \in 0 .. Len(subsFile)

\* The file and the buffer together always replay to what the store holds in
\* memory, through updates, deletions, compactions that succeed or fail and
\* earlier recoveries (recoverSubscriptions against the handlers). All they may
\* have more is a subscription whose deletion could not be written.
ReplayIsMemory ==
    LET replayed == recoverSubscriptions(subsFile \o subsBuf).subs
    IN /\ DOMAIN fss.subs \subseteq DOMAIN replayed
       /\ DOMAIN replayed \subseteq DOMAIN fss.subs \cup subsUndeleted
       /\ \A id \in DOMAIN fss.subs : replayed[id] = fss.subs[id]

\* The file store of the subscriptions is a subscription store, with a crash at
\* any point and writes that fail. Only a subscription whose deletion could not
\* be written may come back after a Flush (DeleteSub).
FileSubAbs == INSTANCE SubStore WITH
    subs <- fss.subs, safe <- subsSafe, since <- subsSince,
    undeleted <- subsUndeleted, exposed <- {}
FileImplementsSubStore == FileSubAbs!Spec
=============================================================================
