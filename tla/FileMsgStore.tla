---------------------------- MODULE FileMsgStore ----------------------------
(* The file message store of one channel (stores/filestore.go, type          *)
(* FileMsgStore): messages in numbered slices, each one a data file and an   *)
(* index file, written through a buffer. A record is one position of its     *)
(* data file and an index record one position of its index file, so an       *)
(* offset is a position. Every method runs under the store's lock and is one *)
(* action; the two closing callbacks of the files manager run without it and *)
(* are actions of their own. DoSync is on, as it is by default.              *)
EXTENDS Integers, Sequences, FiniteSets, FiniteSetsExt, SequencesExt, Helpers

CONSTANTS FileMaxPubs,     \* bound: calls of Store
          FileMaxCrashes,  \* bound: crashes and restarts
          Gaps,            \* how many sequences a Store may skip, a set
          SliceMaxMsgs,    \* slCountLim
          FileMaxMsgs,     \* limits.MaxMsgs, 0 for none
          BufferSize,      \* records the buffered writer holds, 0 for no buffer
          ReadAhead,       \* index records one readAheadMsgs reads, 0 for none
          Closes,          \* what the files manager may close of the write slice at a time
          Damage           \* what a crash may do besides losing what was not synced

ASSUME FileAssumption ==
    /\ FileMaxPubs \in Nat /\ FileMaxCrashes \in Nat /\ Gaps \subseteq Nat
    /\ SliceMaxMsgs \in Nat /\ FileMaxMsgs \in Nat /\ BufferSize \in Nat
    /\ ReadAhead \in Nat
    /\ Closes \subseteq {"both", "dat", "idx"}
    /\ Damage \subseteq {"orphan", "ahead", "zero", "torn"}

VARIABLES ms,       \* the FileMsgStore
          disk,     \* slice number -> its files
          fileUp,   \* the server runs
          flushed,  \* the last sequence a Flush covered
          pubs,     \* messages given to Store; the last one's identity
          crashes,
          seen      \* auxiliary: what the store answers (Answers)

fileVars == <<ms, disk, fileUp, flushed, pubs, crashes, seen>>

NoMsg == 0                                  \* Lookup found nothing, or a filled gap
Rec(seq, msg, ts) == [seq |-> seq, msg |-> msg, ts |-> ts]
Zero == Rec(0, NoMsg, 0)                    \* zeroes where a record should be
Torn == Rec(-1, NoMsg, 0)                   \* part of a record
Good(r) == r.seq > 0
\* Two messages in a row share a timestamp, and so does a filled gap with the
\* message stored after it.
TimeOf(msg) == (msg + 1) \div 2

NoSlice == [firstSeq |-> 0, lastSeq |-> 0, msgsCount |-> 0, rmCount |-> 0]
NoFile == [dat |-> <<>>, idx |-> <<>>, hasIdx |-> FALSE, datSync |-> 0, idxSync |-> 0]
\* filled is auxiliary: the last Store filled a gap.
NewStore ==
    [first |-> 0, last |-> 0, totalCount |-> 0,
     files |-> [n \in {} |-> NoSlice], firstFSlSeq |-> 0, lastFSlSeq |-> 0, writeSlice |-> 0,
     opened |-> FALSE, buf |-> <<>>, bufferedMsgs |-> <<>>, wOffset |-> 1,
     cache |-> [q \in {} |-> NoMsg], firstMsg |-> NoMsg, lastMsg |-> NoMsg,
     expiration |-> FALSE, nextExpiration |-> FALSE, bkgTasksWake |-> FALSE,
     needSync |-> FALSE, filled |-> FALSE]

-----------------------------------------------------------------------------
(* The files. A state of the store is s = [m |-> memory, d |-> disk].        *)

\* lockFiles on the write slice: a data file that had been closed gets a new
\* writer, positioned at the end of the file (setFile).
LockFiles(s) ==
    IF s.m.opened \/ s.m.writeSlice = 0 THEN s
    ELSE [s EXCEPT !.m.opened = TRUE, !.m.buf = <<>>,
                   !.m.wOffset = Len(s.d[s.m.writeSlice].dat) + 1]

FlushBuf(s) == [s EXCEPT !.d[s.m.writeSlice].dat = @ \o s.m.buf, !.m.buf = <<>>]

IndexOf(recs, off) ==
    [i \in DOMAIN recs |-> [seq |-> recs[i].seq, off |-> off + i, ts |-> recs[i].ts]]

\* The index records of the messages that were buffered.
processBufferedMsgs(s) ==
    [s EXCEPT !.d[s.m.writeSlice].idx = @ \o [i \in DOMAIN s.m.bufferedMsgs |->
                                                 s.m.bufferedMsgs[i].index],
              !.m.bufferedMsgs = <<>>]

SyncDat(s) == [s EXCEPT !.d[s.m.writeSlice].datSync = Len(s.d[s.m.writeSlice].dat)]
SyncIdx(s) == [s EXCEPT !.d[s.m.writeSlice].idxSync = Len(s.d[s.m.writeSlice].idx)]

\* The callbacks the files manager runs before it closes the write slice.
beforeDataFileCloseCb(s) == SyncDat(FlushBuf(s))
beforeIndexFileCloseCb(s) == SyncIdx(processBufferedMsgs(s))

\* The files are synced if something was stored since the last sync.
flush(s) ==
    Let(processBufferedMsgs(FlushBuf(s)), LAMBDA t :
        IF t.m.needSync THEN [SyncIdx(SyncDat(t)) EXCEPT !.m.needSync = FALSE] ELSE t)

\* closeLockedFiles on the write slice.
closeLockedFiles(s) ==
    [beforeIndexFileCloseCb(beforeDataFileCloseCb(s)) EXCEPT !.m.opened = FALSE]

-----------------------------------------------------------------------------
(* Reading.                                                                  *)

getFileSliceForSeq(m, seq) ==
    LET in == {n \in DOMAIN m.files : m.files[n].firstSeq <= seq /\ seq <= m.files[n].lastSeq}
    IN IF in = {} THEN 0 ELSE IF m.writeSlice \in in THEN m.writeSlice ELSE Min(in)

\* Where the index record of seq should be.
IndexPosFromFirst(slice, seq) == seq - slice.firstSeq + 1
IndexPos(slice, seq) == seq - slice.firstSeq + slice.rmCount + 1

\* The position of the index record of seq, searched backwards from where it
\* should be (readMsgIndex, backtrackIndex); 0 if there is none.
readMsgIndex(slice, idx, seq) ==
    Let(Min({IndexPos(slice, seq), Len(idx)}), LAMBDA p :
        Max({0} \cup {q \in 1 .. p : /\ idx[q].seq = seq
                                    /\ \A r \in q + 1 .. p : idx[r].seq > seq}))

Buffered(m, seq) == {i \in DOMAIN m.bufferedMsgs : m.bufferedMsgs[i].index.seq = seq}

\* getMsgIndex: a record with the timestamp, or one with ts = -1 if not found.
getMsgIndex(s, n, seq) ==
    LET b == Buffered(s.m, seq)
        p == readMsgIndex(s.m.files[n], s.d[n].idx, seq)
    IN IF b # {} THEN s.m.bufferedMsgs[Max(b)].index
       ELSE IF p # 0 THEN s.d[n].idx[p]
       ELSE [seq |-> seq, off |-> 0, ts |-> -1]

RecordAt(dat, off) == IF off \in DOMAIN dat /\ Good(dat[off]) THEN dat[off] ELSE Zero

\* readAheadMsgs reads k index records, then as many data records starting at
\* the offset of the first one. It fails if the index or the data is short, or
\* an index record is not for the next sequence.
ReadAheadCount(slice, seq) == Min({ReadAhead, slice.lastSeq - seq + 1})
CanReadAhead(slice, f, seq) ==
    LET p == IndexPos(slice, seq)
        k == ReadAheadCount(slice, seq)
    IN /\ ReadAhead > 0 /\ seq # slice.lastSeq
       /\ p + k - 1 <= Len(f.idx)
       /\ \A i \in 0 .. k - 1 : f.idx[p + i].seq = seq + i
       /\ \A i \in 0 .. k - 1 : Good(RecordAt(f.dat, f.idx[p].off + i))
readAheadMsgs(slice, f, seq) ==
    [q \in seq .. seq + ReadAheadCount(slice, seq) - 1 |->
        f.dat[f.idx[IndexPos(slice, seq)].off + (q - seq)].msg]

readMsgRecord(slice, f, seq) ==
    Let(readMsgIndex(slice, f.idx, seq), LAMBDA p :
        IF p # 0 /\ Good(RecordAt(f.dat, f.idx[p].off))
        THEN [q \in {seq} |-> f.dat[f.idx[p].off].msg] ELSE [q \in {} |-> NoMsg])

\* What lookup reads when the message is not in memory, by sequence.
ReadFromDisk(s, seq) ==
    Let(getFileSliceForSeq(s.m, seq), LAMBDA n :
        IF n = 0 THEN [q \in {} |-> NoMsg]
        ELSE IF CanReadAhead(s.m.files[n], s.d[n], seq)
             THEN readAheadMsgs(s.m.files[n], s.d[n], seq)
             ELSE readMsgRecord(s.m.files[n], s.d[n], seq))

\* The messages lookup(seq) adds to the cache.
Fetched(s, seq) ==
    LET b == Buffered(s.m, seq)
    IN IF seq \in DOMAIN s.m.cache THEN [q \in {} |-> NoMsg]
       ELSE IF b # {} THEN [q \in {seq} |-> s.m.bufferedMsgs[Max(b)].msg]
       ELSE ReadFromDisk(s, seq)

lookup(s, seq) ==
    IF seq < s.m.first \/ seq > s.m.last THEN NoMsg
    ELSE IF seq \in DOMAIN s.m.cache THEN s.m.cache[seq]
    ELSE Let(Fetched(s, seq), LAMBDA f : IF seq \in DOMAIN f THEN f[seq] ELSE NoMsg)

\* The first sequence whose timestamp is not below timestamp, from the first
\* and last messages if they are kept, else from the index files.
SeqInSlice(s, n, timestamp) ==
    LET slice == s.m.files[n]
        At(q) == getMsgIndex(s, n, q).ts
        in == {q \in slice.firstSeq + 1 .. slice.lastSeq - 1 : At(q) >= timestamp}
    IN IF timestamp <= At(slice.firstSeq) THEN slice.firstSeq
       ELSE IF timestamp = At(slice.lastSeq) \/ in = {} THEN slice.lastSeq ELSE Min(in)
GetSequenceFromTimestamp(s, timestamp) ==
    LET m == s.m
        in == {n \in DOMAIN m.files : timestamp <= getMsgIndex(s, n, m.files[n].lastSeq).ts}
    IN IF m.first = 0 THEN 0
       ELSE IF m.first > m.last THEN m.last + 1
       ELSE IF m.firstMsg # NoMsg /\ timestamp <= TimeOf(m.firstMsg) THEN m.first
       ELSE IF m.lastMsg # NoMsg /\ timestamp = TimeOf(m.lastMsg) THEN m.last
       ELSE IF (m.lastMsg # NoMsg /\ timestamp > TimeOf(m.lastMsg)) \/ in = {} THEN m.last + 1
       ELSE SeqInSlice(s, Min(in), timestamp)

-----------------------------------------------------------------------------
(* Removing.                                                                 *)

removeFirstSlice(s) ==
    LET files == Without(s.m.files, {s.m.firstFSlSeq})
    IN [m |-> [s.m EXCEPT !.files = files, !.firstFSlSeq = Min(DOMAIN files)],
        d |-> Without(s.d, {s.m.firstFSlSeq})]

\* first moves on. With nothing left there is no last message either.
NextFirst(m) ==
    [m EXCEPT !.first = @ + 1, !.firstMsg = NoMsg,
              !.lastMsg = IF m.first + 1 > m.last THEN NoMsg ELSE @]

skipMissingMsg(s, n) ==
    [s EXCEPT !.m = [NextFirst(@) EXCEPT !.files[n].firstSeq = s.m.first + 1]]

RemoveIndexed(s) ==
    LET n == s.m.firstFSlSeq
        slice == s.m.files[n]
        m == [NextFirst(s.m) EXCEPT !.totalCount = @ - 1, !.files[n].rmCount = @ + 1]
        t == [s EXCEPT !.m = m]
    IN IF slice.msgsCount = slice.rmCount + 1 /\ Cardinality(DOMAIN m.files) > 1
       THEN removeFirstSlice(t)
       ELSE [t EXCEPT !.m.files[n].firstSeq = m.first]

\* removeFirstMsg without an index record: the first one of the first slice.
removeFirstMsg(s) ==
    LET n == s.m.firstFSlSeq
        first == s.m.files[n].firstSeq
    IN Let([s EXCEPT !.m.first = first], LAMBDA t :
         IF getMsgIndex(t, n, first).ts = -1 THEN skipMissingMsg(t, n) ELSE RemoveIndexed(t))

RECURSIVE enforceLimits(_)
enforceLimits(s) ==
    IF s.m.totalCount > 1 /\ FileMaxMsgs > 0 /\ s.m.totalCount > FileMaxMsgs
    THEN Let(removeFirstMsg(s), LAMBDA t : enforceLimits(t)) ELSE s

\* Everything with a timestamp up to cut is too old.
RECURSIVE expireMsgs(_, _)
expireMsgs(s, cut) ==
    LET n == getFileSliceForSeq(s.m, s.m.first)
        slice == IF n = 0 THEN s.m.firstFSlSeq ELSE n
        first == IF n = 0 THEN s.m.files[slice].firstSeq ELSE s.m.first
        t == [s EXCEPT !.m.first = first]
        ts == getMsgIndex(s, slice, first).ts
    IN IF s.m.first = 0 \/ s.m.first > s.m.last THEN [s EXCEPT !.m.expiration = FALSE]
       ELSE IF ts > cut THEN [t EXCEPT !.m.expiration = TRUE]
       ELSE Let(IF ts = -1 THEN skipMissingMsg(t, slice) ELSE RemoveIndexed(t),
                LAMBDA u : expireMsgs(u, cut))

-----------------------------------------------------------------------------
(* Storing.                                                                  *)

\* One more message in the write slice: the counters.
Counted(m, seq) ==
    LET n == m.writeSlice
    IN [m EXCEPT !.last = seq, !.totalCount = @ + 1, !.wOffset = @ + 1,
                 !.files[n].msgsCount = @ + 1, !.files[n].lastSeq = seq,
                 !.files[n].firstSeq = IF @ = 0 THEN seq ELSE @]

\* The sequences below seq that were never stored get an empty message,
\* written to the files without the buffer.
RECURSIVE fillGaps(_, _, _)
fillGaps(s, seq, ts) ==
    LET n == s.m.writeSlice
        gap == s.m.last + 1
    IN IF gap = seq THEN s
       ELSE Let([m |-> [Counted(s.m, gap) EXCEPT !.lastMsg = NoMsg],
                 d |-> [s.d EXCEPT ![n].dat = Append(@, Rec(gap, NoMsg, ts)),
                                   ![n].idx = Append(@, [seq |-> gap, off |-> s.m.wOffset,
                                                         ts |-> ts])]],
                LAMBDA t : fillGaps(t, seq, ts))

NeedNewSlice(m) ==
    \/ m.writeSlice = 0
    \/ SliceMaxMsgs > 0 /\ m.files[m.writeSlice].msgsCount >= SliceMaxMsgs

\* Close the write slice and go on with the next one, whose files may be there
\* already, with nothing in them. An emptied first slice, kept as long as it
\* was the only one, goes now.
NewSlice(s) ==
    LET n == s.m.lastFSlSeq + 1
        c == IF s.m.writeSlice = 0 THEN s ELSE closeLockedFiles(s)
        t == [m |-> [c.m EXCEPT !.files = With(@, n, NoSlice), !.writeSlice = n,
                                !.firstFSlSeq = IF @ = 0 THEN n ELSE @, !.lastFSlSeq = n,
                                !.opened = TRUE, !.buf = <<>>, !.wOffset = 1],
              d |-> With(c.d, n, IF n \in DOMAIN c.d THEN [c.d[n] EXCEPT !.hasIdx = TRUE]
                                 ELSE [NoFile EXCEPT !.hasIdx = TRUE])]
        old == s.m.files[s.m.writeSlice]
    IN IF Cardinality(DOMAIN t.m.files) = 2 /\ old.msgsCount = old.rmCount
       THEN removeFirstSlice(t) ELSE t

\* Write the record, and its index record unless the record is only buffered.
\* A message that does not fit in the buffer flushes it, and one larger than
\* the buffer is written directly.
WriteMsg(s, seq, msg, big) ==
    LET n == s.m.writeSlice
        full == BufferSize > 0 /\ (big \/ Len(s.m.buf) = BufferSize)
        t == IF full THEN processBufferedMsgs(FlushBuf(s)) ELSE s
        r == Rec(seq, msg, TimeOf(msg))
        i == [seq |-> seq, off |-> s.m.wOffset, ts |-> r.ts]
    IN IF BufferSize = 0 \/ big
       THEN [t EXCEPT !.d[n].dat = Append(@, r), !.d[n].idx = Append(@, i)]
       ELSE [t EXCEPT !.m.buf = Append(@, r),
                      !.m.bufferedMsgs = Append(@, [msg |-> msg, index |-> i])]

\* The first message there is arms the expiration and wakes the background
\* tasks up.
StoredNoWakeUp(m, seq, msg) ==
    LET isFirst == m.first = 0 \/ m.first = seq
    IN [Counted(m, seq) EXCEPT !.first = IF isFirst THEN seq ELSE @,
                               !.firstMsg = IF isFirst THEN msg ELSE @,
                               !.expiration = @ \/ isFirst,
                               !.lastMsg = msg, !.cache = With(@, seq, msg)]
Stored(m, seq, msg) ==
    LET isFirst == m.first = 0 \/ m.first = seq
    IN [Counted(m, seq) EXCEPT !.first = IF isFirst THEN seq ELSE @,
                               !.firstMsg = IF isFirst THEN msg ELSE @,
                               !.expiration = @ \/ isFirst,
                               !.bkgTasksWake = @ \/ isFirst,
                               !.lastMsg = msg, !.cache = With(@, seq, msg)]

\* needSync is set before the gap is filled, which starts with a flush that
\* clears it: what is written after a gap waits for the sync of a later Store.
StoreMsg(s, seq, msg, big) ==
    LET gap == s.m.last > 0 /\ seq > s.m.last + 1
        o == [LockFiles(s) EXCEPT !.m.needSync = TRUE, !.m.filled = gap]
    IN Let(IF gap THEN flush(o) ELSE o, LAMBDA l :
       Let(IF gap THEN fillGaps(l, seq, TimeOf(msg)) ELSE l, LAMBDA g :
       Let(IF NeedNewSlice(g.m) THEN NewSlice(g) ELSE g, LAMBDA n :
       Let(WriteMsg(n, seq, msg, big), LAMBDA w :
       Let([w EXCEPT !.m = Stored(@, seq, msg)], LAMBDA t : enforceLimits(t))))))

-----------------------------------------------------------------------------
(* Recovery.                                                                 *)

\* How many records can be read from the start of a file.
GoodLen(recs) == Max({i \in 0 .. Len(recs) : \A j \in 1 .. i : Good(recs[j])})
After(recs) == IF GoodLen(recs) = Len(recs) THEN "EOF"
               ELSE IF recs[GoodLen(recs) + 1] = Torn THEN "torn" ELSE "rewind"
Readable(recs) == SubSeq(recs, 1, GoodLen(recs))

\* The index file is used if it can be read and its last record is the one of
\* the message at that place of the data file.
ensureLastMsgAndIndexMatch(f) ==
    LET i == f.idx[GoodLen(f.idx)] IN RecordAt(f.dat, i.off).seq = i.seq
IndexUsable(f) ==
    f.hasIdx /\ After(f.idx) # "torn" /\ GoodLen(f.idx) > 0 /\ ensureLastMsgAndIndexMatch(f)

\* Otherwise the index is written again from the data file, which is truncated
\* after what can be read: always if zeroes follow, and if part of a record
\* follows when TruncateUnexpectedEOF is set. If the index file was there and
\* empty it is the one truncated instead of the data file, and the records that
\* were to be written to it are lost with its handle.
RebuildFails(f, trunc) ==
    LET wrongFile == f.hasIdx /\ f.idx = <<>>
    IN \/ After(f.dat) = "torn" /\ ~trunc
       \/ After(f.dat) # "EOF" /\ wrongFile /\ GoodLen(f.dat) > 0
Rebuilt(f) ==
    [f EXCEPT !.dat = IF f.hasIdx /\ f.idx = <<>> THEN @ ELSE Readable(@),
              !.idx = IndexOf(Readable(f.dat), 0), !.hasIdx = TRUE]
RecoverFails(d, trunc) ==
    {n \in DOMAIN d : ~IndexUsable(d[n]) /\ RebuildFails(d[n], trunc)}
RecoveredFile(f) ==
    LET g == IF IndexUsable(f) THEN [f EXCEPT !.idx = Readable(@)] ELSE Rebuilt(f)
    IN [g EXCEPT !.datSync = Len(g.dat), !.idxSync = Len(g.idx)]

\* recoverOneMsgFile: a slice with messages; the others stay on disk only.
RecoveredSlice(f) ==
    [firstSeq |-> Head(f.idx).seq, lastSeq |-> Last(f.idx).seq,
     msgsCount |-> Len(f.idx), rmCount |-> 0]

\* newFileMsgStore: the store recovered from the files.
Recovered(d) ==
    Let([n \in DOMAIN d |-> RecoveredFile(d[n])], LAMBDA all :
    LET some == {n \in DOMAIN all : all[n].idx # <<>>}
        files == [n \in some |-> RecoveredSlice(all[n])]
        m == [NewStore EXCEPT !.first = Min({files[n].firstSeq : n \in some}),
                              !.last = Max({files[n].lastSeq : n \in some}),
                              !.totalCount = MapThenSumSet(LAMBDA n : files[n].msgsCount, some),
                              !.files = files, !.firstFSlSeq = Min(some),
                              !.lastFSlSeq = Max(some), !.writeSlice = Max(some)]
    IN Let([m |-> IF some = {} THEN NewStore ELSE m, d |-> all], LAMBDA s : enforceLimits(s)))

-----------------------------------------------------------------------------
(* The actions.                                                              *)

FileInit ==
    /\ ms = NewStore /\ disk = [n \in {} |-> NoFile] /\ fileUp = TRUE
    /\ flushed = 0 /\ pubs = 0 /\ crashes = 0
    /\ seen = [first |-> 0, last |-> 0, found |-> [q \in {} |-> NoMsg]]

Cur == [m |-> ms, d |-> disk]

\* FirstAndLastSequence and Lookup; while down, what they will answer. Two
\* kinds of Lookup are taken at what the store holds: a message whose index
\* record was written by closing the index file alone, which Lookup fails to
\* read as long as the record is in the buffer (Hidden); and the messages of a
\* data file in which a crash left a record without index, where reading ahead
\* takes that record for the next message (Misaligned).
Hidden(s, seq) ==
    {i \in DOMAIN s.m.buf : s.m.buf[i].seq = seq /\ Buffered(s.m, seq) = {}}
Misaligned(f) ==
    \E i \in 1 .. Len(f.idx) : f.idx[i].off # (IF i = 1 THEN 1 ELSE f.idx[i - 1].off + 1)
Answer(s, seq) ==
    LET n == getFileSliceForSeq(s.m, seq)
        h == Hidden(s, seq)
    IN IF h # {} THEN s.m.buf[Max(h)].msg
       ELSE IF n # 0 /\ Misaligned(s.d[n]) /\ Buffered(s.m, seq) = {}
            THEN Let(readMsgRecord(s.m.files[n], s.d[n], seq), LAMBDA f :
                     IF seq \in DOMAIN f THEN f[seq] ELSE NoMsg)
       ELSE lookup(s, seq)
Answers ==
    Let(IF fileUp THEN Cur ELSE Recovered(disk), LAMBDA s :
        [first |-> s.m.first, last |-> s.m.last,
         found |-> [q \in s.m.first .. s.m.last \ {0} |-> Answer(s, q)]])
Becomes(s) == \E t \in {s} : ms' = t.m /\ disk' = t.d

\* A sequence that was seen before changes nothing.
FileStoreMsg(gap, big) ==
    /\ fileUp /\ pubs < FileMaxPubs
    /\ pubs' = pubs + 1
    /\ Becomes(StoreMsg(Cur, ms.last + 1 + gap, pubs + 1, big))
    /\ UNCHANGED <<fileUp, flushed, crashes>>

\* A message read from the write slice opens its files.
LookedUp(s, seq) ==
    LET f == Fetched(s, seq)
        fromDisk == seq \notin DOMAIN s.m.cache /\ Buffered(s.m, seq) = {}
        t == IF fromDisk /\ getFileSliceForSeq(s.m, seq) = s.m.writeSlice THEN LockFiles(s) ELSE s
    IN [t EXCEPT !.m.cache = [q \in (DOMAIN @) \cup DOMAIN f |->
                                IF q \in DOMAIN @ THEN @[q] ELSE f[q]]]

FileLookup(seq) ==
    /\ fileUp /\ seq \in ms.first .. ms.last
    /\ Becomes(LookedUp(Cur, seq))
    /\ UNCHANGED <<fileUp, flushed, pubs, crashes>>

\* FirstMsg and LastMsg keep the message they looked up.
FileFirstLastMsg ==
    /\ fileUp /\ ms.first <= ms.last /\ ms.first > 0
    /\ \/ /\ ms.firstMsg = NoMsg
          /\ Becomes([LookedUp(Cur, ms.first) EXCEPT !.m.firstMsg = lookup(Cur, ms.first)])
       \/ /\ ms.lastMsg = NoMsg
          /\ Becomes([LookedUp(Cur, ms.last) EXCEPT !.m.lastMsg = lookup(Cur, ms.last)])
    /\ UNCHANGED <<fileUp, flushed, pubs, crashes>>

\* The background tasks: expiration, eviction from the cache, the buffer shrunk
\* (which flushes it), and the wake-up call of Store. What is left in the cache
\* by a partial eviction is what lookups put back after a full one.
FileExpire(cut) ==
    /\ fileUp /\ ms.nextExpiration
    /\ LET s == expireMsgs(Cur, cut)
       IN Becomes(Let(s, LAMBDA t : [t EXCEPT !.m.nextExpiration = t.m.expiration]))
    /\ UNCHANGED <<fileUp, flushed, pubs, crashes>>
FileEvict ==
    /\ fileUp /\ DOMAIN ms.cache # {}
    /\ ms' = [ms EXCEPT !.cache = NewStore.cache]
    /\ UNCHANGED <<disk, fileUp, flushed, pubs, crashes>>
tryShrinkBuffer ==
    /\ fileUp /\ ms.opened /\ ms.buf # <<>>
    /\ Becomes(FlushBuf(Cur))
    /\ UNCHANGED <<fileUp, flushed, pubs, crashes>>
FileWake ==
    /\ fileUp /\ ms.bkgTasksWake
    /\ ms' = [ms EXCEPT !.bkgTasksWake = FALSE, !.nextExpiration = ms.expiration]
    /\ UNCHANGED <<disk, fileUp, flushed, pubs, crashes>>

\* With a limit on file descriptors the write slice is closed when it has not
\* been used for a while, and any of its files not in use when another file
\* has to be opened (closeUnusedFiles).
FileCloseUnused(what) ==
    /\ fileUp /\ ms.writeSlice # 0 /\ (ms.opened \/ ms.bufferedMsgs # <<>>)
    /\ LET s == IF what # "idx" /\ ms.opened
                THEN [beforeDataFileCloseCb(Cur) EXCEPT !.m.opened = FALSE] ELSE Cur
       IN Becomes(IF what = "dat" THEN s ELSE beforeIndexFileCloseCb(s))
    /\ UNCHANGED <<fileUp, flushed, pubs, crashes>>

\* Flush, and autoSync which does the same. It covers every message, unless the
\* last Store filled a gap: then needSync is not set and nothing is synced.
FileFlush ==
    /\ fileUp /\ ms.writeSlice # 0
    /\ Becomes(flush(LockFiles(Cur)))
    /\ flushed' = IF ms.filled THEN flushed ELSE ms.last
    /\ UNCHANGED <<fileUp, pubs, crashes>>

FileEmpty ==
    /\ fileUp /\ ms.last > 0
    /\ ms' = [NewStore EXCEPT !.nextExpiration = ms.nextExpiration,
                              !.bkgTasksWake = ms.bkgTasksWake, !.needSync = ms.needSync]
    /\ disk' = [n \in {} |-> NoFile]
    /\ flushed' = 0
    /\ UNCHANGED <<fileUp, pubs, crashes>>

\* Close flushes the write slice.
FileClose ==
    /\ fileUp /\ crashes < FileMaxCrashes
    /\ ms' = NewStore
    /\ disk' = IF ms.writeSlice = 0 THEN disk ELSE flush(LockFiles(Cur)).d
    /\ flushed' = ms.last
    /\ fileUp' = FALSE /\ crashes' = crashes + 1
    /\ UNCHANGED pubs

\* What a crash leaves of a write slice: at least what was synced, at most all
\* that was given to the files and what a flush going on was writing.
Tails == {<<>>} \cup {<<Zero>> : x \in Damage \cap {"zero"}} \cup {<<Torn>> : x \in Damage \cap {"torn"}}
Left(f, m) ==
    LET dat == f.dat \o m.buf
        idx == f.idx \o [i \in DOMAIN m.bufferedMsgs |-> m.bufferedMsgs[i].index]
        Ends(i) == IF i = 0 THEN 0 ELSE idx[i].off
    IN {[f EXCEPT !.dat = SubSeq(dat, 1, k) \o x, !.idx = SubSeq(idx, 1, i) \o y] :
           <<k, i, x, y>> \in {l \in (f.datSync .. Len(dat)) \X (f.idxSync .. Len(idx))
                                       \X Tails \X Tails :
                                 /\ l[1] > Ends(l[2]) => "orphan" \in Damage
                                 /\ l[1] < Ends(l[2]) => "ahead" \in Damage}}
FileCrash ==
    /\ fileUp /\ crashes < FileMaxCrashes
    /\ crashes' = crashes + 1 /\ fileUp' = FALSE
    /\ ms' = NewStore
    /\ \/ ms.writeSlice = 0 /\ UNCHANGED disk
       \/ /\ ms.writeSlice # 0
          /\ \E f \in Left(disk[ms.writeSlice], ms) : disk' = [disk EXCEPT ![ms.writeSlice] = f]
    /\ flushed' = Recovered(disk').m.last
    /\ UNCHANGED pubs

\* A recovery that fails removes the index file it was writing.
FileRecover(cut, trunc) ==
    LET failed == RecoverFails(disk, trunc)
        s == Let(Recovered(disk), LAMBDA r : expireMsgs(r, cut))
    IN /\ ~fileUp
       /\ \/ /\ failed # {}
             /\ disk' = [n \in DOMAIN disk |->
                            IF n \in failed THEN [disk[n] EXCEPT !.idx = <<>>, !.hasIdx = FALSE]
                            ELSE disk[n]]
             /\ UNCHANGED <<ms, fileUp>>
          \/ /\ failed = {}
             /\ Becomes(Let(s, LAMBDA t : [t EXCEPT !.m.nextExpiration = t.m.expiration]))
             /\ fileUp' = TRUE
       /\ UNCHANGED <<flushed, pubs, crashes>>

Times == 0 .. TimeOf(FileMaxPubs)
FileStep ==
    \/ \E gap \in Gaps, big \in BOOLEAN : FileStoreMsg(gap, big)
    \/ \E seq \in ms.first .. ms.last : FileLookup(seq)
    \/ FileFirstLastMsg
    \/ \E cut \in Times : FileExpire(cut)
    \/ FileEvict \/ tryShrinkBuffer \/ FileWake
    \/ \E what \in Closes : FileCloseUnused(what)
    \/ FileFlush \/ FileEmpty \/ FileClose \/ FileCrash
    \/ \E cut \in Times, trunc \in BOOLEAN : FileRecover(cut, trunc)

FileNext == FileStep /\ seen' = Answers'
FileSpec == FileInit /\ [][FileNext]_fileVars

-----------------------------------------------------------------------------
(* Properties.                                                               *)

FileTypeOK ==
    /\ ms.totalCount = MapThenSumSet(LAMBDA n : ms.files[n].msgsCount - ms.files[n].rmCount,
                                     DOMAIN ms.files)
    /\ DOMAIN ms.files \subseteq DOMAIN disk
    /\ ms.writeSlice = ms.lastFSlSeq /\ (ms.writeSlice # 0 => ms.writeSlice \in DOMAIN ms.files)
    /\ ms.firstFSlSeq = (IF DOMAIN ms.files = {} THEN 0 ELSE Min(DOMAIN ms.files))
    /\ Len(ms.buf) <= BufferSize

\* The store is a message store: it implements what the interface promises,
\* with every message looked up where it is now (cache, buffer, files), and,
\* while the server is down, with what recovery finds in the files. It does so
\* but for three things the code does: a Flush right after a Store that filled a
\* gap covers nothing new (FileFlush), and a Lookup may fail after the index file
\* was closed alone, or read ahead into a record without index (Answer).
FileAbs == INSTANCE MsgStore WITH
    MaxMsgs <- FileMaxMsgs, Nil <- NoMsg, Time <- TimeOf, first <- seen.first,
    last <- seen.last, found <- seen.found, flushed <- flushed, gap <- FALSE, aged <- 0
FileImplementsMsgStore == FileAbs!Spec

\* As long as there is a message the background task knows when it expires, or
\* is about to be woken up: no message outlives MaxAge for ever, whatever was
\* expired, removed, emptied or recovered before. (Store does not arm the
\* expiration when all messages have expired and it fills a gap.)
Armed ==
    fileUp /\ ms.first > 0 /\ ms.first <= ms.last =>
        ms.expiration /\ (ms.nextExpiration \/ ms.bkgTasksWake)
ExpirationArmed ==
    [][Armed /\ ~(ms.first > ms.last /\ ms'.last > ms.last + 1) => Armed']_fileVars

\* What the comment of GetSequenceFromTimestamp says: the sequence found for a
\* time is that of the first message whose timestamp is greater or equal.
SeqFromTimestampFirst ==
    fileUp /\ ms.first > 0 /\ ms.first <= ms.last =>
        \A t \in Times :
            LET r == GetSequenceFromTimestamp(Cur, t)
            IN \A q \in {s \in DOMAIN seen.found : seen.found[s] # NoMsg} :
                 (q < r) = (getMsgIndex(Cur, getFileSliceForSeq(ms, q), q).ts < t)
=============================================================================
