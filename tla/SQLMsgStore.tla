---------------------------- MODULE SQLMsgStore -----------------------------
(* The SQL message store of one channel (stores/sqlstore.go, type            *)
(* SQLMsgStore) with its write cache, which is the default, and the rows of  *)
(* the channel in the database. A transaction is one step of the database.   *)
EXTENDS Integers, Sequences, FiniteSets, FiniteSetsExt, Helpers

CONSTANTS SQLMaxPubs,     \* bound: calls of Store
          SQLMaxCrashes,  \* bound: crashes
          SQLMaxEmpties,  \* bound: calls of Empty
          SQLMaxGap,      \* bound: sequences skipped before a message
          SQLMaxMsgs,     \* limits.MaxMsgs, 0 for none
          CacheLimit,     \* sqlMsgCacheLimit
          SQLFaults       \* "flush": a Flush may fail; "store": the flush of a
                          \* Store may; "ahead": what was sent to a subscription
                          \* may be in the database before the message is

ASSUME SQLAssumption == SQLFaults \subseteq {"flush", "store", "ahead"}

VARIABLES sq,          \* the SQLMsgStore
          db,          \* table Messages: sequence -> message
          dbMaxSeq,    \* column maxseq of table Channels
          dbLastSent,  \* the highest lastsent of a subscription
          sqlUp, sqlFlushed, sqlPubs, sqlCrashes, sqlEmpties,
          sqlCut,      \* nowInNano: messages up to this time are too old
          sqlHigh,     \* the highest sequence ever given to Store
          sqlGap       \* history: a sequence was skipped since the store was empty

sqlVars == <<sqlGap, sq, db, dbMaxSeq, dbLastSent, sqlUp, sqlFlushed, sqlPubs, sqlCrashes,
             sqlEmpties, sqlCut, sqlHigh>>

SQLTime(msg) == (msg + 1) \div 2

\* list and free hold the sequences of the cached messages, in the order of the
\* linked lists; msgs is the cache's map. timer is expireTimer, callbacks the
\* goroutines running expireMsgs. hung: a Store loops for ever, with the lock.
NewSQLStore ==
    [first |-> 0, last |-> 0, totalCount |-> 0, list |-> <<>>, free |-> <<>>,
     msgs |-> EmptyFcn, timer |-> "nil", callbacks |-> 0, hung |-> FALSE]

SQLInit ==
    /\ sq = NewSQLStore /\ db = EmptyFcn /\ dbMaxSeq = 0 /\ dbLastSent = 0
    /\ sqlUp = TRUE /\ sqlFlushed = 0 /\ sqlPubs = 0 /\ sqlCrashes = 0
    /\ sqlEmpties = 0 /\ sqlCut = 0 /\ sqlHigh = 0 /\ sqlGap = FALSE

-----------------------------------------------------------------------------
\* add: an element of the free list is used again, and the message it held
\* leaves the map.
CacheAdd(m, seq, msg) ==
    LET old == IF m.free = <<>> THEN {} ELSE {Head(m.free)}
    IN [m EXCEPT !.free = IF @ = <<>> THEN @ ELSE Tail(@),
                 !.msgs = With(Without(@, old), seq, msg),
                 !.list = Append(@, seq)]

transferToFreeList(m) == [m EXCEPT !.free = m.list \o @, !.list = <<>>]

\* What flush does to the store, whether the rows get to the database or not.
Flushed(m) ==
    IF m.list = <<>> THEN m
    ELSE [transferToFreeList(m) EXCEPT !.timer = IF @ = "nil" THEN "armed" ELSE @]

\* The rows after the first n messages of the cache were inserted.
InsertedButLast(m, n) ==
    LET new == {m.list[i] : i \in 1 .. n - 1}
    IN [q \in (DOMAIN db) \cup new |-> IF q \in new THEN m.msgs[q] ELSE db[q]]
Inserted(m, n) ==
    LET new == {m.list[i] : i \in 1 .. n}
    IN [q \in (DOMAIN db) \cup new |-> IF q \in new THEN m.msgs[q] ELSE db[q]]

\* MaxMsgs: the first message is dropped from the cache, or from the database.
\* Where it is in neither, delBytes is 0: nothing is counted or advanced, and the
\* loop goes on for ever.
RECURSIVE DropOldest(_)
DropOldest(s) ==
    IF SQLMaxMsgs = 0 \/ s.m.totalCount <= 1 \/ s.m.totalCount <= SQLMaxMsgs THEN s
    ELSE LET first == s.m.first
             cached == s.m.list # <<>> /\ Head(s.m.list) = first
             m == [s.m EXCEPT !.first = @ + 1, !.totalCount = @ - 1]
         IN IF ~cached /\ first \notin DOMAIN s.d THEN [s EXCEPT !.m.hung = TRUE]
            ELSE Let(IF cached
                     THEN [m |-> [m EXCEPT !.list = Tail(@), !.msgs = Without(@, {first})], d |-> s.d]
                     ELSE [m |-> m, d |-> Without(s.d, {first})],
                     LAMBDA t : DropOldest(t))

SQLStored(m, seq, msg) ==
    [CacheAdd(m, seq, msg) EXCEPT !.first = IF @ = 0 THEN seq ELSE @, !.last = seq,
                                  !.totalCount = @ + 1]

\* Every operation but timeTick needs the lock of the store.
CanLock == sqlUp /\ ~sq.hung

\* A full cache is flushed first, and if that fails the message is not stored. A
\* sequence that was already seen changes nothing.
SQLStoreMsg(seq, fails) ==
    LET full == Len(sq.list) >= CacheLimit
        m == IF full THEN Flushed(sq) ELSE sq
        d == IF full /\ ~fails THEN Inserted(sq, Len(sq.list)) ELSE db
    IN /\ CanLock /\ sqlPubs < SQLMaxPubs
       /\ fails => full
       /\ \/ seq <= sq.last /\ UNCHANGED <<sq, db, sqlPubs, sqlHigh, sqlGap>>
          \/ /\ seq > sq.last /\ seq > sqlHigh
             /\ sqlPubs' = sqlPubs + 1
             /\ \E s \in {IF fails THEN [m |-> m, d |-> d]
                          ELSE DropOldest([m |-> SQLStored(m, seq, sqlPubs + 1), d |-> d])} :
                   sq' = s.m /\ db' = s.d
             /\ sqlHigh' = IF fails THEN sqlHigh ELSE seq
             /\ sqlGap' = (sqlGap \/ (~fails /\ sq.last > 0 /\ seq > sq.last + 1))
       /\ UNCHANGED <<dbMaxSeq, dbLastSent, sqlUp, sqlFlushed, sqlCrashes, sqlEmpties, sqlCut>>

SQLFlush ==
    /\ CanLock
    /\ sq' = Flushed(sq) /\ db' = Inserted(sq, Len(sq.list))
    /\ sqlFlushed' = sq.last
    /\ UNCHANGED <<dbMaxSeq, dbLastSent, sqlUp, sqlPubs, sqlCrashes, sqlEmpties, sqlCut, sqlHigh, sqlGap>>

SQLLookup(seq) ==
    IF seq < sq.first \/ seq > sq.last THEN 0
    ELSE LET msg == IF seq \in DOMAIN sq.msgs THEN sq.msgs[seq]
                    ELSE IF seq \in DOMAIN db THEN db[seq] ELSE 0
         IN IF SQLTime(msg) <= sqlCut THEN 0 ELSE msg

\* timeTick
SQLTick ==
    /\ sqlUp /\ sqlCut + 1 < SQLTime(sqlPubs + 1)
    /\ sqlCut' = sqlCut + 1
    /\ UNCHANGED <<sq, db, dbMaxSeq, dbLastSent, sqlUp, sqlFlushed, sqlPubs, sqlCrashes,
                   sqlEmpties, sqlHigh, sqlGap>>

\* The sent sequence of a subscription gets to the database on its own.
SQLSubFlush(seq) ==
    /\ sqlUp /\ seq \in sq.first .. sq.last /\ seq > dbLastSent
    /\ seq \notin DOMAIN db => "ahead" \in SQLFaults
    /\ dbLastSent' = seq
    /\ UNCHANGED <<sq, db, dbMaxSeq, sqlUp, sqlFlushed, sqlPubs, sqlCrashes, sqlEmpties, sqlCut, sqlHigh, sqlGap>>

\* Close flushes; the restart is a recovery, as after a crash.
SQLDown ==
    /\ sqlUp' = FALSE /\ sq' = NewSQLStore /\ sqlCrashes' = sqlCrashes + 1
    /\ UNCHANGED <<dbMaxSeq, dbLastSent, sqlPubs, sqlEmpties, sqlCut, sqlHigh, sqlGap>>

\* The last sequence known to the database, and the messages left there.
LastKnown(d) == Max({dbMaxSeq, dbLastSent} \cup DOMAIN d)
Recoverable(d) ==
    LET high == LastKnown(d)
    IN IF DOMAIN d # {} /\ high = Max(DOMAIN d)
       THEN [first |-> Min(DOMAIN d), last |-> high]
       ELSE [first |-> IF high = 0 THEN 0 ELSE high + 1, last |-> high]

SQLClose ==
    /\ CanLock /\ sqlCrashes < SQLMaxCrashes
    /\ db' = Inserted(sq, Len(sq.list))
    /\ sqlFlushed' = Max({sq.last, Recoverable(db').last})
    /\ SQLDown

\* A crash; also a Flush that fails, after which the server panics: a bulk
\* insert may have inserted some of the rows.
SQLCrash ==
    /\ sqlUp /\ sqlCrashes < SQLMaxCrashes
    /\ \E n \in {0} \cup {k \in 1 .. Len(sq.list) : "flush" \in SQLFaults} : db' = Inserted(sq, n)
    /\ sqlFlushed' = Recoverable(db').last
    /\ SQLDown

\* The timer fires: its callback waits for the lock of the store.
SQLFire ==
    /\ sqlUp /\ sq.timer = "armed"
    /\ sq' = [sq EXCEPT !.timer = "fired", !.callbacks = @ + 1]
    /\ UNCHANGED <<db, dbMaxSeq, dbLastSent, sqlUp, sqlFlushed, sqlPubs, sqlCrashes,
                   sqlEmpties, sqlCut, sqlHigh, sqlGap>>

\* expireMsgs deletes the rows up to time cut. The sequence of the last message
\* is kept in table Channels before its row goes. The timer is set again if a
\* message is left, even one that is not in the database yet; with no timer
\* (Empty dropped it) that panics.
SQLExpireMsgs(cut) ==
    LET old == {q \in DOMAIN db : SQLTime(db[q]) <= cut}
        left == sq.totalCount - Cardinality(old)
    IN /\ CanLock /\ sq.callbacks > 0
       /\ IF left > 0 /\ sq.timer = "nil"
          THEN /\ sqlCrashes < SQLMaxCrashes
               /\ db' = Without(db, old) /\ sqlFlushed' = Recoverable(db').last
               /\ SQLDown
          ELSE /\ db' = Without(db, old)
               /\ dbMaxSeq' = IF old # {} /\ Max(old) = sq.last THEN sq.last ELSE dbMaxSeq
               /\ sq' = [sq EXCEPT !.first = IF old = {} THEN @ ELSE Max(old) + 1,
                                   !.totalCount = left, !.callbacks = @ - 1,
                                   !.timer = IF left > 0 THEN "armed" ELSE "nil"]
               /\ UNCHANGED <<dbLastSent, sqlUp, sqlFlushed, sqlPubs, sqlCrashes,
                              sqlEmpties, sqlCut, sqlHigh, sqlGap>>

SQLEmpty ==
    /\ CanLock /\ sqlEmpties < SQLMaxEmpties /\ sq.last > 0
    /\ sqlEmpties' = sqlEmpties + 1
    /\ db' = EmptyFcn /\ dbMaxSeq' = 0
    /\ sq' = [transferToFreeList(sq) EXCEPT !.first = 0, !.last = 0, !.totalCount = 0,
                                            !.timer = "nil"]
    /\ sqlFlushed' = 0 /\ sqlGap' = FALSE
    /\ UNCHANGED <<dbLastSent, sqlUp, sqlPubs, sqlCrashes, sqlCut, sqlHigh>>

\* Recover, with messages up to time cut deleted first.
SQLRecover(cut) ==
    LET kept == {q \in DOMAIN db : SQLTime(db[q]) > cut}
        d == [q \in kept |-> db[q]]
        high == LastKnown(db)
    IN /\ ~sqlUp /\ sqlUp' = TRUE
       /\ db' = d
       /\ sq' = [NewSQLStore EXCEPT
                    !.first = IF kept # {} /\ Max(kept) = high THEN Min(kept)
                              ELSE IF high = 0 THEN 0 ELSE high + 1,
                    !.last = high, !.totalCount = Cardinality(kept)]
       /\ sqlHigh' = high
       /\ UNCHANGED <<dbMaxSeq, dbLastSent, sqlFlushed, sqlPubs, sqlCrashes, sqlEmpties, sqlCut,
                      sqlGap>>

SQLTimes == sqlCut .. SQLTime(sqlPubs + 1) - 1
SQLNext ==
    \/ \E fails \in {FALSE} \cup {x \in {TRUE} : "store" \in SQLFaults} :
          \E seq \in 1 .. sqlHigh + 1 + SQLMaxGap : SQLStoreMsg(seq, fails)
    \/ \E seq \in sq.first .. sq.last : SQLSubFlush(seq)
    \/ SQLFlush \/ SQLClose \/ SQLCrash \/ SQLFire \/ SQLEmpty \/ SQLTick
    \/ \E cut \in SQLTimes : SQLExpireMsgs(cut) \/ SQLRecover(cut)

SQLSpec == SQLInit /\ [][SQLNext]_sqlVars

-----------------------------------------------------------------------------
SQLTypeOK ==
    /\ \A i \in DOMAIN sq.list : sq.list[i] \in DOMAIN sq.msgs
    /\ sq.timer \in {"nil", "armed", "fired"} /\ sq.callbacks \in Nat
    /\ sqlUp => sq.totalCount = Cardinality(DOMAIN db) + Len(sq.list)

\* The SQL store is a message store: every message is found in the cache or in
\* the database, and what was flushed is recovered. A Store returns as long as no
\* sequence was skipped: then the limit always finds the first message (Store,
\* whose loop tests delBytes).
SQLAbs == INSTANCE MsgStore WITH
    MaxMsgs <- SQLMaxMsgs, Nil <- 0, Time <- SQLTime, flushed <- sqlFlushed,
    gap <- sqlGap, aged <- sqlCut,
    first <- (IF sqlUp THEN sq.first ELSE Recoverable(db).first),
    last <- (IF sqlUp THEN sq.last ELSE Recoverable(db).last),
    found <- (IF sqlUp THEN [q \in sq.first .. sq.last \ {0} |-> SQLLookup(q)]
              ELSE [q \in Recoverable(db).first .. Recoverable(db).last \ {0} |->
                        IF q \in DOMAIN db /\ SQLTime(db[q]) > sqlCut
                        THEN db[q] ELSE 0])
SQLImplementsMsgStore == SQLAbs!Spec /\ [](sq.hung => sqlGap)
=============================================================================
