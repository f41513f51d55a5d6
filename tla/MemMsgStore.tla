---------------------------- MODULE MemMsgStore -----------------------------
(* The memory message store of one channel (stores/memstore.go, type         *)
(* MemoryMsgStore, and the generic store of stores/common.go below it).      *)
(* Expiration is a timer whose callback waits for the store's lock, so Empty *)
(* and Close can run between a timer's firing and its callback. Close waits  *)
(* for a wait group counting the timers (wg). A sequence that is skipped is   *)
(* not filled: it has no message, but the limit counts it when it is dropped. *)
EXTENDS Integers, FiniteSets

CONSTANTS MemMaxPubs,    \* bound: calls of Store
          MemMaxEmpties, \* bound: calls of Empty
          MemMaxGap,     \* bound: sequences skipped before a message
          MemMaxMsgs     \* limits.MaxMsgs, 0 for none

ASSUME MemAssumption == MemMaxMsgs \in Nat /\ MemMaxGap \in Nat

VARIABLES mem,       \* the store: first, last, msgs, totalCount, ageTimer (0 for nil)
          memGap,    \* history: a sequence was skipped since the store was empty
          armed,     \* timers that will fire
          callbacks, \* goroutines running expireMsgs, waiting for the lock
          wg,        \* the wait group's counter
          memClosed, \* "no", "waiting" in wg.Wait, or "closed"
          memPubs, memTimers, memEmpties

memVars == <<mem, memGap, armed, callbacks, wg, memClosed, memPubs, memTimers, memEmpties>>

\* A message is the number of the Store that brought it. Two in a row share a
\* timestamp.
MemTime(msg) == (msg + 1) \div 2

NoMsgs == [q \in {} |-> 0]
MemEmptyStore ==
    [first |-> 0, last |-> 0, msgs |-> NoMsgs, totalCount |-> 0, ageTimer |-> 0]

MemInit ==
    /\ mem = MemEmptyStore /\ memGap = FALSE /\ armed = {} /\ callbacks = 0 /\ wg = 0
    /\ memClosed = "no" /\ memPubs = 0 /\ memTimers = 0 /\ memEmpties = 0

\* removeFirstMsg: there may be no message under the first sequence.
MemRemoveFirstLate(m) ==
    [m EXCEPT !.first = @ + 1, !.totalCount = @ - 1,
              !.msgs = [q \in (DOMAIN @) \ {m.first + 1} |-> @[q]]]
MemRemoveFirst(m) ==
    [m EXCEPT !.first = @ + 1, !.totalCount = @ - 1,
              !.msgs = [q \in (DOMAIN @) \ {m.first} |-> @[q]]]

\* The store with a message more. It is over its limit by one at most.
MemStored(seq, msg) ==
    LET m == [mem EXCEPT !.first = IF @ = 0 THEN seq ELSE @, !.last = seq, !.totalCount = @ + 1,
                         !.msgs = [q \in (DOMAIN @) \cup {seq} |-> IF q = seq THEN msg ELSE @[q]]]
    IN IF MemMaxMsgs > 0 /\ m.totalCount > 1 /\ m.totalCount > MemMaxMsgs
       THEN MemRemoveFirst(m) ELSE m

\* A sequence that was already seen changes nothing.
MemStore(seq) ==
    /\ memClosed = "no" /\ memPubs < MemMaxPubs
    /\ \/ seq <= mem.last /\ UNCHANGED <<mem, memGap, memPubs, memTimers, armed, wg>>
       \/ /\ seq > mem.last
          /\ memPubs' = memPubs + 1
          /\ memGap' = (memGap \/ (mem.last > 0 /\ seq > mem.last + 1))
          /\ \/ /\ mem.ageTimer = 0
                /\ memTimers' = memTimers + 1
                /\ mem' = [MemStored(seq, memPubs + 1) EXCEPT !.ageTimer = memTimers + 1]
                /\ armed' = armed \cup {memTimers + 1}
                /\ wg' = wg + 1
             \/ /\ mem.ageTimer # 0
                /\ mem' = MemStored(seq, memPubs + 1)
                /\ UNCHANGED <<memTimers, armed, wg>>
    /\ UNCHANGED <<callbacks, memClosed, memEmpties>>

MemFire(t) ==
    /\ t \in armed
    /\ armed' = armed \ {t} /\ callbacks' = callbacks + 1
    /\ UNCHANGED <<mem, memGap, wg, memClosed, memPubs, memTimers, memEmpties>>

\* Messages up to time cut are too old. Those are removed, and the sequences
\* without a message are stepped over. With none left the timer is dropped, else
\* it is set again for the first one.
MemExpireMsgs(cut) ==
    LET stay == {q \in DOMAIN mem.msgs : MemTime(mem.msgs[q]) > cut}
        first == IF stay # {} THEN CHOOSE q \in stay : \A r \in stay : q <= r
                 ELSE IF mem.first = 0 THEN 0 ELSE mem.last + 1
        kept == {q \in DOMAIN mem.msgs : q >= first}
        m == [mem EXCEPT !.first = first, !.msgs = [q \in kept |-> @[q]],
                         !.totalCount = @ - Cardinality((DOMAIN mem.msgs) \ kept)]
    IN /\ callbacks > 0 /\ callbacks' = callbacks - 1
       /\ IF memClosed # "no"
          THEN wg' = wg - 1 /\ UNCHANGED <<mem, armed>>
          ELSE /\ mem' = [m EXCEPT !.ageTimer = IF stay # {} THEN @ ELSE 0]
               /\ wg' = IF stay # {} THEN wg ELSE wg - 1
               /\ armed' = IF stay # {} THEN armed \cup {mem.ageTimer} ELSE armed
       /\ UNCHANGED <<memGap, memClosed, memPubs, memTimers, memEmpties>>

\* Stop: a timer that has already fired is left to its callback.
StopTimerAlways ==
    /\ armed' = armed \ {mem.ageTimer}
    /\ wg' = IF mem.ageTimer # 0 THEN wg - 1 ELSE wg
StopTimer ==
    /\ armed' = armed \ {mem.ageTimer}
    /\ wg' = IF mem.ageTimer \in armed THEN wg - 1 ELSE wg

MemEmpty ==
    /\ memClosed = "no" /\ memEmpties < MemMaxEmpties
    /\ memEmpties' = memEmpties + 1
    /\ StopTimer
    /\ mem' = MemEmptyStore /\ memGap' = FALSE
    /\ UNCHANGED <<callbacks, memClosed, memPubs, memTimers>>

MemClose ==
    /\ \/ memClosed = "no" /\ memClosed' = "waiting" /\ StopTimer
       \/ memClosed = "waiting" /\ wg = 0 /\ memClosed' = "closed" /\ UNCHANGED <<armed, wg>>
    /\ UNCHANGED <<mem, memGap, callbacks, memPubs, memTimers, memEmpties>>

MemNext ==
    \/ \E seq \in 1 .. mem.last + 1 + MemMaxGap : MemStore(seq)
    \/ MemEmpty \/ MemClose
    \/ \E t \in armed : MemFire(t)
    \/ \E cut \in 0 .. MemTime(MemMaxPubs) : MemExpireMsgs(cut)

MemSpec == MemInit /\ [][MemNext]_memVars

-----------------------------------------------------------------------------
\* sort.Search: the smallest index in lo..hi whose message is late enough, by
\* halving.
SearchFirst(msgs, first, timestamp) ==
    LET s[lo \in 0 .. Cardinality(DOMAIN msgs), hi \in 0 .. Cardinality(DOMAIN msgs)] ==
          LET h == (lo + hi) \div 2
          IN IF lo >= hi THEN lo
             ELSE IF MemTime(msgs[h + first]) < timestamp THEN s[h + 1, hi] ELSE s[lo, h]
    IN s[0, Cardinality(DOMAIN msgs)]

MemGetSequenceFromTimestamp(timestamp) ==
    LET At(q) == MemTime(mem.msgs[q])
    IN IF mem.first = 0 THEN 0
       ELSE IF mem.first > mem.last \/ timestamp > At(mem.last) THEN mem.last + 1
       ELSE IF timestamp <= At(mem.first) THEN mem.first
       ELSE IF timestamp = At(mem.last) THEN mem.last
       ELSE mem.first + SearchFirst(mem.msgs, mem.first, timestamp)

MemTypeOK ==
    /\ armed \subseteq 1 .. memTimers /\ callbacks \in Nat /\ memGap \in BOOLEAN
    /\ mem.ageTimer \in 0 .. memTimers /\ mem.totalCount \in Int
    /\ DOMAIN mem.msgs \subseteq mem.first .. mem.last \ {0}

\* A memory store is a message store in which nothing survives a restart. What
\* was skipped is not found, and once a sequence was skipped the limit may keep
\* more sequences than MaxMsgs (removal by totalCount); until then it keeps
\* exactly the last MaxMsgs.
MemFound == [q \in mem.first .. mem.last \ {0} |->
               IF q \in DOMAIN mem.msgs THEN mem.msgs[q] ELSE 0]
MemAbs == INSTANCE MsgStore WITH
    MaxMsgs <- MemMaxMsgs, Nil <- 0, Time <- MemTime, first <- mem.first, last <- mem.last,
    found <- MemFound, flushed <- 0, gap <- memGap, aged <- 0
MemImplementsMsgStore ==
    MemAbs!Init /\ [][MemAbs!Next]_<<mem.first, mem.last, MemFound, memGap>>

\* What the comment of GetSequenceFromTimestamp says: the sequence found for a
\* time is that of the first message whose timestamp is greater or equal. (With a
\* sequence skipped the search may meet a missing message, which panics.)
MemSeqFromTimestampFirst ==
    ~memGap => \A t \in 0 .. MemTime(MemMaxPubs) : \A q \in DOMAIN mem.msgs :
        (q < MemGetSequenceFromTimestamp(t)) = (MemTime(mem.msgs[q]) < t)

\* As long as there is a message a timer or a callback of expireMsgs will look
\* at it, whatever was emptied in between; and Close waits for each of them: none
\* finds the store closed under it, and the wait group never goes below zero
\* (Store, expireMsgs, Empty, Close).
MemTimersRight ==
    /\ memClosed = "no" /\ DOMAIN mem.msgs # {} => armed # {} \/ callbacks > 0
    /\ wg >= Cardinality(armed) + callbacks
    /\ memClosed = "closed" => armed = {} /\ callbacks = 0
=============================================================================
