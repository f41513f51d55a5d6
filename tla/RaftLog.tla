------------------------------- MODULE RaftLog ------------------------------
(* The raft log store (server/raft_log.go): a BoltDB bucket of log entries    *)
(* with a cache of the most recent ones, indexed modulo its size. The raft    *)
(* library (external) stores and truncates entries from its main go-routine,  *)
(* compacts the log from the one that takes snapshots, and reads entries from *)
(* others. A BoltDB transaction is one step. An entry is its index and term.  *)
EXTENDS Integers, FiniteSets, FiniteSetsExt

CONSTANTS
    RLMaxIndex, RLMaxTerm,      \* bounds
    cacheSize,
    RLMaxCrashes,               \* bound: restarts
    RLFaults                    \* subset of {"store", "delete"}: transactions that fail

ASSUME RaftLogAssumption ==
    /\ cacheSize \in Nat \ {0} /\ RLMaxIndex \in Nat
    /\ RLFaults \subseteq {"store", "delete"}

VARIABLES
    bucket,         \* the logs bucket: index -> term, 0 when there is no entry
    cache,          \* slot -> [index, term], index 0 when it is empty
    term, commit,   \* raft: current term of the node, entries that are committed
    main, snapshots,    \* what the two writers are doing
    get, during,    \* the reader, and the values its entry had since it started
    rlCrashes

rlVars == <<bucket, cache, term, commit, main, snapshots, get, during, rlCrashes>>

Index == 1..RLMaxIndex
Slots == 0..(cacheSize - 1)
EmptyCache == [s \in Slots |-> [index |-> 0, term |-> 0]]
Stored == {i \in Index : bucket[i] # 0}
NoWork == [pc |-> "idle", logs |-> {}]
NoGet == [pc |-> "idle", idx |-> 0, result |-> 0]

RLInit ==
    /\ bucket = [i \in Index |-> 0]
    /\ cache = EmptyCache
    /\ term = 1
    /\ commit = 0
    /\ main = NoWork
    /\ snapshots = NoWork
    /\ get = NoGet
    /\ during = {}
    /\ rlCrashes = 0

FirstIndex == IF Stored = {} THEN 0 ELSE Min(Stored)
LastIndex == IF Stored = {} THEN 0 ELSE Max(Stored)

\* The reader also sees what its entry becomes.
SetBucket(b) ==
    /\ bucket' = b
    /\ during' = IF get.pc = "idle" THEN {} ELSE during \cup {b[get.idx]}

-----------------------------------------------------------------------------
newTerm ==
    /\ term < RLMaxTerm
    /\ term' = term + 1
    /\ UNCHANGED <<bucket, cache, commit, main, snapshots, get, during, rlCrashes>>

\* Raft applies the entries it stored, when StoreLogs has returned.
advanceCommit ==
    /\ main.pc = "idle"
    /\ commit < LastIndex
    /\ commit' = commit + 1
    /\ UNCHANGED <<bucket, cache, term, main, snapshots, get, during, rlCrashes>>

\* StoreLogs of one or two entries after the last one: the transaction, and then
\* the cache.
StoreLogs(n) ==
    /\ main.pc = "idle"
    /\ LET last == Max({LastIndex, commit})
           logs == (last + 1)..(last + n)
       IN  /\ last + n <= RLMaxIndex
           /\ \/ /\ SetBucket([i \in Index |-> IF i \in logs THEN term ELSE bucket[i]])
                 /\ main' = [pc |-> "cache",
                             logs |-> {[index |-> i, term |-> term] : i \in logs}]
              \/ /\ "store" \in RLFaults
                 /\ UNCHANGED <<bucket, during, main>>
    /\ UNCHANGED <<cache, term, commit, snapshots, get, rlCrashes>>

\* Later entries of the batch replace earlier ones in the same slot.
cacheLogs ==
    /\ main.pc = "cache"
    /\ cache' = [s \in Slots |->
          LET here == {l \in main.logs : l.index % cacheSize = s}
          IN  IF here = {} THEN cache[s]
              ELSE CHOOSE l \in here : \A k \in here : k.index <= l.index]
    /\ main' = NoWork
    /\ UNCHANGED <<bucket, term, commit, snapshots, get, during, rlCrashes>>

resetNothing == UNCHANGED cache
resetCache == cache' = EmptyCache

\* DeleteRange of the conflicting entries at the end of a follower's log, by the
\* main go-routine: the cache is reset first, then comes the transaction.
truncate(min) ==
    /\ main.pc = "idle"
    /\ min \in Stored
    /\ min > commit
    /\ resetCache
    /\ main' = [pc |-> "delete", logs |-> {[index |-> i, term |-> 0] : i \in min..LastIndex}]
    /\ UNCHANGED <<bucket, term, commit, snapshots, get, during, rlCrashes>>

\* DeleteRange of the oldest entries, after a snapshot, which has applied
\* entries only.
compact(max) ==
    /\ snapshots.pc = "idle"
    /\ max \in Stored
    /\ max <= commit
    /\ max < LastIndex
    /\ resetCache
    /\ snapshots' = [pc |-> "delete",
                     logs |-> {[index |-> i, term |-> 0] : i \in FirstIndex..max}]
    /\ UNCHANGED <<bucket, term, commit, main, get, during, rlCrashes>>

\* deleteRange, in one transaction.
Deleted(logs) == [i \in Index |-> IF \E l \in logs : l.index = i THEN 0 ELSE bucket[i]]

deleteRange ==
    \/ /\ main.pc = "delete"
       /\ SetBucket(Deleted(main.logs)) \/ ("delete" \in RLFaults /\ UNCHANGED <<bucket, during>>)
       /\ main' = NoWork
       /\ UNCHANGED <<cache, term, commit, snapshots, get, rlCrashes>>
    \/ /\ snapshots.pc = "delete"
       /\ SetBucket(Deleted(snapshots.logs)) \/ ("delete" \in RLFaults /\ UNCHANGED <<bucket, during>>)
       /\ snapshots' = NoWork
       /\ UNCHANGED <<cache, term, commit, main, get, rlCrashes>>

\* GetLog: first the cache, under its lock, then the bucket.
GetLog(idx) ==
    /\ get.pc = "idle"
    /\ LET cached == cache[idx % cacheSize]
       IN  get' = IF cached.index = idx
                  THEN [pc |-> "done", idx |-> idx, result |-> cached.term]
                  ELSE [pc |-> "bucket", idx |-> idx, result |-> 0]
    /\ during' = {bucket[idx]}
    /\ UNCHANGED <<bucket, cache, term, commit, main, snapshots, rlCrashes>>

readBucket ==
    /\ get.pc = "bucket"
    /\ get' = [get EXCEPT !.pc = "done", !.result = bucket[get.idx]]
    /\ UNCHANGED <<bucket, cache, term, commit, main, snapshots, during, rlCrashes>>

getReturns ==
    /\ get.pc = "done"
    /\ get' = NoGet
    /\ during' = {}
    /\ UNCHANGED <<bucket, cache, term, commit, main, snapshots, rlCrashes>>

\* newRaftLog after a crash: the cache starts empty.
restart ==
    /\ rlCrashes < RLMaxCrashes
    /\ rlCrashes' = rlCrashes + 1
    /\ cache' = EmptyCache
    /\ main' = NoWork /\ snapshots' = NoWork /\ get' = NoGet /\ during' = {}
    /\ UNCHANGED <<bucket, term, commit>>

RLNext ==
    \/ newTerm \/ advanceCommit \/ cacheLogs \/ deleteRange \/ readBucket \/ getReturns \/ restart
    \/ \E n \in {1, 2} : StoreLogs(n)
    \/ \E i \in Index : truncate(i) \/ compact(i) \/ GetLog(i)

RLSpec == RLInit /\ [][RLNext]_rlVars

-----------------------------------------------------------------------------
\* The state has the shape of the code's.
RLTypeOK ==
    /\ bucket \in [Index -> 0..term]
    /\ cache \in [Slots -> [index : 0..RLMaxIndex, term : 0..term]]
    /\ \A s \in Slots : cache[s].index # 0 => cache[s].index % cacheSize = s
    /\ main.pc \in {"idle", "cache", "delete"} /\ snapshots.pc \in {"idle", "delete"}

\* What GetLog returns, from the cache or from the bucket, is what the bucket had
\* for that index at some time during the call: never an entry that was deleted,
\* or replaced by one of another term, before the call.
GetLogRight == get.pc = "done" => get.result \in during
=============================================================================
