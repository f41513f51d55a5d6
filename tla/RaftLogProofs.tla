---------------------------- MODULE RaftLogProofs ----------------------------
(* GetLog answers with what the bucket had during the call, for any length of *)
(* the log, any size of the cache and any number of restarts.                 *)
EXTENDS RaftLog, TLAPS, WellFoundedInduction

(* The time each step may take, for the ones that name no prover. *)
USE SMTT(60)

(* A set of natural numbers that is not empty has a least element. *)
LEMMA Smallest ==
    ASSUME NEW S \in SUBSET Nat, S # {}
    PROVE  \E x \in S : \A y \in S : x <= y
<1> DEFINE R == OpToRel(<, Nat)
<1>1. \E x \in S : \A y \in S : ~(<<y, x>> \in R)
    <2>1. IsWellFoundedOn(R, Nat)
        BY NatLessThanWellFounded, Zenon
    <2> HIDE DEF R
    <2> QED
        BY <2>1, WFMin, Zenon
<1>2. \A x, y \in Nat : <<y, x>> \in R <=> y < x
    BY DEF OpToRel
<1> HIDE DEF R
<1>3. PICK x \in S : \A y \in S : ~(y < x)
    BY <1>1, <1>2, Zenon
<1>4. \A y \in S : x \in Nat /\ y \in Nat
    OBVIOUS
<1> QED
    BY <1>3, <1>4

(* One that has an upper bound has a greatest element. *)
LEMMA Greatest ==
    ASSUME NEW n \in Nat, NEW S \in SUBSET (1..n), S # {}
    PROVE  \E x \in S : \A y \in S : y <= x
<1> DEFINE T == {k \in Nat : n - k \in S}
<1>1. \A x \in S : n - x \in Nat /\ n - (n - x) = x /\ x \in Nat
    OBVIOUS
<1>2. T \subseteq Nat /\ T # {}
    BY <1>1, Zenon
<1>3. PICK k \in T : \A j \in T : k <= j
    BY <1>2, Smallest, Zenon
<1>4. ASSUME NEW y \in S PROVE y <= n - k
    <2>1. k <= n - y /\ k \in Nat
        BY <1>1, <1>3, Zenon
    <2> QED
        BY <1>1, <2>1
<1> QED
    BY <1>3, <1>4

(* The shape of the log, of the cache and of what the go-routines hold. *)
Logs == [index : Index, term : Nat]

Shape ==
    /\ bucket \in [Index -> Nat]
    /\ cache \in [Slots -> [index : 0..RLMaxIndex, term : Nat]]
    /\ term \in Nat \ {0} /\ commit \in Nat
    /\ main.pc \in {"idle", "cache", "delete"} /\ main.logs \subseteq Logs
    /\ snapshots.pc \in {"idle", "delete"} /\ snapshots.logs \subseteq Logs
    /\ get \in [pc : {"idle", "bucket", "done"}, idx : 0..RLMaxIndex, result : Nat]
    /\ get.pc # "idle" => get.idx \in Index

(* The cache agrees with the bucket at every moment: an entry is stored before *)
(* it is cached, the cache is reset before entries are deleted, and what is    *)
(* cached between the reset and the end of a compaction is above what is       *)
(* compacted, because raft compacts entries that were committed and stores     *)
(* entries that were not.                                                      *)
Cached(i, t) ==
    /\ t # 0 /\ t = bucket[i]
    /\ snapshots.pc = "delete" => \A l \in snapshots.logs : l.index # i

Coherent ==
    /\ \A s \in Slots : cache[s].index # 0 => Cached(cache[s].index, cache[s].term)
    /\ main.pc = "delete" => \A s \in Slots : cache[s].index = 0
    /\ main.pc = "cache" => \A l \in main.logs : l.index > commit /\ Cached(l.index, l.term)
    /\ snapshots.pc = "delete" => \A l \in snapshots.logs : l.index <= commit

Reading ==
    /\ get.pc # "idle" => bucket[get.idx] \in during
    /\ GetLogRight

RLInv == Shape /\ Coherent /\ Reading

(* The entries after the last one are not stored. *)
LEMMA LastIsLast ==
    ASSUME Shape
    PROVE  /\ LastIndex \in 0..RLMaxIndex
           /\ \A i \in Index : bucket[i] # 0 => i <= LastIndex
<1>1. CASE Stored = {}
    BY <1>1, RaftLogAssumption DEF LastIndex, Stored
<1>2. CASE Stored # {}
    <2>1. \E x \in Stored : \A y \in Stored : x >= y
        <3>1. Stored \in SUBSET (1..RLMaxIndex)
            BY DEF Stored, Index
        <3>2. PICK x \in Stored : \A y \in Stored : y <= x
            BY <1>2, <3>1, Greatest, RaftLogAssumption, Zenon
        <3> QED
            BY <3>1, <3>2
    <2>2. LastIndex \in Stored /\ \A y \in Stored : LastIndex >= y
        BY <1>2, <2>1 DEF LastIndex, Max
    <2> QED
        BY <2>2, RaftLogAssumption DEF Stored, Index
<1> QED
    BY <1>1, <1>2

(* A change of the bucket that leaves every cached entry alone. *)
LEMMA BucketChanges ==
    ASSUME Reading, Shape, NEW b \in [Index -> Nat], SetBucket(b), UNCHANGED get
    PROVE  Reading'
<1>1. CASE get.pc = "idle"
    BY <1>1 DEF Reading, GetLogRight, SetBucket, Shape
<1>2. CASE get.pc # "idle"
    BY <1>2 DEF Reading, GetLogRight, SetBucket, Shape
<1> QED
    BY <1>1, <1>2

(* Entries are stored after the last one: no cached entry is replaced. *)
LEMMA StoreStep ==
    ASSUME RLInv, NEW n \in {1, 2}, StoreLogs(n)
    PROVE  RLInv'
<1> DEFINE top == Max({LastIndex, commit})
           logs == (top + 1)..(top + n)
<1>0. Shape /\ Coherent /\ Reading
    BY DEF RLInv
<1>1. top \in Nat /\ top >= LastIndex /\ top >= commit
    <2>1. \E x \in {LastIndex, commit} : \A y \in {LastIndex, commit} : x >= y
        BY <1>0, LastIsLast DEF Shape
    <2> QED
        BY <1>0, <2>1, LastIsLast DEF Shape, Max
<1>2. \A i \in logs : i \in Nat /\ i > commit /\ (i \in Index => bucket[i] = 0)
    BY <1>0, <1>1, LastIsLast DEF Shape, Index
<1>3. main.pc = "idle" /\ top + n <= RLMaxIndex /\ UNCHANGED <<cache, term, commit, snapshots, get>>
    BY DEF StoreLogs
<1>4. \A i \in logs : i \in Index
    BY <1>1, <1>2, <1>3, RaftLogAssumption DEF Index
<1> HIDE DEF logs, top
<1>5. CASE UNCHANGED <<bucket, during, main>>
    BY <1>0, <1>3, <1>5 DEF RLInv, Shape, Coherent, Cached, Reading, GetLogRight
<1>6. ASSUME SetBucket([i \in Index |-> IF i \in logs THEN term ELSE bucket[i]]),
             main' = [pc |-> "cache", logs |-> {[index |-> i, term |-> term] : i \in logs}]
      PROVE  RLInv'
    <2>1. /\ bucket' = [i \in Index |-> IF i \in logs THEN term ELSE bucket[i]]
          /\ bucket' \in [Index -> Nat]
        BY <1>0, <1>6 DEF SetBucket, Shape
    <2>2. Reading'
        BY <1>0, <1>3, <1>6, <2>1, BucketChanges, Zenon DEF SetBucket
    <2>3. main'.pc = "cache" /\ \A l \in main'.logs : l.index \in logs /\ l.term = term /\ l \in Logs
        BY <1>0, <1>4, <1>6 DEF Logs, Shape
    <2>4. Shape'
        BY <1>0, <1>3, <2>1, <2>3 DEF Shape
    <2>5. Coherent'
        <3>1. ASSUME NEW s \in Slots, cache[s].index # 0
              PROVE  Cached(cache[s].index, cache[s].term)'
            BY <1>0, <1>2, <1>3, <2>1, <3>1 DEF Coherent, Cached, Shape, Index
        <3>2. ASSUME NEW l \in main'.logs PROVE l.index > commit /\ Cached(l.index, l.term)'
            <4>1. l.index \in logs /\ l.index > commit /\ l.index \in Index /\ l.term = term
                BY <1>2, <1>4, <2>3, <3>2
            <4>2. l.term # 0 /\ l.term = bucket'[l.index]
                BY <1>0, <2>1, <4>1 DEF Shape
            <4>3. ASSUME snapshots.pc = "delete", NEW k \in snapshots.logs PROVE k.index # l.index
                BY <1>0, <4>1, <4>3 DEF Coherent, Shape, Logs, Index
            <4> QED
                BY <1>3, <4>1, <4>2, <4>3 DEF Cached
        <3> QED
            BY <1>0, <1>3, <2>3, <3>1, <3>2 DEF Coherent
    <2> QED
        BY <2>2, <2>4, <2>5 DEF RLInv
<1> QED
    BY <1>5, <1>6, Zenon DEF StoreLogs, logs, top

(* What is cached is what was stored. *)
LEMMA CacheStep ==
    ASSUME RLInv, cacheLogs
    PROVE  RLInv'
<1>0. Shape /\ Coherent /\ Reading
    BY DEF RLInv
<1>1. /\ main.pc = "cache" /\ main' = NoWork
      /\ UNCHANGED <<bucket, term, commit, snapshots, get, during>>
    BY DEF cacheLogs
<1>2. ASSUME NEW s \in Slots PROVE cache'[s] = cache[s] \/ cache'[s] \in main.logs
    <2> DEFINE here == {l \in main.logs : l.index % cacheSize = s}
    <2>1. cache'[s] = IF here = {} THEN cache[s]
                      ELSE CHOOSE l \in here : \A k \in here : k.index <= l.index
        BY DEF cacheLogs
    <2>2. here \subseteq Logs /\ here \subseteq main.logs
        BY <1>0 DEF Shape
    <2> HIDE DEF here
    <2>3. CASE here # {}
        <3> DEFINE J == {i \in 1..RLMaxIndex : \E l \in here : l.index = i}
        <3>1. J # {}
            BY <2>2, <2>3 DEF Logs, Index
        <3>2. PICK g \in J : \A j \in J : j <= g
            BY <3>1, Greatest, RaftLogAssumption, ZenonT(60)
        <3>3. PICK l \in here : l.index = g
            BY <3>2
        <3>4. \A k \in here : k.index <= l.index
            BY <2>2, <3>2, <3>3 DEF Logs, Index
        <3> QED
            BY <2>1, <2>2, <2>3, <3>4
    <2> QED
        BY <2>1, <2>3
<1>3. cache' = [s \in Slots |-> cache'[s]]
    BY DEF cacheLogs
<1>4. Shape'
    <2>0. Logs \subseteq [index : 0..RLMaxIndex, term : Nat]
        BY RaftLogAssumption DEF Logs, Index
    <2>1. \A s \in Slots : cache'[s] \in [index : 0..RLMaxIndex, term : Nat]
        BY <1>0, <1>2, <2>0, Zenon DEF Shape
    <2> QED
        BY <1>0, <1>1, <1>3, <2>1 DEF Shape, NoWork
<1>5. Coherent'
    <2>1. ASSUME NEW s \in Slots, cache'[s].index # 0
          PROVE  Cached(cache[s].index, cache[s].term)'
        BY <1>0, <1>1, <1>2, <2>1 DEF Coherent, Cached
    <2> QED
        BY <1>0, <1>1, <2>1 DEF Coherent, NoWork
<1>6. Reading'
    BY <1>0, <1>1 DEF Reading, GetLogRight
<1> QED
    BY <1>4, <1>5, <1>6 DEF RLInv

(* The cache is reset before the entries are deleted, in one transaction. *)
LEMMA DeleteSteps ==
    ASSUME RLInv, deleteRange \/ \E i \in Index : truncate(i) \/ compact(i)
    PROVE  RLInv'
<1>0. Shape /\ Coherent /\ Reading
    BY DEF RLInv
<1>1. ASSUME resetCache
      PROVE  /\ cache' \in [Slots -> [index : 0..RLMaxIndex, term : Nat]]
             /\ \A s \in Slots : cache'[s].index = 0
    BY <1>1, RaftLogAssumption DEF resetCache, EmptyCache
<1>2. ASSUME NEW a \in Nat, NEW b \in 0..RLMaxIndex, a > 0
      PROVE  /\ {[index |-> i, term |-> 0] : i \in a..b} \subseteq Logs
             /\ \A l \in {[index |-> i, term |-> 0] : i \in a..b} : l.index <= b
    BY <1>2, RaftLogAssumption DEF Logs, Index
<1>3. ASSUME NEW i \in Index, truncate(i) PROVE RLInv'
    <2>1. /\ UNCHANGED <<bucket, term, commit, snapshots, get, during>> /\ main.pc = "idle"
          /\ resetCache
          /\ main' = [pc |-> "delete", logs |-> {[index |-> j, term |-> 0] : j \in i..LastIndex}]
        BY <1>3 DEF truncate
    <2>2. main'.pc = "delete" /\ main'.logs \subseteq Logs
        BY <1>0, <1>2, <2>1, LastIsLast DEF Index
    <2>3. Shape'
        BY <1>0, <1>1, <2>1, <2>2 DEF Shape
    <2>4. Coherent'
        BY <1>0, <1>1, <2>1, <2>2 DEF Coherent
    <2>5. Reading'
        BY <1>0, <2>1 DEF Reading, GetLogRight
    <2> QED
        BY <2>3, <2>4, <2>5 DEF RLInv
<1>4. ASSUME NEW i \in Index, compact(i) PROVE RLInv'
    <2>1. /\ UNCHANGED <<bucket, term, commit, main, get, during>> /\ snapshots.pc = "idle"
          /\ resetCache /\ i <= commit
          /\ snapshots' = [pc |-> "delete", logs |-> {[index |-> j, term |-> 0] : j \in FirstIndex..i}]
        BY <1>4 DEF compact
    <2>2. FirstIndex \in Index
        <3>0. Stored \in SUBSET Nat /\ Stored # {}
            BY <1>4 DEF compact, Stored, Index
        <3>1. PICK x \in Stored : \A y \in Stored : x <= y
            BY <3>0, Smallest
        <3> QED
            BY <3>0, <3>1 DEF FirstIndex, Min, Stored
    <2>3. /\ snapshots'.pc = "delete" /\ snapshots'.logs \subseteq Logs
          /\ \A l \in snapshots'.logs : l.index <= i
        BY <1>2, <2>1, <2>2, RaftLogAssumption DEF Index
    <2>4. Shape'
        BY <1>0, <1>1, <2>1, <2>3 DEF Shape
    <2>5. \A l \in snapshots'.logs : l.index <= commit
        BY <1>0, <2>1, <2>3 DEF Shape, Logs, Index
    <2>6. Coherent'
        <3>1. ASSUME main.pc = "cache", NEW l \in main.logs
              PROVE  l.index > commit /\ Cached(l.index, l.term)'
            BY <1>0, <2>1, <2>3, <2>5, <3>1 DEF Coherent, Cached, Shape, Logs, Index
        <3> QED
            BY <1>0, <1>1, <2>1, <2>3, <2>5, <3>1 DEF Coherent
    <2>7. Reading'
        BY <1>0, <2>1 DEF Reading, GetLogRight
    <2> QED
        BY <2>4, <2>6, <2>7 DEF RLInv
<1>5. \A ls : Deleted(ls) \in [Index -> Nat]
    BY <1>0 DEF Deleted, Shape
<1>6. ASSUME main.pc = "delete",
             SetBucket(Deleted(main.logs)) \/ UNCHANGED <<bucket, during>>,
             main' = NoWork, UNCHANGED <<cache, term, commit, snapshots, get>>
      PROVE  RLInv'
    <2>1. bucket' \in [Index -> Nat]
        BY <1>0, <1>5, <1>6 DEF SetBucket, Shape
    <2>2. Shape'
        BY <1>0, <1>6, <2>1 DEF Shape, NoWork
    <2>3. Coherent'
        BY <1>0, <1>6 DEF Coherent, NoWork
    <2>4. Reading'
        BY <1>0, <1>5, <1>6, BucketChanges DEF Reading, GetLogRight
    <2> QED
        BY <2>2, <2>3, <2>4 DEF RLInv
<1>7. ASSUME snapshots.pc = "delete",
             SetBucket(Deleted(snapshots.logs)) \/ UNCHANGED <<bucket, during>>,
             snapshots' = NoWork, UNCHANGED <<cache, term, commit, main, get>>
      PROVE  RLInv'
    <2>1. bucket' \in [Index -> Nat]
        BY <1>0, <1>5, <1>7 DEF SetBucket, Shape
    <2>2. Shape'
        BY <1>0, <1>7, <2>1 DEF Shape, NoWork
    <2>3. ASSUME NEW i \in Index, NEW t, Cached(i, t) PROVE Cached(i, t)'
        BY <1>7, <2>3 DEF Cached, SetBucket, Deleted, NoWork
    <2>4. Coherent'
        <3>1. ASSUME NEW s \in Slots, cache[s].index # 0 PROVE Cached(cache[s].index, cache[s].term)'
            <4>1. cache[s].index \in Index
                BY <1>0, <3>1, RaftLogAssumption DEF Shape, Index
            <4>2. Cached(cache[s].index, cache[s].term)
                BY <1>0, <3>1 DEF Coherent
            <4> QED
                BY <1>7, <2>3, <4>1, <4>2 DEF Cached
        <3>2. ASSUME main.pc = "cache", NEW l \in main.logs PROVE Cached(l.index, l.term)'
            BY <1>0, <2>3, <3>2 DEF Coherent, Shape, Logs
        <3> QED
            BY <1>0, <1>7, <3>1, <3>2 DEF Coherent, NoWork
    <2>5. Reading'
        BY <1>0, <1>5, <1>7, BucketChanges DEF Reading, GetLogRight
    <2> QED
        BY <2>2, <2>4, <2>5 DEF RLInv
<1> QED
    BY <1>3, <1>4, <1>6, <1>7 DEF deleteRange

(* A hit in the cache is what the bucket has at that moment. *)
LEMMA ReadSteps ==
    ASSUME RLInv, readBucket \/ getReturns \/ \E i \in Index : GetLog(i)
    PROVE  RLInv'
<1>0. Shape /\ Coherent /\ Reading
    BY DEF RLInv
<1>1. ASSUME NEW i \in Index, GetLog(i) PROVE RLInv'
    <2> DEFINE cached == cache[i % cacheSize]
    <2>1. i % cacheSize \in Slots
        <3>1. \A a \in Nat : a % cacheSize \in 0..(cacheSize - 1)
            BY RaftLogAssumption
        <3> QED
            BY <3>1 DEF Slots, Index
    <2>2. cached \in [index : 0..RLMaxIndex, term : Nat] /\ (cached.index = i => cached.term = bucket[i])
        <3>1. cached \in [index : 0..RLMaxIndex, term : Nat]
            BY <1>0, <2>1 DEF Shape
        <3>2. cached.index # 0 => Cached(cached.index, cached.term)
            BY <1>0, <2>1 DEF Coherent
        <3> QED
            BY <3>1, <3>2 DEF Cached, Index
    <2>3. /\ get' = IF cached.index = i THEN [pc |-> "done", idx |-> i, result |-> cached.term]
                    ELSE [pc |-> "bucket", idx |-> i, result |-> 0]
          /\ during' = {bucket[i]}
          /\ UNCHANGED <<bucket, cache, term, commit, main, snapshots>>
        BY <1>1 DEF GetLog
    <2> HIDE DEF cached
    <2>4. /\ get' \in [pc : {"idle", "bucket", "done"}, idx : 0..RLMaxIndex, result : Nat]
          /\ get'.idx = i /\ (get'.pc = "done" => get'.result = bucket[i])
        BY <2>2, <2>3, RaftLogAssumption DEF Index
    <2>5. Shape'
        BY <1>0, <2>3, <2>4 DEF Shape
    <2>6. Coherent'
        BY <1>0, <2>3 DEF Coherent, Cached
    <2>7. Reading'
        BY <2>3, <2>4 DEF Reading, GetLogRight
    <2> QED
        BY <2>5, <2>6, <2>7 DEF RLInv
<1>2. CASE readBucket
    <2>1. /\ get' = [get EXCEPT !.pc = "done", !.result = bucket[get.idx]] /\ get.pc = "bucket"
          /\ UNCHANGED <<bucket, cache, term, commit, main, snapshots, during>>
        BY <1>2 DEF readBucket
    <2>2. Shape' /\ Reading'
        BY <1>0, <2>1, ZenonT(60) DEF Shape, Reading, GetLogRight
    <2>3. Coherent'
        BY <1>0, <2>1 DEF Coherent, Cached
    <2> QED
        BY <2>2, <2>3 DEF RLInv
<1>3. CASE getReturns
    <2>1. /\ get' = NoGet
          /\ UNCHANGED <<bucket, cache, term, commit, main, snapshots>>
        BY <1>3 DEF getReturns
    <2>2. Shape' /\ Reading'
        BY <1>0, <2>1, RaftLogAssumption DEF Shape, Reading, GetLogRight, NoGet
    <2>3. Coherent'
        BY <1>0, <2>1 DEF Coherent, Cached
    <2> QED
        BY <2>2, <2>3 DEF RLInv
<1> QED
    BY <1>1, <1>2, <1>3

(* A new term, a commit while nothing is being stored, a restart. *)
LEMMA OtherSteps ==
    ASSUME RLInv, newTerm \/ advanceCommit \/ restart \/ UNCHANGED rlVars
    PROVE  RLInv'
<1>0. Shape /\ Coherent /\ Reading
    BY DEF RLInv
<1>1. CASE newTerm
    BY <1>0, <1>1 DEF newTerm, RLInv, Shape, Coherent, Cached, Reading, GetLogRight
<1>2. CASE advanceCommit
    <2>1. commit' = commit + 1 /\ main.pc = "idle" /\ UNCHANGED <<bucket, cache, term, main, snapshots, get, during>>
        BY <1>2 DEF advanceCommit
    <2>2. Shape' /\ Reading'
        BY <1>0, <2>1 DEF Shape, Reading, GetLogRight
    <2>3. Coherent'
        BY <1>0, <2>1 DEF Coherent, Cached, Shape, Logs, Index
    <2> QED
        BY <2>2, <2>3 DEF RLInv
<1>3. CASE restart
    <2>1. /\ cache' = EmptyCache /\ main' = NoWork /\ snapshots' = NoWork /\ get' = NoGet
          /\ UNCHANGED <<bucket, term, commit>>
        BY <1>3 DEF restart
    <2>2. Shape' /\ Reading' /\ Coherent'
        BY <1>0, <2>1, RaftLogAssumption
           DEF Shape, Reading, GetLogRight, Coherent, EmptyCache, NoWork, NoGet
    <2> QED
        BY <2>2 DEF RLInv
<1>4. CASE UNCHANGED rlVars
    BY <1>0, <1>4, ZenonT(60) DEF rlVars, RLInv, Shape, Coherent, Cached, Reading, GetLogRight
<1> QED
    BY <1>1, <1>2, <1>3, <1>4

(* GetLog never returns an entry that was deleted or replaced before the call, *)
(* whichever way StoreLogs, the two DeleteRange and restarts interleave.       *)
THEOREM GetLogAlwaysRight == RLSpec => []GetLogRight
<1>1. RLInit => RLInv
    BY RaftLogAssumption DEF RLInit, RLInv, Shape, Coherent, Reading, GetLogRight, EmptyCache, NoWork, NoGet
<1>2. RLInv /\ [RLNext]_rlVars => RLInv'
    BY StoreStep, CacheStep, DeleteSteps, ReadSteps, OtherSteps DEF RLNext
<1>3. RLInv => GetLogRight
    BY DEF RLInv, Reading
<1> QED
    BY <1>1, <1>2, <1>3, PTL DEF RLSpec
==============================================================================
