------------------------ MODULE MemMsgStoreProofs -------------------------
(***************************************************************************)
(* The memory store implements the message store, and its expiration       *)
(* timers are right, for any limit, any gaps between the sequences and any *)
(* number of messages and calls of Empty.                                  *)
(***************************************************************************)
EXTENDS MemMsgStore, FiniteSetTheorems, WellFoundedInduction, TLAPS

(* The time each step may take, for the ones that name no prover. *)
USE SMTT(60)

Fields == {"first", "last", "msgs", "totalCount", "ageTimer"}
Held == DOMAIN mem.msgs

(* The messages lie between first and last, under all the sequences as long as *)
(* none was skipped. Removal counts a sequence without a message, so there are *)
(* at least as many messages as totalCount says.                               *)
Ranges ==
    /\ DOMAIN mem = Fields
    /\ mem.first \in Nat /\ mem.last \in Nat /\ mem.first <= mem.last + 1
    /\ mem.first = 0 <=> mem.last = 0
    /\ mem.msgs \in [Held -> Nat \ {0}]
    /\ Held \subseteq mem.first .. mem.last \ {0}
    /\ memPubs \in Nat /\ memGap \in BOOLEAN
Counts ==
    /\ mem.totalCount \in Int /\ IsFiniteSet(Held)
    /\ mem.totalCount <= Cardinality(Held)
    /\ MemMaxMsgs > 0 => mem.totalCount <= MemMaxMsgs
    /\ ~memGap => Held = mem.first .. mem.last \ {0} /\ mem.totalCount = Cardinality(Held)

(* A store with a message has a timer; the timer it knows is armed or has a   *)
(* callback, until the store is closed; every timer and callback is counted.  *)
Timers ==
    /\ mem.ageTimer \in Nat /\ memTimers \in Nat /\ callbacks \in Nat /\ wg \in Int
    /\ IsFiniteSet(armed)
    /\ memClosed = "no" /\ DOMAIN mem.msgs # {} => mem.ageTimer # 0
    /\ memClosed = "no" /\ mem.ageTimer # 0 => mem.ageTimer \in armed \/ callbacks > 0
    /\ wg >= Cardinality(armed) + callbacks
    /\ memClosed = "closed" => armed = {} /\ callbacks = 0

-----------------------------------------------------------------------------
(* The first sequence once seq is stored, before the limit is applied, and    *)
(* whether the limit drops it.                                                *)
FirstStored(seq) == IF mem.first = 0 THEN seq ELSE mem.first
Over == MemMaxMsgs > 0 /\ mem.totalCount + 1 > 1 /\ mem.totalCount + 1 > MemMaxMsgs

(* The number of messages is at most the number of sequences. *)
LEMMA HeldInRange ==
    ASSUME Ranges, Counts
    PROVE  /\ Cardinality(Held) \in Nat
           /\ mem.first = 0 => mem.totalCount <= 0
           /\ mem.first > 0 => Cardinality(Held) <= mem.last - mem.first + 1
           /\ mem.first > 0 /\ ~memGap => Cardinality(Held) = mem.last - mem.first + 1
<1> DEFINE a == mem.first
           b == mem.last
<1>1. a \in Nat /\ b \in Nat /\ a <= b + 1 /\ a \in Int /\ b \in Int
    BY DEF Ranges
<1>2. Held \subseteq a .. b \ {0} /\ IsFiniteSet(Held) /\ (~memGap => Held = a .. b \ {0})
      /\ (a = 0 => b = 0) /\ mem.totalCount \in Int /\ mem.totalCount <= Cardinality(Held)
    BY DEF Ranges, Counts
<1> HIDE DEF a, b, Held
<1>3. Cardinality(Held) \in Nat
    BY <1>2, FS_CardinalityType
<1>4. IsFiniteSet(a .. b) /\ Cardinality(a .. b) = b - a + 1
    <2>1. IsFiniteSet(a .. b) /\ Cardinality(a .. b) = IF a > b THEN 0 ELSE b - a + 1
        BY <1>1, FS_Interval
    <2> QED
        BY <1>1, <2>1
<1>5. Held \in SUBSET (a .. b)
    BY <1>2
<1>6. Cardinality(Held) <= b - a + 1
    <2> DEFINE I == a .. b
    <2>1. IsFiniteSet(I) /\ Held \in SUBSET I /\ Cardinality(I) = b - a + 1
        BY <1>4, <1>5
    <2> HIDE DEF I
    <2>2. Cardinality(Held) <= Cardinality(I)
        BY <2>1, FS_Subset
    <2> QED
        BY <2>1, <2>2
<1>7. a > 0 /\ ~memGap => Cardinality(Held) = b - a + 1
    <2> SUFFICES ASSUME a > 0, ~memGap PROVE Cardinality(Held) = b - a + 1
        OBVIOUS
    <2>1. a .. b \ {0} = a .. b
        BY <1>1
    <2> QED
        BY <1>2, <1>4, <2>1, Zenon
<1>8. a = 0 => mem.totalCount <= 0
    <2> SUFFICES ASSUME a = 0 PROVE mem.totalCount <= 0
        OBVIOUS
    <2>1. Held = {}
        BY <1>1, <1>2
    <2>2. Cardinality(Held) = 0
        BY <2>1, FS_EmptySet
    <2> QED
        BY <1>2, <2>2
<1> QED
    BY <1>3, <1>6, <1>7, <1>8 DEF a, b

(* What Store does to the messages: the new one is the last, and the limit    *)
(* may drop the first sequence.                                               *)
LEMMA StoreEffect ==
    ASSUME Ranges, Counts, NEW seq \in Nat, seq > mem.last, MemStore(seq)
    PROVE  /\ DOMAIN mem' = Fields /\ mem'.last = seq
           /\ mem'.first = IF Over THEN FirstStored(seq) + 1 ELSE FirstStored(seq)
           /\ mem'.totalCount = IF Over THEN mem.totalCount ELSE mem.totalCount + 1
           /\ Held' = (Held \cup {seq}) \ (IF Over THEN {FirstStored(seq)} ELSE {})
           /\ mem'.msgs = [q \in Held' |-> IF q = seq THEN memPubs + 1 ELSE mem.msgs[q]]
           /\ mem'.ageTimer = IF mem.ageTimer = 0 THEN memTimers + 1 ELSE mem.ageTimer
           /\ memPubs' = memPubs + 1
           /\ memGap' = (memGap \/ (mem.last > 0 /\ seq > mem.last + 1))
<1> DEFINE msg == memPubs + 1
           m == [mem EXCEPT !.first = IF @ = 0 THEN seq ELSE @, !.last = seq, !.totalCount = @ + 1,
                            !.msgs = [q \in (DOMAIN @) \cup {seq} |-> IF q = seq THEN msg ELSE @[q]]]
           n == MemStored(seq, msg)
<1>1. /\ DOMAIN m = Fields /\ m.first = FirstStored(seq) /\ m.last = seq
      /\ m.totalCount = mem.totalCount + 1 /\ m.ageTimer = mem.ageTimer
      /\ m.msgs = [q \in Held \cup {seq} |-> IF q = seq THEN msg ELSE mem.msgs[q]]
    BY DEF Ranges, Fields, FirstStored, Held
<1>2. n = IF MemMaxMsgs > 0 /\ m.totalCount > 1 /\ m.totalCount > MemMaxMsgs THEN MemRemoveFirst(m) ELSE m
    BY Zenon DEF MemStored
<1>3. \/ mem.ageTimer = 0 /\ mem' = [n EXCEPT !.ageTimer = memTimers + 1]
      \/ mem.ageTimer # 0 /\ mem' = n
    BY DEF MemStore, Ranges
<1> HIDE DEF m, n
<1>4. /\ DOMAIN n = Fields /\ n.last = seq /\ n.ageTimer = mem.ageTimer
      /\ n.first = IF Over THEN FirstStored(seq) + 1 ELSE FirstStored(seq)
      /\ n.totalCount = IF Over THEN mem.totalCount ELSE mem.totalCount + 1
      /\ n.msgs = [q \in (Held \cup {seq}) \ (IF Over THEN {FirstStored(seq)} ELSE {}) |->
                      IF q = seq THEN msg ELSE mem.msgs[q]]
    <2>1. CASE Over
        <3>1. n = MemRemoveFirst(m)
            BY <1>1, <1>2, <2>1, Zenon DEF Over
        <3>2. /\ DOMAIN n = Fields /\ n.last = seq /\ n.ageTimer = mem.ageTimer
              /\ n.first = m.first + 1 /\ n.totalCount = m.totalCount - 1
              /\ n.msgs = [q \in (DOMAIN m.msgs) \ {m.first} |-> m.msgs[q]]
            BY <1>1, <3>1 DEF MemRemoveFirst, Fields
        <3>3. n.msgs = [q \in (Held \cup {seq}) \ {FirstStored(seq)} |-> IF q = seq THEN msg ELSE mem.msgs[q]]
            BY <1>1, <3>2
        <3>4. n.totalCount = mem.totalCount
            BY <1>1, <3>2 DEF Counts
        <3> QED
            BY <1>1, <2>1, <3>2, <3>3, <3>4, Zenon
    <2>2. CASE ~Over
        <3>1. n = m
            BY <1>1, <1>2, <2>2, Zenon DEF Over
        <3>2. Held \cup {seq} = (Held \cup {seq}) \ {}
            OBVIOUS
        <3> QED
            BY <1>1, <2>2, <3>1, <3>2, Zenon
    <2> QED
        BY <2>1, <2>2
<1>5. /\ DOMAIN mem' = Fields /\ mem'.first = n.first /\ mem'.last = n.last
      /\ mem'.totalCount = n.totalCount /\ mem'.msgs = n.msgs
      /\ mem'.ageTimer = IF mem.ageTimer = 0 THEN memTimers + 1 ELSE mem.ageTimer
    BY <1>3, <1>4 DEF Fields
<1>6. memPubs' = memPubs + 1 /\ memGap' = (memGap \/ (mem.last > 0 /\ seq > mem.last + 1))
    <2>1. ~(seq <= mem.last)
        BY DEF Ranges
    <2> QED
        BY <2>1, Zenon DEF MemStore
<1>7. Held' = (Held \cup {seq}) \ (IF Over THEN {FirstStored(seq)} ELSE {})
    <2>1. Held' = DOMAIN n.msgs
        BY <1>5 DEF Held
    <2> QED
        BY <1>4, <2>1, Zenon
<1> QED
    BY <1>4, <1>5, <1>6, <1>7, Zenon

(* After a Store: where the sequences are, and what the limit leaves.         *)
LEMMA StoreKeeps ==
    ASSUME Ranges, Counts, NEW seq \in Nat, seq > mem.last, MemStore(seq)
    PROVE  /\ Ranges' /\ Counts'
           /\ seq \in Held' /\ mem'.msgs[seq] = memPubs + 1
           /\ \A q \in Held' : q # seq => q \in Held /\ mem'.msgs[q] = mem.msgs[q]
           /\ \A q \in Held : q >= mem'.first => q \in Held'
           /\ Over => FirstStored(seq) + 1 <= seq - MemMaxMsgs + 1
           /\ ~memGap' => (Over <=> MemMaxMsgs > 0 /\ seq - MemMaxMsgs + 1 > FirstStored(seq))
           /\ ~memGap' /\ Over => FirstStored(seq) + 1 = seq - MemMaxMsgs + 1
<1> DEFINE f == FirstStored(seq)
<1>1. /\ DOMAIN mem' = Fields /\ mem'.last = seq
      /\ mem'.first = IF Over THEN f + 1 ELSE f
      /\ mem'.totalCount = IF Over THEN mem.totalCount ELSE mem.totalCount + 1
      /\ Held' = (Held \cup {seq}) \ (IF Over THEN {f} ELSE {})
      /\ mem'.msgs = [q \in Held' |-> IF q = seq THEN memPubs + 1 ELSE mem.msgs[q]]
      /\ memPubs' = memPubs + 1
      /\ memGap' = (memGap \/ (mem.last > 0 /\ seq > mem.last + 1))
    BY StoreEffect, Zenon
<1>2. /\ Cardinality(Held) \in Nat /\ mem.totalCount \in Int
      /\ mem.totalCount <= Cardinality(Held)
      /\ mem.first = 0 => mem.totalCount <= 0
      /\ mem.first > 0 => Cardinality(Held) <= mem.last - mem.first + 1
      /\ mem.first > 0 /\ ~memGap => Cardinality(Held) = mem.last - mem.first + 1
    BY HeldInRange DEF Counts
<1>3. /\ mem.first \in Nat /\ mem.last \in Nat /\ mem.first <= mem.last + 1
      /\ mem.first = 0 <=> mem.last = 0
      /\ mem.msgs \in [Held -> Nat \ {0}] /\ Held \subseteq mem.first .. mem.last \ {0}
      /\ memPubs \in Nat /\ memGap \in BOOLEAN
    BY DEF Ranges
<1>4. f \in Nat /\ f > 0 /\ f >= mem.first /\ f <= seq /\ (mem.first > 0 => f = mem.first)
    BY <1>3 DEF FirstStored
<1>5. Over => mem.first > 0 /\ f < seq /\ seq - f >= MemMaxMsgs /\ f = mem.first
    BY <1>2, <1>3, <1>4, MemAssumption DEF Over
<1> HIDE DEF Held, f
<1>6. \A q \in Held : q \in Nat /\ q # 0 /\ q >= f /\ q <= mem.last /\ q < seq
    <2>1. mem.first > 0 \/ Held = {}
        BY <1>3
    <2> QED
        BY <1>3, <1>4, <2>1
<1>7. seq \in Held' /\ seq \notin Held
    BY <1>1, <1>5, <1>6
<1>8. Held' \subseteq mem'.first .. mem'.last \ {0}
    <2>1. CASE Over
        BY <1>1, <1>4, <1>5, <1>6, <2>1
    <2>2. CASE ~Over
        BY <1>1, <1>4, <1>6, <2>2
    <2> QED
        BY <2>1, <2>2
<1>9. mem'.msgs \in [Held' -> Nat \ {0}]
    <2>1. \A q \in Held' : q = seq \/ q \in Held
        BY <1>1
    <2>2. memPubs + 1 \in Nat \ {0}
        BY <1>3
    <2>3. \A q \in Held : mem.msgs[q] \in Nat \ {0}
        BY <1>3
    <2> QED
        BY <1>1, <2>1, <2>2, <2>3, Zenon
<1>10. /\ mem'.msgs[seq] = memPubs + 1
       /\ \A q \in Held' : q # seq => q \in Held /\ mem'.msgs[q] = mem.msgs[q]
    BY <1>1, <1>7
<1>11. \A q \in Held : q >= mem'.first => q \in Held'
    BY <1>1, <1>4, <1>6
<1>12. mem'.first \in Nat /\ mem'.last \in Nat /\ mem'.first <= mem'.last + 1 /\ mem'.first # 0
    BY <1>1, <1>4
<1>13. memPubs' \in Nat /\ memGap' \in BOOLEAN
    <2>1. memPubs' \in Nat
        BY <1>1, <1>3
    <2>2. memGap' \in BOOLEAN
        BY <1>1, Zenon
    <2> QED
        BY <2>1, <2>2
<1>14. Ranges'
    BY <1>1, <1>8, <1>9, <1>12, <1>13 DEF Ranges
<1>15. IsFiniteSet(Held') /\ mem'.totalCount <= Cardinality(Held')
       /\ (Cardinality(Held) = mem.totalCount /\ (Over => f \in Held) => mem'.totalCount = Cardinality(Held'))
    <2> DEFINE S == Held \cup {seq}
    <2>1. IsFiniteSet(S) /\ Cardinality(S) = Cardinality(Held) + 1
        BY <1>7, FS_AddElement DEF Counts
    <2> HIDE DEF S
    <2>2. CASE Over
        <3>1. Held' = S \ {f}
            BY <1>1, <2>2, Zenon DEF S
        <3>2. CASE f \in S
            <4>1. IsFiniteSet(S \ {f}) /\ Cardinality(S \ {f}) = Cardinality(S) - 1
                BY <2>1, <3>2, FS_RemoveElement
            <4> QED
                BY <1>1, <1>2, <2>1, <2>2, <3>1, <4>1
        <3>3. CASE f \notin S
            <4>1. Held' = S /\ f \notin Held
                BY <3>1, <3>3 DEF S
            <4>2. IsFiniteSet(Held') /\ Cardinality(Held') = Cardinality(Held) + 1
                BY <2>1, <4>1, Zenon
            <4> QED
                BY <1>1, <1>2, <2>2, <4>1, <4>2
        <3> QED
            BY <3>2, <3>3
    <2>3. CASE ~Over
        <3>1. Held' = S
            BY <1>1, <2>3 DEF S
        <3>2. IsFiniteSet(Held') /\ Cardinality(Held') = Cardinality(Held) + 1
            BY <2>1, <3>1, Zenon
        <3> QED
            BY <1>1, <1>2, <2>3, <3>2
    <2> QED
        BY <2>2, <2>3
<1>16. ~memGap' => /\ ~memGap /\ (mem.first > 0 => seq = mem.last + 1)
                   /\ Held = mem.first .. mem.last \ {0} /\ Cardinality(Held) = mem.totalCount
    <2> SUFFICES ASSUME ~memGap'
                 PROVE  /\ ~memGap /\ (mem.first > 0 => seq = mem.last + 1)
                        /\ Held = mem.first .. mem.last \ {0} /\ Cardinality(Held) = mem.totalCount
        OBVIOUS
    <2>1. ~memGap /\ ~(mem.last > 0 /\ seq > mem.last + 1)
        BY <1>1, Zenon
    <2>2. Held = mem.first .. mem.last \ {0} /\ Cardinality(Held) = mem.totalCount
        BY <2>1 DEF Counts
    <2>3. mem.first > 0 => seq = mem.last + 1
        BY <1>3, <2>1
    <2> QED
        BY <2>1, <2>2, <2>3
<1>17. ~memGap' => (Over => f \in Held)
    BY <1>3, <1>5, <1>16
<1>18. ~memGap' => Held' = mem'.first .. mem'.last \ {0}
    <2> SUFFICES ASSUME ~memGap' PROVE Held' = mem'.first .. mem'.last \ {0}
        OBVIOUS
    <2>1. CASE mem.first > 0
        <3>1. Held = f .. mem.last /\ seq = mem.last + 1
            <4>1. mem.first .. mem.last \ {0} = mem.first .. mem.last /\ f = mem.first
                BY <1>3, <1>4, <2>1
            <4> QED
                BY <1>16, <2>1, <4>1, Zenon
        <3>2. CASE Over
            BY <1>1, <1>3, <1>4, <1>5, <3>1, <3>2
        <3>3. CASE ~Over
            BY <1>1, <1>3, <1>4, <3>1, <3>3
        <3> QED
            BY <3>2, <3>3
    <2>2. CASE mem.first = 0
        <3>1. Held = {} /\ f = seq /\ ~Over
            BY <1>3, <1>5, <2>2 DEF f, FirstStored
        <3> QED
            BY <1>1, <1>4, <3>1
    <2> QED
        BY <1>3, <2>1, <2>2
<1>19. mem'.totalCount \in Int /\ (MemMaxMsgs > 0 => mem'.totalCount <= MemMaxMsgs)
    BY <1>1, <1>2, MemAssumption DEF Over, Counts
<1>20. Counts'
    BY <1>15, <1>16, <1>17, <1>18, <1>19 DEF Counts
<1>21. /\ Over => f + 1 <= seq - MemMaxMsgs + 1
       /\ ~memGap' => (Over <=> MemMaxMsgs > 0 /\ seq - MemMaxMsgs + 1 > f)
       /\ ~memGap' /\ Over => f + 1 = seq - MemMaxMsgs + 1
    <2>1. Over => f + 1 <= seq - MemMaxMsgs + 1
        BY <1>4, <1>5, MemAssumption
    <2>2. ASSUME ~memGap' PROVE /\ Over <=> MemMaxMsgs > 0 /\ seq - MemMaxMsgs + 1 > f
                                /\ Over => f + 1 = seq - MemMaxMsgs + 1
        <3>1. mem.totalCount = seq - f
            <4>1. CASE mem.first > 0
                BY <1>2, <1>3, <1>4, <1>16, <2>2, <4>1
            <4>2. CASE mem.first = 0
                <5>1. f = seq /\ Held = {}
                    BY <1>3, <4>2 DEF f, FirstStored
                <5>2. Cardinality(Held) = 0
                    BY <5>1, FS_EmptySet
                <5> QED
                    BY <1>4, <1>16, <2>2, <5>1, <5>2
            <4> QED
                BY <1>3, <4>1, <4>2
        <3>2. MemMaxMsgs > 0 => mem.totalCount <= MemMaxMsgs
            BY DEF Counts
        <3> QED
            BY <1>2, <1>4, <3>1, <3>2, MemAssumption DEF Over
    <2> QED
        BY <2>1, <2>2
<1> QED
    BY <1>7, <1>10, <1>11, <1>14, <1>20, <1>21 DEF f

-----------------------------------------------------------------------------
(* A set of natural numbers has a least one. *)
LEMMA Least ==
    ASSUME NEW S \in SUBSET Nat, S # {}
    PROVE  \E q \in S : \A r \in S : q <= r
<1> DEFINE R == OpToRel(<, Nat)
<1>1. \E q \in S : \A r \in S : ~(<<r, q>> \in R)
    <2>1. IsWellFoundedOn(R, Nat)
        BY NatLessThanWellFounded, Zenon
    <2> HIDE DEF R
    <2> QED
        BY <2>1, WFMin, Zenon
<1>2. \A q, r \in Nat : <<r, q>> \in R <=> r < q
    BY DEF OpToRel
<1> HIDE DEF R
<1>3. PICK q \in S : \A r \in S : ~(r < q)
    BY <1>1, <1>2, Zenon
<1>4. \A r \in S : q \in Nat /\ r \in Nat
    OBVIOUS
<1> QED
    BY <1>3, <1>4

(* What expireMsgs does to the messages, when the store is not closed: what   *)
(* lies before the first message that stays goes.                             *)
Staying(cut) == {q \in Held : MemTime(mem.msgs[q]) > cut}

LEMMA ExpireEffect ==
    ASSUME Ranges, Counts, NEW cut, MemExpireMsgs(cut), memClosed = "no"
    PROVE  /\ DOMAIN mem' = Fields /\ mem'.last = mem.last
           /\ mem'.first \in Nat /\ mem.first <= mem'.first /\ mem'.first <= mem.last + 1
           /\ mem.first = 0 <=> mem'.first = 0
           /\ Held' = {q \in Held : q >= mem'.first}
           /\ mem'.msgs = [q \in Held' |-> mem.msgs[q]]
           /\ mem'.totalCount = mem.totalCount - Cardinality(Held \ Held')
           /\ Staying(cut) # {} <=> Held' # {}
           /\ mem'.ageTimer = IF Staying(cut) # {} THEN mem.ageTimer ELSE 0
           /\ memPubs' = memPubs /\ memGap' = memGap
<1> DEFINE stay == Staying(cut)
           first == IF stay # {} THEN CHOOSE q \in stay : \A r \in stay : q <= r
                    ELSE IF mem.first = 0 THEN 0 ELSE mem.last + 1
           kept == {q \in Held : q >= first}
           m == [mem EXCEPT !.first = first, !.msgs = [q \in kept |-> @[q]],
                            !.totalCount = @ - Cardinality(Held \ kept)]
<1>1. /\ mem' = [m EXCEPT !.ageTimer = IF stay # {} THEN @ ELSE 0]
      /\ memPubs' = memPubs /\ memGap' = memGap
    BY Zenon DEF MemExpireMsgs, Staying, Held
<1>2. /\ mem.first \in Nat /\ mem.last \in Nat /\ mem.first <= mem.last + 1
      /\ mem.first = 0 <=> mem.last = 0
      /\ Held \subseteq mem.first .. mem.last \ {0} /\ DOMAIN mem = Fields
    BY DEF Ranges
<1>3. stay \subseteq Held
    BY DEF Staying
<1> HIDE DEF stay, Held
<1>4. /\ first \in Nat /\ mem.first <= first /\ first <= mem.last + 1
      /\ mem.first = 0 <=> first = 0
      /\ stay # {} <=> kept # {}
    <2>1. CASE stay # {}
        <3>1. stay \in SUBSET Nat
            BY <1>2, <1>3
        <3>2. \E q \in stay : \A r \in stay : q <= r
            BY <2>1, <3>1, Least
        <3>3. first \in stay
            BY <2>1, <3>2
        <3> HIDE DEF first
        <3> QED
            BY <1>2, <1>3, <2>1, <3>3
    <2>2. CASE stay = {}
        <3>1. first = IF mem.first = 0 THEN 0 ELSE mem.last + 1
            BY <2>2
        <3> HIDE DEF first
        <3>2. /\ first \in Nat /\ mem.first <= first /\ first <= mem.last + 1
              /\ mem.first = 0 <=> first = 0
            BY <1>2, <3>1
        <3>3. \A q \in Held : q \in Nat /\ q # 0 /\ q <= mem.last
            BY <1>2
        <3>4. \A q \in Held : ~(q >= first)
            BY <1>2, <3>1, <3>3
        <3> QED
            BY <2>2, <3>2, <3>4
    <2> QED
        BY <2>1, <2>2
<1> HIDE DEF first, kept
<1>5. /\ DOMAIN m = Fields /\ m.first = first /\ m.last = mem.last /\ m.ageTimer = mem.ageTimer
      /\ m.msgs = [q \in kept |-> mem.msgs[q]]
      /\ m.totalCount = mem.totalCount - Cardinality(Held \ kept)
    BY <1>2 DEF Fields
<1> HIDE DEF m
<1>6. /\ DOMAIN mem' = Fields /\ mem'.first = first /\ mem'.last = mem.last
      /\ mem'.msgs = [q \in kept |-> mem.msgs[q]]
      /\ mem'.totalCount = mem.totalCount - Cardinality(Held \ kept)
      /\ mem'.ageTimer = IF stay # {} THEN mem.ageTimer ELSE 0
    BY <1>1, <1>5 DEF Fields
<1>7. Held' = kept
    BY <1>6 DEF Held
<1>8. kept = {q \in Held : q >= mem'.first}
    BY <1>6 DEF kept
<1> QED
    BY <1>1, <1>4, <1>6, <1>7, <1>8, Zenon DEF stay

(* Expiration keeps the count and the range right. *)
LEMMA ExpireKeeps ==
    ASSUME Ranges, Counts, NEW cut, MemExpireMsgs(cut), memClosed = "no"
    PROVE  Ranges' /\ Counts'
<1> DEFINE gone == Held \ Held'
<1>1. /\ DOMAIN mem' = Fields /\ mem'.last = mem.last
      /\ mem'.first \in Nat /\ mem.first <= mem'.first /\ mem'.first <= mem.last + 1
      /\ mem.first = 0 <=> mem'.first = 0
      /\ Held' = {q \in Held : q >= mem'.first}
      /\ mem'.msgs = [q \in Held' |-> mem.msgs[q]]
      /\ mem'.totalCount = mem.totalCount - Cardinality(gone)
      /\ memPubs' = memPubs /\ memGap' = memGap
    BY ExpireEffect
<1>2. /\ mem.first \in Nat /\ mem.last \in Nat /\ mem.first <= mem.last + 1
      /\ mem.first = 0 <=> mem.last = 0
      /\ mem.msgs \in [Held -> Nat \ {0}]
      /\ Held \subseteq mem.first .. mem.last \ {0}
      /\ memPubs \in Nat /\ memGap \in BOOLEAN
    BY DEF Ranges
<1> HIDE DEF Held
<1>3. Ranges'
    <2>1. mem'.msgs \in [Held' -> Nat \ {0}]
        <3>1. \A q \in Held' : mem.msgs[q] \in Nat \ {0}
            BY <1>1, <1>2
        <3> QED
            BY <1>1, <3>1, Zenon
    <2>2. Held' \subseteq mem'.first .. mem'.last \ {0}
        <3>1. \A q \in Held' : q \in Held /\ q >= mem'.first
            BY <1>1
        <3>2. \A q \in Held : q \in Nat /\ q # 0 /\ q <= mem.last
            BY <1>2
        <3>3. mem'.last = mem.last /\ mem'.first \in Nat /\ mem.last \in Nat
            BY <1>1, <1>2
        <3> QED
            BY <3>1, <3>2, <3>3
    <2> QED
        BY <1>1, <1>2, <2>1, <2>2 DEF Ranges
<1>4. IsFiniteSet(Held') /\ Cardinality(gone) \in Nat /\ Cardinality(Held) \in Nat
      /\ Cardinality(Held') = Cardinality(Held) - Cardinality(gone)
    <2> DEFINE A == Held
               B == Held'
    <2>1. B \in SUBSET A /\ IsFiniteSet(A) /\ A \cap (A \ B) = A \ B /\ B = A \ (A \ B)
        BY <1>1 DEF Counts
    <2>2. IsFiniteSet(A \ B) /\ IsFiniteSet(B)
        BY <2>1, FS_Subset
    <2> HIDE DEF A, B
    <2>3. Cardinality(A \ (A \ B)) = Cardinality(A) - Cardinality(A \cap (A \ B))
        <3> DEFINE C == A \ B
        <3>1. IsFiniteSet(A) /\ IsFiniteSet(C)
            BY <2>1, <2>2
        <3> HIDE DEF C
        <3>2. Cardinality(A \ C) = Cardinality(A) - Cardinality(A \cap C)
            BY <3>1, FS_Difference, Zenon
        <3> QED
            BY <3>2 DEF C
    <2>4. Cardinality(B) = Cardinality(A) - Cardinality(A \ B)
        BY <2>1, <2>3, Zenon
    <2>5. Cardinality(A) \in Nat /\ Cardinality(A \ B) \in Nat
        BY <2>1, <2>2, FS_CardinalityType
    <2> QED
        BY <2>2, <2>4, <2>5 DEF A, B
<1>5. ~memGap' => Held' = mem'.first .. mem'.last \ {0}
    BY <1>1, <1>2 DEF Counts
<1> HIDE DEF gone
<1>6. Counts'
    BY <1>1, <1>4, <1>5, MemAssumption DEF Counts
<1> QED
    BY <1>3, <1>6

-----------------------------------------------------------------------------
(* The store after Empty. *)
LEMMA EmptyRight ==
    /\ DOMAIN MemEmptyStore = Fields /\ MemEmptyStore.first = 0 /\ MemEmptyStore.last = 0
    /\ MemEmptyStore.totalCount = 0 /\ MemEmptyStore.ageTimer = 0
    /\ DOMAIN MemEmptyStore.msgs = {} /\ MemEmptyStore.msgs \in [{} -> Nat \ {0}]
    /\ {} = 0 .. 0 \ {0} /\ IsFiniteSet({}) /\ Cardinality({}) = 0
<1>1. IsFiniteSet({}) /\ Cardinality({}) = 0
    BY FS_EmptySet
<1>2. MemEmptyStore.msgs = [q \in {} |-> 0]
    BY DEF MemEmptyStore, NoMsgs
<1>3. MemEmptyStore.msgs \in [{} -> Nat \ {0}] /\ DOMAIN MemEmptyStore.msgs = {}
    BY <1>2, Zenon
<1>4. {} = 0 .. 0 \ {0}
    OBVIOUS
<1> QED
    BY <1>1, <1>3, <1>4 DEF MemEmptyStore, Fields

(* Ranges and counts, kept by every step. *)
LEMMA RangesInv == MemSpec => [](Ranges /\ Counts)
<1>1. MemInit => Ranges /\ Counts
    <2> SUFFICES ASSUME MemInit PROVE Ranges /\ Counts
        OBVIOUS
    <2>1. mem = MemEmptyStore /\ memPubs = 0 /\ memGap = FALSE
        BY DEF MemInit
    <2>2. Held = {}
        BY <2>1, EmptyRight DEF Held
    <2>3. memGap \in BOOLEAN /\ Held = mem.first .. mem.last \ {0}
        BY <2>1, <2>2, EmptyRight, Zenon
    <2>4. Ranges
        BY <2>1, <2>2, <2>3, EmptyRight DEF Ranges
    <2>5. Counts
        BY <2>1, <2>2, <2>3, EmptyRight, MemAssumption DEF Counts
    <2> QED
        BY <2>4, <2>5
<1>2. Ranges /\ Counts /\ [MemNext]_memVars => (Ranges /\ Counts)'
    <2> SUFFICES ASSUME Ranges, Counts, [MemNext]_memVars PROVE Ranges' /\ Counts'
        OBVIOUS
    <2>0. CASE UNCHANGED <<mem, memPubs, memGap>>
        BY <2>0 DEF Ranges, Counts, Held
    <2>1. ASSUME NEW seq \in Nat, MemStore(seq) PROVE Ranges' /\ Counts'
        <3>1. CASE seq > mem.last
            BY <2>1, <3>1, StoreKeeps
        <3>2. CASE ~(seq > mem.last)
            <4>1. UNCHANGED <<mem, memPubs, memGap>>
                BY <2>1, <3>2 DEF MemStore
            <4> QED
                BY <2>0, <4>1
        <3> QED
            BY <3>1, <3>2
    <2>2. ASSUME NEW cut, MemExpireMsgs(cut) PROVE Ranges' /\ Counts'
        <3>1. CASE memClosed = "no"
            BY <2>2, <3>1, ExpireKeeps
        <3>2. CASE memClosed # "no"
            <4>1. UNCHANGED <<mem, memPubs, memGap>>
                BY <2>2, <3>2 DEF MemExpireMsgs
            <4> QED
                BY <2>0, <4>1
        <3> QED
            BY <3>1, <3>2
    <2>3. CASE MemEmpty
        <3>1. mem' = MemEmptyStore /\ memPubs' = memPubs /\ memGap' = FALSE
            BY <2>3 DEF MemEmpty
        <3>2. Held' = {}
            BY <3>1, EmptyRight DEF Held
        <3>3. memGap' \in BOOLEAN /\ Held' = mem'.first .. mem'.last \ {0} /\ memPubs \in Nat
            BY <3>1, <3>2, EmptyRight, Zenon DEF Ranges
        <3>4. Ranges'
            BY <3>1, <3>2, <3>3, EmptyRight DEF Ranges
        <3>5. Counts'
            BY <3>1, <3>2, <3>3, EmptyRight, MemAssumption DEF Counts
        <3> QED
            BY <3>4, <3>5
    <2>4. ASSUME MemClose \/ (\E t \in armed : MemFire(t)) \/ UNCHANGED memVars
          PROVE  UNCHANGED <<mem, memPubs, memGap>>
        BY <2>4 DEF MemClose, MemFire, memVars
    <2>5. \A seq \in 1 .. mem.last + 1 + MemMaxGap : seq \in Nat
        BY MemAssumption DEF Ranges
    <2> QED
        BY <2>0, <2>1, <2>2, <2>3, <2>4, <2>5 DEF MemNext
<1> QED
    BY <1>1, <1>2, PTL DEF MemSpec

-----------------------------------------------------------------------------
(* What Lookup finds, after a step that keeps or drops messages. *)
LEMMA FoundKept ==
    ASSUME Ranges, Ranges', mem'.first >= mem.first \/ mem.first = 0,
           \A q \in Held' : q <= mem.last => q \in Held /\ mem'.msgs[q] = mem.msgs[q],
           \A q \in Held : q >= mem'.first => q \in Held'
    PROVE  MemAbs!Kept
<1>1. /\ DOMAIN MemFound' = mem'.first .. mem'.last \ {0}
      /\ DOMAIN MemFound = mem.first .. mem.last \ {0}
    BY DEF MemFound
<1>2. ASSUME NEW q \in mem.first .. mem.last \ {0}, q \in mem'.first .. mem'.last
      PROVE  MemFound'[q] = MemFound[q]
    <2>1. /\ MemFound[q] = IF q \in Held THEN mem.msgs[q] ELSE 0
          /\ MemFound'[q] = IF q \in Held' THEN mem'.msgs[q] ELSE 0
        BY <1>2 DEF MemFound, Held
    <2>2. q <= mem.last /\ q >= mem'.first
        BY <1>2 DEF Ranges
    <2> QED
        BY <2>1, <2>2
<1> QED
    BY <1>1, <1>2, Zenon DEF MemAbs!Kept

(* Every step of the memory store is a step of the message store, or changes  *)
(* nothing that its interface shows: gaps, duplicates, the limit, expiration   *)
(* and Empty included.                                                         *)
THEOREM MemRefinesMsgStore == MemSpec => MemImplementsMsgStore
<1> DEFINE shown == <<mem.first, mem.last, MemFound, memGap>>
<1>1. MemInit => MemAbs!Init
    <2> SUFFICES ASSUME MemInit PROVE MemAbs!Init
        OBVIOUS
    <2>1. mem.first = 0 /\ mem.last = 0 /\ memGap = FALSE
        BY EmptyRight DEF MemInit
    <2>2. DOMAIN MemFound = {} /\ MemFound = [q \in {} |-> 0]
        BY <2>1, EmptyRight DEF MemFound
    <2> QED
        BY <2>1, <2>2 DEF MemAbs!Init
<1>2. (Ranges /\ Counts) /\ (Ranges /\ Counts)' /\ [MemNext]_memVars => [MemAbs!Next]_shown
    <2> SUFFICES ASSUME Ranges, Counts, Ranges', [MemNext]_memVars
                 PROVE  MemAbs!Next \/ UNCHANGED shown
        OBVIOUS
    <2>0. CASE UNCHANGED <<mem, memGap>>
        BY <2>0 DEF MemFound
    <2>1. ASSUME NEW seq \in Nat, MemStore(seq), seq > mem.last PROVE MemAbs!Next
        <3> DEFINE f == FirstStored(seq)
                   low == seq - MemMaxMsgs + 1
                   limit == IF MemMaxMsgs > 0 /\ low > f THEN low ELSE f
        <3>1. /\ mem'.last = seq /\ mem'.first = IF Over THEN f + 1 ELSE f
              /\ memGap' = (memGap \/ (mem.last > 0 /\ seq > mem.last + 1))
            BY <2>1, StoreEffect, Zenon
        <3>2. /\ seq \in Held' /\ mem'.msgs[seq] = memPubs + 1
              /\ \A q \in Held' : q # seq => q \in Held /\ mem'.msgs[q] = mem.msgs[q]
              /\ \A q \in Held : q >= mem'.first => q \in Held'
              /\ Over => f + 1 <= low
              /\ ~memGap' => (Over <=> MemMaxMsgs > 0 /\ low > f)
              /\ ~memGap' /\ Over => f + 1 = low
            BY <2>1, StoreKeeps
        <3>3. /\ mem.first \in Nat /\ mem.last \in Nat /\ memPubs \in Nat /\ memGap \in BOOLEAN
              /\ Held \subseteq mem.first .. mem.last \ {0} /\ Held' \subseteq mem'.first .. mem'.last \ {0}
            BY DEF Ranges
        <3>4. f \in Nat /\ (mem.first = 0 \/ f = mem.first) /\ f = IF mem.first = 0 THEN mem'.last ELSE mem.first
            BY <3>1, <3>3 DEF FirstStored
        <3> HIDE DEF f
        <3>5. MemAbs!Kept
            <4>1. mem'.first >= mem.first \/ mem.first = 0
                BY <3>1, <3>3, <3>4
            <4>2. \A q \in Held' : q <= mem.last => q # seq
                BY <2>1, <3>3
            <4>3. \A q \in Held' : q <= mem.last => q \in Held /\ mem'.msgs[q] = mem.msgs[q]
                BY <3>2, <4>2, Zenon
            <4> QED
                BY <3>2, <4>1, <4>3, FoundKept, Zenon
        <3>6. mem'.first \in f .. limit /\ (memGap' \/ mem'.first = limit)
            <4>1. low \in Int
                BY MemAssumption
            <4>2. CASE Over
                BY <3>1, <3>2, <3>4, <4>1, <4>2, MemAssumption DEF Over
            <4>3. CASE ~Over
                BY <3>1, <3>2, <3>4, <4>1, <4>3
            <4> QED
                BY <4>2, <4>3
        <3>7. MemFound'[mem'.last] # 0
            <4>1. mem'.last \in mem'.first .. mem'.last \ {0}
                BY <3>1, <3>2, <3>3
            <4>2. MemFound'[mem'.last] = mem'.msgs[seq]
                BY <3>1, <3>2, <4>1 DEF MemFound, Held
            <4> QED
                BY <3>2, <3>3, <4>2
        <3>8. ASSUME NEW q \in mem.last + 1 .. mem'.last - 1, q \in DOMAIN MemFound'
              PROVE  MemFound'[q] = 0
            <4>1. q \notin Held'
                BY <3>1, <3>2, <3>3
            <4>2. DOMAIN MemFound' = mem'.first .. mem'.last \ {0}
                BY DEF MemFound
            <4> QED
                BY <3>8, <4>1, <4>2 DEF MemFound, Held
        <3>9. memGap' = memGap \/ (memGap' = TRUE /\ mem'.last > mem.last + 1 /\ mem.last > 0)
            <4>1. CASE mem.last > 0 /\ seq > mem.last + 1
                BY <3>1, <4>1, Zenon
            <4>2. CASE ~(mem.last > 0 /\ seq > mem.last + 1)
                BY <3>1, <3>3, <4>2, Zenon
            <4> QED
                BY <4>1, <4>2, Zenon
        <3>10. mem'.last > mem.last
            BY <2>1, <3>1
        <3>11. limit = IF MemMaxMsgs > 0 /\ mem'.last - MemMaxMsgs + 1 > f THEN mem'.last - MemMaxMsgs + 1 ELSE f
            BY <3>1, Zenon
        <3> HIDE DEF limit
        <3>12. MemAbs!Store
            BY <3>4, <3>5, <3>6, <3>7, <3>8, <3>9, <3>10, <3>11, Zenon DEF MemAbs!Store
        <3> QED
            BY <3>12 DEF MemAbs!Next
    <2>2. ASSUME NEW seq \in Nat, MemStore(seq), ~(seq > mem.last) PROVE UNCHANGED shown
        <3>1. UNCHANGED <<mem, memGap>>
            BY <2>2 DEF MemStore
        <3> QED
            BY <3>1 DEF MemFound
    <2>3. ASSUME NEW cut, MemExpireMsgs(cut) PROVE MemAbs!Next \/ UNCHANGED shown
        <3>1. CASE memClosed # "no"
            <4>1. UNCHANGED <<mem, memGap>>
                BY <2>3, <3>1 DEF MemExpireMsgs
            <4> QED
                BY <2>0, <4>1
        <3>2. CASE memClosed = "no"
            <4>1. /\ mem'.last = mem.last
                  /\ mem'.first \in Nat /\ mem.first <= mem'.first /\ mem'.first <= mem.last + 1
                  /\ Held' = {q \in Held : q >= mem'.first}
                  /\ mem'.msgs = [q \in Held' |-> mem.msgs[q]]
                  /\ memGap' = memGap
                BY <2>3, <3>2, ExpireEffect
            <4>2. mem.first \in Nat /\ mem.last \in Nat /\ Held \subseteq mem.first .. mem.last \ {0}
                BY DEF Ranges
            <4>3. MemAbs!Kept
                <5>1. \A q \in Held' : q \in Held /\ mem'.msgs[q] = mem.msgs[q]
                    BY <4>1
                <5>2. \A q \in Held : q >= mem'.first => q \in Held'
                    BY <4>1
                <5>3. mem'.first >= mem.first
                    BY <4>1, <4>2
                <5> QED
                    BY <5>1, <5>2, <5>3, FoundKept
            <4>4. CASE mem'.first = mem.first
                <5>1. /\ DOMAIN MemFound' = mem.first .. mem.last \ {0}
                      /\ DOMAIN MemFound = mem.first .. mem.last \ {0}
                    BY <4>1, <4>4 DEF MemFound
                <5>2. \A q \in mem.first .. mem.last \ {0} : MemFound'[q] = MemFound[q]
                    <6>1. \A q \in mem.first .. mem.last \ {0} : q \in mem'.first .. mem'.last
                        BY <4>1, <4>4
                    <6> QED
                        BY <4>3, <5>1, <6>1, Zenon DEF MemAbs!Kept
                <5>3. MemFound' = MemFound
                    <6>1. /\ MemFound = [q \in DOMAIN MemFound |-> MemFound[q]]
                          /\ MemFound' = [q \in DOMAIN MemFound' |-> MemFound'[q]]
                        BY DEF MemFound
                    <6> HIDE DEF MemFound
                    <6> QED
                        BY <5>1, <5>2, <6>1, Zenon
                <5> QED
                    BY <4>1, <4>4, <5>3
            <4>5. CASE mem'.first # mem.first
                <5>1. mem'.first \in mem.first + 1 .. mem.last + 1
                    BY <4>1, <4>2, <4>5
                <5> QED
                    BY <4>1, <4>3, <5>1 DEF MemAbs!Next, MemAbs!Expire
            <4> QED
                BY <4>4, <4>5
        <3> QED
            BY <3>1, <3>2
    <2>4. CASE MemEmpty
        <3>1. mem'.first = 0 /\ mem'.last = 0 /\ memGap' = FALSE
            BY <2>4, EmptyRight DEF MemEmpty
        <3>2. MemAbs!Kept
            <4>1. DOMAIN MemFound' = mem'.first .. mem'.last \ {0}
                BY DEF MemFound
            <4>2. \A q \in DOMAIN MemFound : q # 0
                BY DEF MemFound
            <4> QED
                BY <3>1, <4>1, <4>2 DEF MemAbs!Kept
        <3> QED
            BY <3>1, <3>2 DEF MemAbs!Next, MemAbs!Empty
    <2>5. ASSUME MemClose \/ (\E t \in armed : MemFire(t)) \/ UNCHANGED memVars
          PROVE  UNCHANGED <<mem, memGap>>
        BY <2>5 DEF MemClose, MemFire, memVars
    <2>6. \A seq \in 1 .. mem.last + 1 + MemMaxGap : seq \in Nat
        BY MemAssumption DEF Ranges
    <2> QED
        BY <2>0, <2>1, <2>2, <2>3, <2>4, <2>5, <2>6 DEF MemNext
<1> QED
    BY <1>1, <1>2, RangesInv, PTL DEF MemSpec, MemImplementsMsgStore

(* One element more, at most. *)
LEMMA CardAdd ==
    ASSUME NEW S, IsFiniteSet(S), NEW x
    PROVE  /\ IsFiniteSet(S \cup {x})
           /\ Cardinality(S \cup {x}) \in Nat /\ Cardinality(S \cup {x}) <= Cardinality(S) + 1
<1>1. IsFiniteSet(S \cup {x}) /\ Cardinality(S \cup {x}) = IF x \in S THEN Cardinality(S) ELSE Cardinality(S) + 1
    BY FS_AddElement
<1>2. Cardinality(S) \in Nat
    BY FS_CardinalityType
<1> QED
    BY <1>1, <1>2

(* The timers, kept by every step. *)
LEMMA TimersInv == MemSpec => []Timers
<1>1. MemInit => Timers
    BY EmptyRight DEF MemInit, Timers
<1>2. (Ranges /\ Counts) /\ Timers /\ [MemNext]_memVars => Timers'
    <2> SUFFICES ASSUME Ranges, Counts, Timers, [MemNext]_memVars PROVE Timers'
        OBVIOUS
    <2>0. Cardinality(armed) \in Nat
        BY FS_CardinalityType DEF Timers
    <2>1. ASSUME NEW seq \in Nat, MemStore(seq) PROVE Timers'
        <3>0. CASE ~(seq > mem.last)
            <4>1. UNCHANGED <<mem, memTimers, armed, wg, callbacks, memClosed>>
                BY <2>1, <3>0 DEF MemStore
            <4> QED
                BY <4>1 DEF Timers
        <3>1. CASE seq > mem.last /\ mem.ageTimer = 0
            <4>1. mem'.ageTimer = memTimers + 1
                BY <2>1, <3>1, StoreEffect, Zenon
            <4>2. /\ memTimers' = memTimers + 1
                  /\ armed' = armed \cup {memTimers + 1} /\ wg' = wg + 1
                  /\ UNCHANGED <<callbacks, memClosed>> /\ memClosed = "no"
                <5>1. ~(seq <= mem.last)
                    BY <3>1 DEF Ranges
                <5> QED
                    BY <2>1, <3>1, <5>1, Zenon DEF MemStore
            <4>3. IsFiniteSet(armed') /\ Cardinality(armed') \in Nat /\ Cardinality(armed') <= Cardinality(armed) + 1
                BY <4>2, CardAdd, Zenon DEF Timers
            <4> QED
                BY <2>0, <4>1, <4>2, <4>3 DEF Timers
        <3>2. CASE seq > mem.last /\ mem.ageTimer # 0
            <4>1. mem'.ageTimer = mem.ageTimer
                BY <2>1, <3>2, StoreEffect, Zenon
            <4>2. UNCHANGED <<memTimers, armed, wg, callbacks, memClosed>>
                <5>1. ~(seq <= mem.last)
                    BY <3>2 DEF Ranges
                <5> QED
                    BY <2>1, <3>2, <5>1, Zenon DEF MemStore
            <4> QED
                BY <3>2, <4>1, <4>2 DEF Timers
        <3> QED
            BY <3>0, <3>1, <3>2
    <2>2. ASSUME NEW t \in armed, MemFire(t) PROVE Timers'
        <3>1. armed' = armed \ {t} /\ callbacks' = callbacks + 1 /\ UNCHANGED <<mem, wg, memClosed, memTimers>>
            BY <2>2 DEF MemFire
        <3>2. IsFiniteSet(armed') /\ Cardinality(armed') = Cardinality(armed) - 1
            BY <3>1, FS_RemoveElement DEF Timers
        <3> QED
            BY <2>0, <3>1, <3>2 DEF Timers
    <2>3. ASSUME NEW cut, MemExpireMsgs(cut) PROVE Timers'
        <3>1. callbacks > 0 /\ callbacks' = callbacks - 1 /\ UNCHANGED <<memClosed, memTimers>> /\ memClosed # "closed"
            BY <2>3 DEF MemExpireMsgs, Timers
        <3>2. CASE memClosed # "no"
            <4>1. wg' = wg - 1 /\ UNCHANGED <<mem, armed>>
                BY <2>3, <3>2 DEF MemExpireMsgs
            <4> QED
                BY <2>0, <3>1, <3>2, <4>1 DEF Timers
        <3>3. CASE memClosed = "no"
            <4> DEFINE left == Staying(cut) # {}
            <4>1. /\ mem'.ageTimer = IF left THEN mem.ageTimer ELSE 0
                  /\ left <=> Held' # {}
                BY <2>3, <3>3, ExpireEffect, Zenon
            <4>2. /\ wg' = IF left THEN wg ELSE wg - 1
                  /\ armed' = IF left THEN armed \cup {mem.ageTimer} ELSE armed
                  /\ left => Held # {}
                <5>1. left => Held # {}
                    BY DEF Staying
                <5> QED
                    BY <2>3, <3>3, <5>1, Zenon DEF MemExpireMsgs, Staying, Held
            <4> HIDE DEF left
            <4>3. CASE left
                <5>1. mem'.ageTimer = mem.ageTimer /\ mem.ageTimer # 0 /\ mem.ageTimer \in armed'
                    BY <3>3, <4>1, <4>2, <4>3 DEF Timers, Held
                <5>2. IsFiniteSet(armed') /\ Cardinality(armed') \in Nat /\ Cardinality(armed') <= Cardinality(armed) + 1
                    BY <4>2, <4>3, CardAdd, Zenon DEF Timers
                <5> QED
                    BY <2>0, <3>1, <3>3, <4>2, <4>3, <5>1, <5>2 DEF Timers
            <4>4. CASE ~left
                <5>1. mem'.ageTimer = 0 /\ DOMAIN mem'.msgs = {}
                    BY <4>1, <4>4 DEF Held
                <5> QED
                    BY <2>0, <3>1, <3>3, <4>2, <4>4, <5>1 DEF Timers
            <4> QED
                BY <4>3, <4>4
        <3> QED
            BY <3>2, <3>3
    <2>4. ASSUME StopTimer
          PROVE  /\ IsFiniteSet(armed') /\ Cardinality(armed') \in Nat
                 /\ wg' \in Int /\ wg' >= Cardinality(armed') + callbacks
        <3>1. CASE mem.ageTimer \in armed
            <4>1. IsFiniteSet(armed') /\ Cardinality(armed') = Cardinality(armed) - 1 /\ wg' = wg - 1
                BY <2>4, <3>1, FS_RemoveElement DEF Timers, StopTimer
            <4> QED
                BY <2>0, <4>1, FS_CardinalityType DEF Timers
        <3>2. CASE mem.ageTimer \notin armed
            <4>1. armed' = armed /\ wg' = wg
                BY <2>4, <3>2 DEF StopTimer
            <4> QED
                BY <2>0, <4>1 DEF Timers
        <3> QED
            BY <3>1, <3>2
    <2>5. CASE MemEmpty
        <3>1. /\ memClosed = "no" /\ StopTimer /\ UNCHANGED <<callbacks, memClosed, memTimers>>
              /\ mem'.ageTimer = 0 /\ DOMAIN mem'.msgs = {}
            BY <2>5, EmptyRight DEF MemEmpty
        <3> QED
            BY <2>4, <3>1 DEF Timers
    <2>6. CASE MemClose
        <3>1. CASE memClosed = "no"
            <4>1. memClosed' = "waiting" /\ StopTimer /\ UNCHANGED <<mem, callbacks, memTimers>>
                BY <2>6, <3>1 DEF MemClose
            <4> QED
                BY <2>4, <4>1 DEF Timers
        <3>2. CASE memClosed # "no"
            <4>1. wg = 0 /\ memClosed' = "closed" /\ UNCHANGED <<mem, callbacks, memTimers, armed, wg>>
                BY <2>6, <3>2 DEF MemClose
            <4>2. Cardinality(armed) = 0 /\ callbacks = 0
                BY <2>0, <4>1 DEF Timers
            <4>3. armed = {}
                BY <4>2, FS_EmptySet DEF Timers
            <4> QED
                BY <4>1, <4>2, <4>3 DEF Timers
        <3> QED
            BY <3>1, <3>2
    <2>7. CASE UNCHANGED memVars
        BY <2>7 DEF memVars, Timers
    <2>8. \A seq \in 1 .. mem.last + 1 + MemMaxGap : seq \in Nat
        BY MemAssumption DEF Ranges
    <2> QED
        BY <2>1, <2>2, <2>3, <2>5, <2>6, <2>7, <2>8 DEF MemNext
<1> QED
    BY <1>1, <1>2, RangesInv, PTL DEF MemSpec

(* A stored message always has a timer or a callback of expireMsgs coming for *)
(* it, and Close waits for each of them, whatever Empty does in between.      *)
THEOREM TimersAlwaysRight == MemSpec => []MemTimersRight
<1>1. Timers => MemTimersRight
    BY DEF Timers, MemTimersRight
<1> QED
    BY <1>1, TimersInv, PTL
=============================================================================
