--------------------------- MODULE ChannelsProofs ---------------------------
(* A channel is never deleted under a subscription, for any number of        *)
(* creations, requests and messages, and with every failure of the store.    *)
EXTENDS Channels, TLAPS

(* The time each step may take, for the ones that name no prover. *)
USE SMTT(60)

Pcs == {"new", "held", "subscribed", "failed", "closing", "active", "done"}

Shape ==
    /\ created \in 0..MaxCreates /\ cur \in 0..created
    /\ timer \in [Objects -> BOOLEAN] /\ deleteInProgress \in [Objects -> BOOLEAN]
    /\ preventDelete \in [Objects -> BOOLEAN]
    /\ ioChannel \in Seq(Nat) /\ \A i \in 1..Len(ioChannel) : ioChannel[i] <= created
    /\ chSubPc \in [ChanSubs -> Pcs] /\ chOf \in [ChanSubs -> 0..MaxCreates]
    /\ chActive \in [Objects -> SUBSET ChanSubs]
    /\ \A s \in ChanSubs : chOf[s] <= created
    /\ \A c \in Objects : timer[c] => c <= created

(* The channel objects: all but the current one were deleted, and stay marked, *)
(* so that a late request for one of them is ignored; a deletion that was      *)
(* decided is for the current one.                                             *)
Marked ==
    /\ \A c \in Objects : IF c <= created THEN c = cur \/ deleteInProgress[c]
                          ELSE ~deleteInProgress[c]
    /\ ioPc # NoChannel => ioPc = cur /\ deleteInProgress[cur]

(* The requests: one at a time is between holding the channel and releasing it, *)
(* preventDelete is set for as long, and nothing is added to a channel that is  *)
(* marked.                                                                      *)
Busy(s) == chSubPc[s] \in {"held", "subscribed", "failed"}
Held ==
    /\ \A s, t \in ChanSubs : Busy(s) /\ Busy(t) => s = t
    /\ \A s \in ChanSubs : chSubPc[s] = "held" => /\ chOf[s] \in Objects /\ preventDelete[chOf[s]]
                                                  /\ chOf[s] = cur /\ ~deleteInProgress[cur]
    /\ \A c \in Objects : hasActiveSubs(c) => c = cur /\ ~deleteInProgress[c]

ChInv == Shape /\ Marked /\ Held

(* The timer and the queue of requests, which the deletion relies on only for  *)
(* the object of a request to exist.                                           *)
LEMMA QueueSteps ==
    ASSUME ChInv, chPublish \/ \E c \in Objects : sendDeleteChannelRequest(c)
    PROVE  ChInv'
<1>0. Shape
    BY DEF ChInv
<1>1. ASSUME NEW x \in 0..created, ioChannel' = Append(ioChannel, x),
             UNCHANGED <<created>>
      PROVE  ioChannel' \in Seq(Nat) /\ \A i \in 1..Len(ioChannel') : ioChannel'[i] <= created'
    BY <1>0, <1>1, ChannelsAssumption DEF Shape
<1>2. CASE chPublish
    <2>1. UNCHANGED <<cur, created, timer, deleteInProgress, preventDelete, ioPc, chSubPc, chOf, chActive>>
        BY <1>2 DEF chPublish, actVars
    <2>2. Shape'
        BY <1>0, <1>1, <1>2, <2>1, ChannelsAssumption DEF chPublish, Shape, NoChannel
    <2>3. Marked' /\ Held'
        BY <2>1 DEF ChInv, Marked, Held, Busy, hasActiveSubs
    <2> QED
        BY <2>2, <2>3 DEF ChInv
<1>3. ASSUME NEW c \in Objects, sendDeleteChannelRequest(c) PROVE ChInv'
    <2>1. UNCHANGED <<cur, created, deleteInProgress, preventDelete, ioPc, chSubPc, chOf, chActive>>
        BY <1>3 DEF sendDeleteChannelRequest
    <2>2. /\ timer[c] /\ timer' = [timer EXCEPT ![c] = FALSE] /\ ioChannel' = Append(ioChannel, c)
        BY <1>3 DEF sendDeleteChannelRequest
    <2>3. c \in 0..created
        BY <1>0, <2>2 DEF Shape, Objects
    <2>4. ioChannel' \in Seq(Nat) /\ \A i \in 1..Len(ioChannel') : ioChannel'[i] <= created'
        BY <1>1, <2>1, <2>2, <2>3
    <2>5. timer' \in [Objects -> BOOLEAN] /\ \A d \in Objects : timer'[d] => d <= created
        BY <1>0, <2>2 DEF Shape
    <2>6. Shape'
        BY <1>0, <2>1, <2>4, <2>5 DEF Shape
    <2>7. Marked' /\ Held'
        BY <2>1 DEF ChInv, Marked, Held, Busy, hasActiveSubs
    <2> QED
        BY <2>6, <2>7 DEF ChInv
<1> QED
    BY <1>2, <1>3

(* Taking the first request out of the queue. *)
LEMMA Dequeued ==
    ASSUME Shape, ioChannel # <<>>, ioChannel' = Tail(ioChannel), created' \in Nat, created' >= created
    PROVE  /\ ioChannel' \in Seq(Nat) /\ \A i \in 1..Len(ioChannel') : ioChannel'[i] <= created'
           /\ Head(ioChannel) \in 0..created
<1>1. \A i \in 1..Len(ioChannel') : ioChannel'[i] = ioChannel[i + 1] /\ i + 1 \in 1..Len(ioChannel)
    BY DEF Shape
<1>2. Len(ioChannel) >= 1 /\ Head(ioChannel) = ioChannel[1] /\ Head(ioChannel) \in Nat
    BY DEF Shape
<1>3. \A i \in 1..Len(ioChannel) : ioChannel[i] \in Nat /\ ioChannel[i] <= created
    BY DEF Shape
<1>4. ioChannel' \in Seq(Nat)
    BY DEF Shape
<1>5. Head(ioChannel) <= created /\ created \in Nat
    BY <1>2, <1>3 DEF Shape
<1>6. ASSUME NEW i \in 1..Len(ioChannel') PROVE ioChannel'[i] <= created'
    BY <1>1, <1>3, <1>5
<1> QED
    BY <1>2, <1>4, <1>5, <1>6

(* The channel is created when there is none, so no subscription is on another. *)
LEMMA CreateStep ==
    ASSUME ChInv, ioPc = NoChannel, cur = NoChannel, createChannelLocked,
           UNCHANGED <<deleteInProgress, ioPc, chActive>>
    PROVE  /\ created' \in 0..MaxCreates /\ created' = created + 1 /\ cur' = created' /\ cur' \in Objects
           /\ Marked'
           /\ \A c \in Objects : ~hasActiveSubs(c)' /\ ~deleteInProgress[cur']
           /\ \A s \in ChanSubs : chSubPc[s] # "held"
<1>0. Shape /\ Marked /\ Held
    BY DEF ChInv
<1>1. created \in Nat /\ created' = created + 1 /\ cur' = created' /\ created < MaxCreates
    BY <1>0 DEF createChannelLocked, Shape
<1>2. created' \in 0..MaxCreates /\ cur' \in Objects
    BY <1>1, ChannelsAssumption DEF Objects
<1>3. ~deleteInProgress[cur']
    BY <1>0, <1>1, <1>2 DEF Marked
<1>4. Marked'
    <2>1. ASSUME NEW c \in Objects
          PROVE  IF c <= created' THEN c = cur' \/ deleteInProgress[c] ELSE ~deleteInProgress[c]
        BY <1>0, <1>1 DEF Marked, Objects, NoChannel
    <2> QED
        BY <2>1 DEF Marked
<1>5. \A c \in Objects : ~hasActiveSubs(c)'
    BY <1>0 DEF Held, hasActiveSubs, Objects, NoChannel
<1>6. \A s \in ChanSubs : chSubPc[s] # "held"
    BY <1>0 DEF Held, Objects, NoChannel
<1> QED
    BY <1>1, <1>2, <1>3, <1>4, <1>5, <1>6

(* A message creates the channel or finds it. *)
LEMMA StoreStep ==
    ASSUME ChInv, ioLoopStore
    PROVE  ChInv'
<1>0. Shape /\ Marked /\ Held
    BY DEF ChInv
<1>1. /\ ioPc = NoChannel /\ ioChannel # <<>> /\ ioChannel' = Tail(ioChannel)
      /\ UNCHANGED <<deleteInProgress, preventDelete, ioPc, chSubPc, chOf, chActive>>
    BY DEF ioLoopStore
<1>2. CASE UNCHANGED <<cur, created, timer>>
    <2>1. Shape'
        BY <1>0, <1>1, <1>2, Dequeued, ChannelsAssumption DEF Shape
    <2>2. Marked' /\ Held'
        BY <1>0, <1>1, <1>2 DEF Marked, Held, Busy, hasActiveSubs
    <2> QED
        BY <2>1, <2>2 DEF ChInv
<1>3. CASE cur = NoChannel /\ createChannelLocked /\ timer' = [timer EXCEPT ![cur'] = TRUE]
    <2>1. /\ created' \in 0..MaxCreates /\ created' = created + 1 /\ cur' = created' /\ cur' \in Objects
          /\ Marked'
          /\ \A c \in Objects : ~hasActiveSubs(c)' /\ ~deleteInProgress[cur']
          /\ \A s \in ChanSubs : chSubPc[s] # "held"
        BY <1>1, <1>3, CreateStep
    <2>2. created \in Nat /\ created' \in Nat /\ created' >= created
        BY <1>0, <2>1, ChannelsAssumption DEF Shape
    <2>3. ioChannel' \in Seq(Nat) /\ \A i \in 1..Len(ioChannel') : ioChannel'[i] <= created'
        BY <1>0, <1>1, <2>2, Dequeued
    <2>4. timer' \in [Objects -> BOOLEAN] /\ \A c \in Objects : timer'[c] => c <= created'
        BY <1>0, <1>3, <2>1, <2>2 DEF Shape, Objects
    <2>5. \A s \in ChanSubs : chOf[s] \in Nat /\ chOf[s] <= created'
        BY <1>0, <2>1, <2>2, ChannelsAssumption DEF Shape
    <2>6. Shape'
        BY <1>0, <1>1, <2>1, <2>2, <2>3, <2>4, <2>5 DEF Shape
    <2>7. Held'
        BY <1>0, <1>1, <2>1, ZenonT(60) DEF Held, Busy
    <2> QED
        BY <2>1, <2>6, <2>7 DEF ChInv
<1> QED
    BY <1>2, <1>3 DEF ioLoopStore

(* The deletion is decided for the object of the request, which is not marked  *)
(* and so is the current one, when nothing holds it.                           *)
LEMMA DeleteSteps ==
    ASSUME ChInv, handleChannelDelete \/ processDeleteChannel
    PROVE  ChInv'
<1>0. Shape /\ Marked /\ Held
    BY DEF ChInv
<1>1. CASE handleChannelDelete
    <2> DEFINE c == Head(ioChannel)
    <2>1. /\ ioPc = NoChannel /\ ioChannel # <<>> /\ ioChannel' = Tail(ioChannel) /\ c # NoChannel
          /\ UNCHANGED <<cur, created, preventDelete, chSubPc, chOf, chActive>>
        BY <1>1 DEF handleChannelDelete
    <2>2. /\ ioChannel' \in Seq(Nat) /\ \A i \in 1..Len(ioChannel') : ioChannel'[i] <= created'
          /\ c \in 0..created
        BY <1>0, <2>1, Dequeued, ChannelsAssumption DEF Shape
    <2>3. c \in Objects /\ c <= created
        <3>1. created \in 0..MaxCreates /\ c # 0
            BY <1>0, <2>1 DEF Shape, NoChannel
        <3> HIDE DEF c
        <3> QED
            BY <2>2, <3>1, ChannelsAssumption DEF Objects
    <2>4. timer' \in [Objects -> BOOLEAN] /\ \A d \in Objects : timer'[d] => d <= created
        <3>1. \E b \in BOOLEAN : timer' = [timer EXCEPT ![c] = b]
            BY <1>1, ZenonT(60) DEF handleChannelDelete, stopDeleteTimer, startDeleteTimer
        <3> HIDE DEF c
        <3> QED
            BY <1>0, <2>3, <3>1 DEF Shape
    <2> HIDE DEF c
    <2>5. CASE UNCHANGED <<deleteInProgress, ioPc>>
        <3>1. Shape'
            BY <1>0, <2>1, <2>2, <2>4, <2>5 DEF Shape
        <3>2. Marked' /\ Held'
            BY <1>0, <2>1, <2>5 DEF Marked, Held, Busy, hasActiveSubs
        <3> QED
            BY <3>1, <3>2 DEF ChInv
    <2>6. CASE ~NotDeletable(c) /\ deleteInProgress' = [deleteInProgress EXCEPT ![c] = TRUE] /\ ioPc' = c
        <3>1. c = cur /\ ~preventDelete[c] /\ ~hasActiveSubs(c)
            BY <1>0, <2>3, <2>6 DEF Marked, NotDeletable
        <3>2. Shape'
            BY <1>0, <2>1, <2>2, <2>3, <2>4, <2>6 DEF Shape
        <3>3. Marked'
            BY <1>0, <2>1, <2>3, <2>6, <3>1 DEF Marked, Shape
        <3>4. Held'
            <4>1. \A s \in ChanSubs : chSubPc[s] # "held"
                BY <1>0, <3>1 DEF Held
            <4>2. \A d \in Objects : ~hasActiveSubs(d)
                BY <1>0, <3>1 DEF Held
            <4> QED
                BY <1>0, <2>1, <4>1, <4>2 DEF Held, Busy, hasActiveSubs
        <3> QED
            BY <3>2, <3>3, <3>4 DEF ChInv
    <2> QED
        BY <1>1, <2>5, <2>6 DEF handleChannelDelete, c
<1>2. CASE processDeleteChannel
    <2>1. /\ ioPc # NoChannel /\ ioPc' = NoChannel
          /\ UNCHANGED <<created, preventDelete, ioChannel, chSubPc, chOf, chActive>>
        BY <1>2 DEF processDeleteChannel
    <2>2. ioPc = cur /\ deleteInProgress[cur] /\ cur # NoChannel /\ cur \in Objects
        <3>1. created \in 0..MaxCreates /\ cur \in 0..created
            BY <1>0 DEF Shape
        <3>2. ioPc = cur /\ deleteInProgress[cur] /\ cur # NoChannel
            BY <1>0, <2>1 DEF Marked
        <3> QED
            BY <3>1, <3>2, ChannelsAssumption DEF Objects, NoChannel
    <2>3. /\ \A s \in ChanSubs : chSubPc[s] # "held"
          /\ \A d \in Objects : ~hasActiveSubs(d)
        BY <1>0, <2>2 DEF Held
    <2>4. Held'
        BY <1>0, <2>1, <2>3 DEF Held, Busy, hasActiveSubs
    <2>5. CASE UNCHANGED <<cur, timer, deleteInProgress>>
        BY <1>0, <2>1, <2>4, <2>5 DEF ChInv, Shape, Marked
    <2>6. CASE cur' = NoChannel /\ UNCHANGED <<timer, deleteInProgress>>
        <3>1. Shape'
            BY <1>0, <2>1, <2>6 DEF Shape, NoChannel
        <3>2. Marked'
            BY <1>0, <2>1, <2>2, <2>6 DEF Marked, Objects, NoChannel
        <3> QED
            BY <2>4, <3>1, <3>2 DEF ChInv
    <2>7. CASE /\ deleteInProgress' = [deleteInProgress EXCEPT ![cur] = FALSE]
               /\ timer' = [timer EXCEPT ![cur] = TRUE] /\ UNCHANGED cur
        <3>1. Shape'
            BY <1>0, <2>1, <2>2, <2>7 DEF Shape
        <3>2. Marked'
            BY <1>0, <2>1, <2>2, <2>7 DEF Marked, Shape
        <3> QED
            BY <2>4, <3>1, <3>2 DEF ChInv
    <2> QED
        BY <1>2, <2>5, <2>6, <2>7 DEF processDeleteChannel, startDeleteTimer
<1> QED
    BY <1>1, <1>2

(* The channel that a request holds is the current one and is not marked, and *)
(* while it is held no deletion is decided for it.                            *)
LEMMA LookupStep ==
    ASSUME ChInv, NEW s \in ChanSubs, lookupOrCreateChannelPreventDelete(s)
    PROVE  ChInv'
<1>0. Shape /\ Marked /\ Held
    BY DEF ChInv
<1>1. /\ chSubPc[s] = "new" /\ \A t \in ChanSubs : ~Busy(t)
      /\ UNCHANGED <<deleteInProgress, ioChannel, ioPc, chActive>>
    BY DEF lookupOrCreateChannelPreventDelete, Busy
<1>2. CASE chSubPc' = [chSubPc EXCEPT ![s] = "failed"] /\ UNCHANGED <<cur, created, timer, preventDelete, chOf>>
    <2>1. Shape'
        BY <1>0, <1>1, <1>2 DEF Shape, Pcs
    <2>2. Marked'
        BY <1>0, <1>1, <1>2 DEF Marked
    <2>3. Held'
        BY <1>0, <1>1, <1>2 DEF Held, Busy, hasActiveSubs, Shape, Pcs
    <2> QED
        BY <2>1, <2>2, <2>3 DEF ChInv
<1>3. CASE /\ \/ cur # NoChannel /\ ~deleteInProgress[cur] /\ UNCHANGED <<cur, created>>
              \/ cur = NoChannel /\ createChannelLocked
           /\ preventDelete' = [preventDelete EXCEPT ![cur'] = TRUE]
           /\ timer' = [timer EXCEPT ![cur'] = FALSE]
           /\ chSubPc' = [chSubPc EXCEPT ![s] = "held"] /\ chOf' = [chOf EXCEPT ![s] = cur']
    <2>1. /\ created' \in 0..MaxCreates /\ created' >= created /\ cur' \in 0..created' /\ cur' \in Objects
          /\ Marked' /\ ~deleteInProgress[cur'] /\ created \in Nat
          /\ \A c \in Objects : hasActiveSubs(c) => c = cur'
        <3>1. CASE cur # NoChannel /\ ~deleteInProgress[cur] /\ UNCHANGED <<cur, created>>
            <4>1. created \in 0..MaxCreates /\ cur \in 0..created
                BY <1>0 DEF Shape
            <4>2. Marked' /\ \A c \in Objects : hasActiveSubs(c) => c = cur
                BY <1>0, <1>1, <3>1 DEF Marked, Held
            <4> QED
                BY <3>1, <4>1, <4>2, ChannelsAssumption DEF Objects, NoChannel
        <3>2. CASE cur = NoChannel /\ createChannelLocked
            <4>1. ioPc = NoChannel
                BY <1>0, <3>2 DEF Marked
            <4>2. created \in Nat
                BY <1>0, ChannelsAssumption DEF Shape
            <4>3. /\ created' \in 0..MaxCreates /\ created' = created + 1 /\ cur' = created' /\ cur' \in Objects
                  /\ Marked' /\ \A c \in Objects : ~hasActiveSubs(c)' /\ ~deleteInProgress[cur']
                BY <1>1, <3>2, <4>1, CreateStep
            <4> QED
                BY <1>1, <4>2, <4>3, ChannelsAssumption DEF hasActiveSubs
        <3> QED
            BY <1>3, <3>1, <3>2
    <2>2. created' \in Nat /\ \A c \in Objects : c \in Nat
        BY <2>1, ChannelsAssumption DEF Objects
    <2>3. timer' \in [Objects -> BOOLEAN] /\ \A c \in Objects : timer'[c] => c <= created'
        BY <1>0, <1>3, <2>1, <2>2 DEF Shape
    <2>4. ioChannel' \in Seq(Nat) /\ \A i \in 1..Len(ioChannel') : ioChannel'[i] <= created'
        <3>1. \A i \in 1..Len(ioChannel) : ioChannel[i] \in Nat /\ ioChannel[i] <= created
            BY <1>0 DEF Shape
        <3>2. \A i \in 1..Len(ioChannel) : ioChannel[i] <= created'
            BY <2>1, <2>2, <3>1
        <3> QED
            BY <1>0, <1>1, <3>2 DEF Shape
    <2>5. chOf' \in [ChanSubs -> 0..MaxCreates] /\ \A t \in ChanSubs : chOf'[t] <= created'
        <3>1. cur' \in 0..MaxCreates
            BY <2>1, ChannelsAssumption DEF Objects
        <3>2. chOf' \in [ChanSubs -> 0..MaxCreates]
            BY <1>0, <1>3, <3>1 DEF Shape
        <3>3. \A t \in ChanSubs : chOf[t] <= created /\ chOf[t] \in Nat
            BY <1>0, ChannelsAssumption DEF Shape
        <3>4. ASSUME NEW t \in ChanSubs PROVE chOf'[t] <= created'
            <4>1. CASE t = s
                BY <1>0, <1>3, <2>1, <4>1 DEF Shape
            <4>2. CASE t # s
                BY <1>0, <1>3, <2>1, <2>2, <3>3, <4>2 DEF Shape
            <4> QED
                BY <4>1, <4>2
        <3> QED
            BY <3>2, <3>4
    <2>6. Shape'
        BY <1>0, <1>1, <1>3, <2>1, <2>3, <2>4, <2>5 DEF Shape, Pcs
    <2>7. Held'
        <3>1. ASSUME NEW t \in ChanSubs, Busy(t)' PROVE t = s
            BY <1>0, <1>1, <1>3, <3>1 DEF Busy, Shape
        <3>2. chOf'[s] = cur' /\ preventDelete'[cur'] /\ chSubPc'[s] = "held"
            BY <1>0, <1>3, <2>1 DEF Shape
        <3>3. \A t \in ChanSubs : chSubPc'[t] = "held" => t = s
            BY <3>1 DEF Busy
        <3>4. \A c \in Objects : hasActiveSubs(c)' => c = cur' /\ ~deleteInProgress'[c]
            BY <1>1, <2>1 DEF hasActiveSubs
        <3> QED
            BY <1>1, <2>1, <3>1, <3>2, <3>3, <3>4 DEF Held
    <2> QED
        BY <2>1, <2>6, <2>7 DEF ChInv
<1> QED
    BY <1>2, <1>3 DEF lookupOrCreateChannelPreventDelete, stopDeleteTimer

(* The subscription is created on the channel that is held, the hold released. *)
LEMMA SubscribeSteps ==
    ASSUME ChInv, NEW s \in ChanSubs, chProcessSub(s) \/ turnOffPreventDelete(s) \/ chRemove(s)
    PROVE  ChInv'
<1>0. Shape /\ Marked /\ Held
    BY DEF ChInv
<1>1. CASE chProcessSub(s)
    <2>1. /\ chSubPc[s] = "held"
          /\ UNCHANGED <<cur, created, timer, deleteInProgress, preventDelete, ioChannel, ioPc, chOf>>
        BY <1>1 DEF chProcessSub, actVars
    <2>2. PICK pc \in {"subscribed", "failed"} : chSubPc' = [chSubPc EXCEPT ![s] = pc]
        BY <1>1 DEF chProcessSub
    <2>3. /\ chActive' \in [Objects -> SUBSET ChanSubs]
          /\ \A c \in Objects : hasActiveSubs(c)' => hasActiveSubs(c) \/ c = chOf[s]
        BY <1>0, <1>1 DEF chProcessSub, Shape, hasActiveSubs
    <2>4. Shape'
        BY <1>0, <2>1, <2>2, <2>3 DEF Shape, Pcs
    <2>5. Marked'
        BY <1>0, <2>1 DEF Marked
    <2>6. Held'
        <3>1. \A t \in ChanSubs : (Busy(t)' => Busy(t)) /\ (chSubPc'[t] = "held" => chSubPc[t] = "held")
            BY <1>0, <2>1, <2>2 DEF Busy, Shape
        <3>2. \A c \in Objects : hasActiveSubs(c)' => c = cur /\ ~deleteInProgress[c]
            BY <1>0, <2>1, <2>3 DEF Held
        <3> QED
            BY <1>0, <2>1, <3>1, <3>2 DEF Held
    <2> QED
        BY <2>4, <2>5, <2>6 DEF ChInv
<1>2. CASE turnOffPreventDelete(s)
    <2>1. /\ chSubPc[s] \in {"subscribed", "failed"}
          /\ preventDelete' = [c \in Objects |-> preventDelete[c] /\ c # chOf[s]]
          /\ UNCHANGED <<cur, created, timer, deleteInProgress, ioChannel, ioPc, chOf, chActive>>
        BY <1>2 DEF turnOffPreventDelete
    <2>2. PICK pc \in {"closing", "active"} : chSubPc' = [chSubPc EXCEPT ![s] = pc]
        BY <1>2, ZenonT(60) DEF turnOffPreventDelete
    <2>3. preventDelete' \in [Objects -> BOOLEAN]
        BY <2>1
    <2>4. Shape'
        BY <1>0, <2>1, <2>2, <2>3 DEF Shape, Pcs
    <2>5. Marked'
        BY <1>0, <2>1 DEF Marked
    <2>6. Held'
        <3>1. \A t \in ChanSubs : chSubPc[t] # "held"
            BY <1>0, <2>1 DEF Held, Busy
        <3>2. \A t \in ChanSubs : (Busy(t)' => Busy(t)) /\ chSubPc'[t] # "held"
            BY <1>0, <2>1, <2>2, <3>1 DEF Busy, Shape
        <3> QED
            BY <1>0, <2>1, <3>2 DEF Held, hasActiveSubs
    <2> QED
        BY <2>4, <2>5, <2>6 DEF ChInv
<1>3. CASE chRemove(s)
    <2>1. UNCHANGED <<cur, created, timer, deleteInProgress, preventDelete, ioChannel, ioPc, chSubPc, chOf>>
        BY <1>3 DEF chRemove, actVars
    <2>2. /\ chActive' \in [Objects -> SUBSET ChanSubs]
          /\ \A c \in Objects : hasActiveSubs(c)' => hasActiveSubs(c)
        BY <1>0, <1>3 DEF chRemove, Shape, hasActiveSubs
    <2>3. Shape'
        BY <1>0, <2>1, <2>2 DEF Shape
    <2>4. Marked' /\ Held'
        BY <1>0, <2>1, <2>2 DEF Marked, Held, Busy
    <2> QED
        BY <2>3, <2>4 DEF ChInv
<1> QED
    BY <1>1, <1>2, <1>3

(* Starting the deletion timer again changes nothing that the rest relies on. *)
LEMMA TimerSteps ==
    ASSUME ChInv, NEW s \in ChanSubs, maybeStartAfterFailure(s) \/ maybeStartAfterRemove(s)
    PROVE  ChInv'
<1>0. Shape /\ Marked /\ Held
    BY DEF ChInv
<1>1. UNCHANGED <<cur, created, deleteInProgress, preventDelete, ioChannel, ioPc, chOf, chActive>>
    BY DEF maybeStartAfterFailure, maybeStartAfterRemove
<1>2. chSubPc' = chSubPc \/ (chSubPc' = [chSubPc EXCEPT ![s] = "done"] /\ chSubPc[s] = "closing")
    BY DEF maybeStartAfterFailure, maybeStartAfterRemove
<1>3. PICK c \in 0..created : timer' = timer \/ (timer' = [timer EXCEPT ![c] = TRUE] /\ c # NoChannel)
    <2>1. chOf[s] \in 0..created /\ cur \in 0..created
        BY <1>0, ChannelsAssumption DEF Shape
    <2>2. \E c \in 0..created : maybeStart(c)
        BY <2>1 DEF maybeStartAfterFailure, maybeStartAfterRemove
    <2> QED
        BY <2>2 DEF maybeStart, startDeleteTimer
<1>4. timer' \in [Objects -> BOOLEAN] /\ \A d \in Objects : timer'[d] => d <= created
    <2>1. timer \in [Objects -> BOOLEAN] /\ \A d \in Objects : timer[d] => d <= created
        BY <1>0 DEF Shape
    <2>2. CASE timer' = timer
        BY <2>1, <2>2
    <2>3. CASE timer' = [timer EXCEPT ![c] = TRUE]
        <3>1. timer' \in [Objects -> BOOLEAN]
            BY <2>1, <2>3, ZenonT(60)
        <3>2. ASSUME NEW d \in Objects, timer'[d], d # c PROVE d <= created
            BY <2>1, <2>3, <3>2
        <3>3. c <= created
            BY <1>0, ChannelsAssumption DEF Shape
        <3> QED
            BY <3>1, <3>2, <3>3
    <2> QED
        BY <1>3, <2>2, <2>3
<1>5. Shape'
    BY <1>0, <1>1, <1>2, <1>4 DEF Shape, Pcs
<1>6. Marked'
    BY <1>0, <1>1 DEF Marked
<1>7. \A t \in ChanSubs : (Busy(t)' => Busy(t)) /\ (chSubPc'[t] = "held" => chSubPc[t] = "held")
    BY <1>0, <1>2 DEF Busy, Shape
<1>8. Held'
    BY <1>0, <1>1, <1>7 DEF Held, hasActiveSubs
<1> QED
    BY <1>5, <1>6, <1>8 DEF ChInv

(* The inactivity of a channel never deletes it under a subscription that was *)
(* accepted or is being: preventDelete covers the time between the lookup of   *)
(* the channel and the creation of the subscription, deleteInProgress the time *)
(* between the decision to delete and the deletion.                            *)
THEOREM NeverDeletedUnderSub == ChSpec => []SubOnLiveChannel
<1>1. ChInit => ChInv
    <2> SUFFICES ASSUME ChInit PROVE ChInv
        OBVIOUS
    <2>1. Shape
        BY ChannelsAssumption DEF ChInit, Shape, Pcs, NoChannel
    <2>2. Marked
        BY ChannelsAssumption DEF ChInit, Marked, NoChannel, Objects
    <2>3. Held
        BY DEF ChInit, Held, Busy, hasActiveSubs
    <2> QED
        BY <2>1, <2>2, <2>3 DEF ChInv
<1>2. ChInv /\ [ChNext]_chVars => ChInv'
    <2>1. ASSUME ChInv, UNCHANGED chVars PROVE ChInv'
        BY <2>1 DEF chVars, actVars, ChInv, Shape, Marked, Held, Busy, hasActiveSubs
    <2> QED
        BY <2>1, QueueSteps, StoreStep, DeleteSteps, LookupStep, SubscribeSteps, TimerSteps DEF ChNext
<1>3. ChInv => SubOnLiveChannel
    BY DEF ChInv, Held, SubOnLiveChannel
<1> QED
    BY <1>1, <1>2, <1>3, PTL DEF ChSpec
=============================================================================
