# NATS Streaming server: TLA+ models and proofs

NATS Streaming keeps messages in *channels* (an append-only log with sequence
numbers 1, 2, ...) and delivers them, at least once, to *subscriptions*: plain,
durable, or members of a queue group that share the messages. Channels,
subscriptions and clients are kept by a store (memory, files, SQL); a cluster
replicates them over raft, a fault tolerance group shares one store. This
directory models the delivery code, the stores and the parts around them,
model-checks them on small instances with TLC, and proves the main safety
properties with TLAPS for every size.

References to code are to `src/server/server.go` unless another file is named.
`PROJECT.json` maps every definition to the lines it models.

## Inventory of the system

| Part | State | Operations | Interacts with |
|---|---|---|---|
| Delivery (`subStore`, `queueState`, `subState`) | lists of subscriptions, `LastSent`, `acksPending`, `stalled`, `newOnHold`, `initialized`, `hasFailedHB`, ack timers; per group `lastSent`, `stalledSubCount` | send loops, acks, redelivery callbacks, subscribe, close, unsubscribe | message store, sub store, clients |
| ioLoop | batch, `nextSequence` | store a batch, flush, walk the subscriptions, ack the publishers, delete channels | message store, delivery, raft |
| Message stores (memory, file, SQL) | first/last sequence, totals, files, index, cache | `Store`, `Lookup`, expiration, limits, flush, recovery | delivery, recovery |
| Subscription and client stores | records of subscriptions, pending messages, clients | create, update, delete, `AddSeqPending`, `AckSeqPending`, compaction, recovery | delivery, recovery |
| Channel store | channel map, `preventDelete`, `deleteInProgress`, inactivity timer | look up, create, delete | ioLoop, subscription requests, raft |
| Client registry (`client.go`) | clients by ID and connection, heartbeat timers, known invalid IDs, waiters | connect, duplicate check, heartbeat, close | delivery |
| Restart | recovered clients and subscriptions | `recoverOneSub`, `performRedeliveryOnStartup` | stores, delivery |
| Cluster (`clustering.go`, `snapshot.go`, `raft_log.go`, `raft_transport.go`) | raft log and its cache, leadership, snapshots, collected sent/ack sequences | `Apply`, `replicate`, `Snapshot`, `Restore`, leadership changes | everything above |
| Fault tolerance group (`ft.go`) | standby/active, store lock | heartbeats, activation, step down | store locks |
| Partitions, subject list, limits | channel lists, trie, inherited limits | uniqueness check, match, inheritance | requests |
| Monitoring, configuration, logging, signals, generated protocol code | - | read-only or input/output | - |

The behaviours that make the core hard: five kinds of goroutine (ioLoop, one
ack callback per subscription, ack timer callbacks, the subscription starter,
request and close handlers) share subscriptions under three levels of locks and
drop those locks between reading and acting; durables are closed and resumed
while callbacks of their earlier life are still running; queue members hand over
messages to each other while joining and leaving; publishing and persisting may
fail half way; the store removes messages under everyone's feet.

Around it: the stores buffer, index and cache what a crash may cut off at any
point, and expire messages from timers that race with everything else; channels
are created on demand and deleted for inactivity while subscriptions arrive;
client IDs are reused while their former user is still being closed; a leader
collects what it sent and replicates it later; a follower restores messages that
expire while they are sent.

What must hold: a message passed by a cursor is pending, acked or removed from
the store (at-least-once delivery); a pending message always gets redelivered;
nobody stays stalled or on hold for ever; the counters and positions of a group
survive the departure of members; the lookup of the next message skips none. A
store gives back what was flushed, and nothing else; a message stored is a message
that will expire; a subscription is never on a deleted channel nor left behind by
its client; an acked message survives a change of leader.
The `hazards` of `PROJECT.json` list where the code is exposed, line by line.

## Modules

`Delivery` is the core: one channel of a stand-alone server. A subscription
object is a *slot* (`Plain`, `Durables`, `QSubs`); `place` says which list holds
it: `listed`, `offline` (closed durable), `shadow` (last member of a durable
group), `left` (a member that left a group that goes on) or `gone`. The other
variables keep the names of the code. A step is what a goroutine does while it
holds its locks:

* `ioStore`, `processMsg...`: ioLoop stores, then walks the subscriptions under
  `ss.RLock`.
* `beginSend`, `sendAvailableMessages`, `sendAvailableMessagesToQueue`: one
  iteration of a send loop; the loop holds the lock of its cursor (`loop`).
* `processAckMsg`, `processAck`: acks; `want` remembers that the goroutine goes
  on to send after releasing the lock.
* `ackTimerFires`, `redeliver...`, `adjustAckTimer`:
  `performAckExpirationRedelivery`, message by message.
* `processSub...`, `subscriptionResponse`, `startSub`,
  `performDurableRedelivery`, `releaseNewOnHold`: a subscription request until
  its first messages.
* `removePlain`, `removeMember`, `removeFromQueue`, `rearmTimers`:
  `subStore.Remove`, in the pieces its locks make visible.
* `Events` switches failures on: `publishFails`, `addPendingFails`, `ackFails`,
  `heartbeatFails`, and `expireMsgs` (messages reach their maximum age).

`NextMsg` opens up `getNextMsg`, which `Delivery` takes as one step: the lookup
and the query for the bounds are separate calls that race with the store.

The stores, and what they promise:

* `MsgStore` and `SubStore` are the abstract specifications, the interfaces of
  `stores/store.go`. A message store has sequences from `first` to `last`, finds
  each message as it was stored and nothing under a sequence that was skipped,
  drops the oldest ones, and loses nothing flushed in a crash. `gap` says that a
  store which does not fill the gaps has one: its limit counts messages, and may
  then keep more sequences. `aged` is the time up to which messages are too old to
  be returned. A subscription store recovers what was flushed; a
  message that was sent and not acked is either pending for a member after the
  restart, or above the last sequence sent and will be sent again, unless the
  implementation names it as `exposed`. `undeleted` are subscriptions whose
  deletion failed.
* `MemMsgStore` (`memstore.go`), `FileMsgStore` (`filestore.go`, `FileMsgStore`)
  and `SQLMsgStore` (`sqlstore.go`, `SQLMsgStore`) are shown to implement
  `MsgStore`: the mapping gives `first`, `last` and what `Lookup` would answer now
  and, while the server is down, what a recovery would find.
* `FileSubStore` and `SQLSubStore` are shown to implement `SubStore`.
* `FilesManager` (`filestore.go`, `filesManager`): file handles switched by
  compare-and-swap, closed behind their owners' back above the soft limit. The
  loop of `closeUnusedFiles` is one step per file, between which the owners of the
  other files go on.
* `FileStore` (`filestore.go`, `FileStore`, and `StanServer.start`): server and
  clients files, channel directories, parallel recovery with a message store and
  a subscription store for each channel, the second recovery when the server
  information was missing.

The server numbers messages without gaps; a sequence is skipped, or comes twice,
where a follower restores messages or applies the log again, so the three message
stores are modelled with `Store(seq)` for any `seq` near the last one.

A crash keeps the synced part of the files, or the committed transactions, and any
part of what was written and not synced; it loses buffers, caches and timers.
`clients.dat` is never synced, so that a crash of the machine keeps any prefix of
it; `server.dat` is taken to stay once `Init` has returned, and directories
survive. A write that fails leaves nothing behind. `Damage`, `SQLFaults`,
`SSMaxFails` and `RootFaults` switch on what a crash or an error may do besides.

The server around the delivery:

* `Clients` (`client.go` and the handlers): one client ID, several connections;
  connect, duplicate check, heartbeats, close behind the barrier, waiters.
* `Channels`: creation on demand, `preventDelete`, `deleteInProgress`, the
  inactivity timer and the deletion by the ioLoop.
* `SentAck`: `collectSentOrAck` to `processReplicatedSendAndAck`, leader and one
  follower, for a durable or a durable queue group whose members close,
  unsubscribe, come back and inherit each other's pending messages.
* `ClusterPublish`: `ioLoop` and `replicate` of several nodes, elections,
  `leadershipAcquired` with its synchronization request and barrier, `Apply`.
* `Restore` (`snapshot.go`): a follower fetches the messages of a snapshot from
  the leader.
* `RaftLog` (`raft_log.go`), `RaftTransport` (`raft_transport.go`), `FTLock`
  (`ft.go` and the lock table of `sqlstore.go`), `Partitions`
  (`partitions.go`), `SubList` with `Subjects` (`util/sublist.go`).

The raft library, NATS, the database and the file system are external: raft is a
log that every node applies in order with one leader at a time, NATS delivers in
order or loses, a transaction is one step.

`MCDelivery` and `MCNextMsg` instantiate the first two for TLC (symmetry of the
members of the queue group). `MCLive`, `MCStores` and `MCServer` combine modules
that share no state: a behaviour picks one of them (`part`) and moves it alone,
so that every state belongs to one module. Of `Clients` a behaviour has either
subscription requests and heartbeats or calls of `isValidWithTimeout`, which touch
nothing of each other's. The `...Proofs` modules hold the theorems. `Helpers` has
small functions. A definition that no specification uses,
placed before the one it varies (`StopTimerAlways` before `StopTimer`), is a
plausible bug, used to see that a property would catch it.

### Abstractions

* Time: an ack timer may fire at any moment, and each pending message the
  callback looks at may be found expired or not.
* The order of `qs.subs`, which `findBestQueueSub` rotates, is left open: any of
  the equally loaded members may be picked; if none is favoured, any member.
* Redelivery counts and payloads are left out.
* A message is looked up and sent again in one step; `processSub` and the plain
  part of `Remove` are one step each (they run under `ss.Lock`); the lookup of
  the subscription of an ack and `processAck` are one step.
* The client of a subscription is registered as long as the subscription has a
  `ClientID`; the short window of `closeClient` is not modelled, nor are the
  error returns of `updateDurable` and `addSubscription`.
* Requests are answered one at a time. A slot is reused only when nothing can
  reach the old object.
* `acked`, `qacked`, `delivered` and `resumeSeq` are history: what the client has
  acked or received.
* In the stores a message is the number of the call of `Store` that brought it;
  two in a row share a timestamp, so that equal timestamps occur. Sizes, bytes
  and checksums are left out; a record takes one position of its file.
* In `FileMsgStore` every method is one step, under the lock of the store; the
  callbacks of the files manager are steps of their own.
* In `Clients` the firing of a heartbeat timer and the lookup of its client are one
  step, the reply to the heartbeat another; a live client may answer too late.
* In `SentAck` the stores do not fail, and a member that joins later has got
  nothing before. In `Partitions` a server restarts with the list it had.
* `FTLock` has discrete time; a server that is `paused` does nothing. The tick of
  the lock row is taken modulo 4: two looks of a standby are at most two updates
  apart.

## Runs

| Run | Instance | Checks | Result |
|---|---|---|---|
| `plain` | 1 plain subscription, 3 messages, MaxMsgs 2, all start positions, all events | `TypeOK`, `NoMsgLost`, `RedeliveryScheduled` | holds, 225 thousand states |
| `durable` | 1 durable, 2 messages that may expire, 3 requests (two resumptions), queue of 2 starts | `NoLostWakeUp`, `HoldReleased` | holds, 990 thousand states |
| `queue` | 2 members of a durable group, 2 messages, limit 2 | `NoOverCount`, `GroupPosition`, `LostOnlyByHandOver` | holds, 1.3 million states |
| `live` | 1 durable, 2 messages, limit 1, 2 requests; `getNextMsg` with MaxMsgs 2, expiration, 5 messages | `EventuallyDelivered`, `RedeliveredUntilAcked`, `NoSkipUnlessEmptied`, `EventuallySent` | holds, 25 thousand states |
| `stores` | the seven store modules, see below | 13 properties, five of them refinements | holds, 471 thousand states |
| `server` | the ten modules around the delivery, see below | 14 properties | holds, 972 thousand states |
| `hold` | 1 durable, 3 requests | `OldBeforeNew` | violated |
| `hand_over` | 2 members of a group that is not durable, 2 messages | `QueueNoMsgLost` | violated |
| `next_msg_age` | expiration only, 4 messages | `NoSkip` | violated |
| `ft_steal` | 3 servers, no pause, no restart | `OneActive` | violated |
| `restore_last` | 4 messages, batches of 2, 1 lost reply | `LastSeqKept` | violated |
| `seq_from_time` | as `stores` | `TimestampsFirst` | violated |

What `stores` checks:

* `FileImplementsMsgStore`, `MemImplementsMsgStore`, `SQLImplementsMsgStore`: each
  message store implements `MsgStore`. `FileImplementsSubStore`,
  `SQLImplementsSubStore`: each subscription store implements `SubStore`. The
  mapping states exactly where the code gives less (see "Known exceptions").
* `ExpirationArmed`, `MemTimersRight`: a stored message has a timer, a callback or
  a wake-up coming, whatever was emptied, expired or recovered; `Close` of the
  memory store waits for each callback.
* `FilesReplay`: file and buffer of the subscriptions, and the clients file, replay
  to what is in memory, through compactions, failed writes and crashes; all they
  may have more is a subscription or client whose deletion could not be written.
* `FlushScheduled`: cached acks of the SQL store are on their way to a flush, unless
  one has failed.
* `HandlesRight`, `SoftLimit`: the panics of the files manager are unreachable, no
  file is closed with buffered writes unless their flush failed, and the limit is
  exceeded only if nothing could be closed, but for files that were unlocked after
  the open had begun.
* `ChannelsRecovered`: a running server has all the channels of the directory, but
  for one that could not be removed or created, and neither a parallel recovery nor
  a creation that fails leaves a store open without an owner.

What `server` checks: `SubsOwned` and `HeartbeatArmed` (no subscription without its
client, no client without its timer), `SubOnLiveChannel` and `DeletionArmed`
(channels), `EventsScheduled` and `LostOnlyByClose` (sent and acks), `AckedKept`
(publishing across leaders), `RestoredAll` (snapshots), `GetLogRight` (raft log
cache), `StreamRight` (transport), `OneActiveUnlessStale` (SQL lock),
`PartitionsDisjoint`, `MatchRight` (trie and cache against the meaning of the
wildcards). Five of them name an exception the code has: `DeletionArmed` a
deletion met by `preventDelete` of a subscription that is already closed, and a
removal that could not be flushed, `PartitionsDisjoint` a reply that came too late
and wildcards that cross, `RestoredAll` a server told to go on without the messages,
until its next check, `AckedKept` a message that was queued before the node lost and regained the
leadership, `OneActiveUnlessStale` a theft that looked at the row too early
(run `ft_steal`).

Why these bounds: every action of the delivery needs at most one subscription, or
two members, and two messages to show a race (one pending, one new); a limit of 1
or 2 makes "full" and "almost full" happen; three requests let a durable be
resumed twice, so that a start of an earlier life is still queued. Only one
callback runs at a time per instance (`RThreads`), except that callbacks survive
the life of the subscription that started them. The file store writes three
messages, with a gap, in slices of two under a limit of three, so that a slice is
removed while another one is written, and crashes once; the memory store has five
messages and a limit of three, so that messages are dropped around a gap; the SQL
cache holds two of four messages, also around a gap. The clients file goes through
two crashes, the second during the recovery of the first; two channels are
recovered by two goroutines. Two connections, two
subscription requests, two nodes with three elections, a cache of two log
entries and a limit of one open file for three files are the smallest numbers
for which the parts interfere. Some bounds keep the run short and were raised with
the module alone, with the same result: three to four operations of the SQL
subscription store (`SSMaxOps`, 1 million states), the log and the moves of
`SentAck` (12.9 million), two pending closes of a client (`MaxCloseReqs`, 2.5
million). Members of a queue group with every failure are not in a run:
`RedeliveryScheduled` is proved for them. `sqlLockLostCount` is 2, as the two intervals only
matter in their proportion. The cache of the raft log, of the trie and the
known invalid connections are at their limit in the instance.

Failures outside of the checked instance: `zero` and `torn` of `Damage`, `store`
and `ahead` of `SQLFaults`, and `readdir` of `RootFaults`. The
modules have them as options; with them the code does not do what the interface
promises (see "Known exceptions").

Deadlock is not checked: the bounds on messages, requests and crashes let the
systems come to rest.

### What the violated runs show

* `hold`: the comment "We have a durable with pending messages, set newOnHold
  until we have performed the initial redelivery" (5091) does not hold when the
  durable is closed and resumed while its previous start is still in
  `subStartCh`: that entry finds the subscription not yet initialised,
  redelivers nothing and releases the hold.
* `hand_over`: an expired message is sent to another member under the group's
  lock and acked for the original member after the lock is released ("We do this
  only after confirmation that it was successfully added as pending on the other
  queue subscriber", 3836). If the other member leaves in between, its messages
  are dealt out, possibly back to the original member, and the implicit ack
  deletes the last record. `LostOnlyByHandOver` shows that no other step loses a
  message of a group.
* `next_msg_age`: after all messages have expired, `getNextMsg` moves to
  `first = last + 1`; messages stored just after the next lookup are taken for
  a gap (5669), and the first one is passed over.
* `ft_steal`: "GetExclusiveLock is an advisory lock to prevent concurrent access to
  the store from multiple instances" (`stores/store.go`, 148). Two standbys that
  watched the same dead owner both call `acquireDBLock(true)`; the second takes the
  row from the first, and both are active until the first updates its tick.
* `restore_last`: if "all messages have expired, it should be last+1/last"
  (`clustering.go`, 558-561). When the leader has none of the requested messages,
  `firstSeq` moves one past the first of them, and the follower reports a last
  sequence below the one of the snapshot.
* `seq_from_time`: `GetSequenceFromTimestamp` "returns the sequence of the first
  message whose timestamp is greater or equal to given timestamp"
  (`stores/memstore.go`, 156, and `stores/filestore.go`, 3575). If the time is that
  of the last message the last sequence is returned at once (173, 3594), though
  messages before it may have the same time.

### Fairness

`live` assumes weak fairness of ioLoop's walk, of the send loops, of the
starter, of `Remove` once begun and of the timer callbacks: Go schedules every
runnable goroutine, and its mutexes do not starve waiters. Time passes, so a
message that stays pending is at some time found to have expired: strong
fairness of `redeliverExpired`, since the callback passes by again and again.
Publishing, subscribing and closing are not fair. Acks of clients are fair only
inside `EventuallyDelivered`, as its hypothesis. For `getNextMsg` the run assumes
weak fairness of the send loop alone.

## Proofs

For any sets of slots and callbacks, any limits and events
(`SlotsAssumption`, `BoundsAssumption`, `NextMsgAssumption`: the slots are
distinct, the numbers are natural, MaxInFlight is at least 1, as
`processSubscriptionRequest` checks):

* `DeliveryProofs!TypeCorrect`: `Spec => []TypeOK`.
* `DeliverySafetyProofs!NothingLost`: `Spec => []NoMsgLost`. The property alone
  is not inductive: redelivery acks a pending message that the store does not
  have, and that must mean *removed*, not *still to come* (`PendingPublished`);
  and the implicit ack of a hand-over must never concern a plain subscription
  (`HandOverInGroup`).
* `DeliverySafetyProofs!AlwaysScheduled`: `Spec => []RedeliveryScheduled`, from
  two facts: a listed subscription with pending messages has a timer or is about
  to get one from `Remove` (`PendingTimed`), and a timer that has fired has its
  callback running (`FiredHasCallback`).
* `DeliverySafetyProofs!HoldAlwaysReleased`: `Spec => []HoldReleased`, which is
  inductive given the types.
* `NextMsgProofs!TypeCorrect`, `NothingSkipped`: `NMSpec => []NoSkipUnlessEmptied`.
  The inductive invariant says that a store which was never emptied keeps a
  message, so that the second lookup is always at or below `last`, and fails
  only because the message was removed.
* `MemMsgStoreProofs!MemRefinesMsgStore`: `MemSpec => MemImplementsMsgStore`, the
  refinement of the abstract message store, for any limit, with sequences that are
  skipped or come twice. It rests on two invariants: the messages lie between
  `first` and `last` (`Ranges`), and there are at least as many as `totalCount`
  says, exactly one for each sequence as long as none was skipped (`Counts`): only
  then does the number of messages over the limit say where `first` moves to
  (`StoreEffect`, `StoreKeeps`). An expiration moves `first` to the least sequence
  that is not too old (`Least`, `ExpireEffect`); one that moves nothing is a
  stutter.
* `MemMsgStoreProofs!TimersAlwaysRight`: `MemSpec => []MemTimersRight`. Inductive
  with `Timers`: the timer the store knows is armed or has a callback waiting,
  and the wait group counts at least the timers and callbacks.
* `FilesManagerProofs!HandlesAlwaysRight`, `LimitExceededOnlyIfNeeded`: for any
  number of files and any limit. The invariant ties the state of a file to what
  its owner is doing (`FileRight`): what the compare-and-swap protects. For the
  limit it also says of the sweep of `closeUnusedFiles` under way that a file it
  has passed is not open and unused, unless its owner has unlocked it since
  (`SweepShape`, `Swept`).
* `RaftLogProofs!GetLogAlwaysRight`: for any length of log and size of cache. The
  cache agrees with the bucket at every moment (`Coherent`): entries are stored
  before they are cached, the cache is emptied before entries are deleted, and
  what is cached while a compaction is under way lies above what it deletes.
* `ChannelsProofs!NeverDeletedUnderSub`: `ChSpec => []SubOnLiveChannel`. All channel
  objects but the current one are marked as deleted (`Marked`); a request in
  progress has `preventDelete` set on the current one (`Held`).
* `SentAckProofs!EventsAlwaysScheduled`: `SASpec => []EventsScheduled`, for any batch
  size above one. The replicator has exactly one subscription in hand between
  taking it from a map and replicating it (`OneInHand`). Every way to collect an
  event, the transfer from a leaving member included, schedules the subscription
  with the first event it has outstanding (`FirstEvent`, `Collect`).

The assumptions on constants are named in the modules (`MemAssumption`,
`FilesManagerAssumption`, `RaftLogAssumption`, `ChannelsAssumption`,
`SentAckAssumption`): limits and bounds are natural numbers, the cache has at
least one slot, a batch more than one event.

Only model-checked: liveness (fairness and ENABLED are outside the prover's
reach); `NoLostWakeUp`, `NoOverCount`, `GroupPosition`, `LostOnlyByHandOver`; the
refinements of the file and SQL stores and what else the `stores` and `server` runs
check. `SubList` walks the trie with a RECURSIVE operator, and the replay of files
and the binary search are recursive functions: what they compute for every input
needs induction over data, which stays with TLC.

## Known exceptions

`hazards` in `PROJECT.json` lists what is hardest to test. Reading the code for the
models brought up further places where it gives no guarantee; the properties are
stated so that they do not depend on them, and the options named above reach some.

Delivery:

* A transfer whose `AddSeqPending` fails drops the message (`server.go`, 1219).
* A departed member may decrement `stalledSubCount` again (1199), and a member stays
  stalled if its message is acked through another one (5547). Both only delay.
* The group loop stops at the first member that refuses a message (5621), so the
  wake-up property holds for single subscriptions only.
* `hasFailedHB` may be set on a durable that has been resumed since (3314).

Clients and cluster:

* A second waiter in `isValidWithTimeout` replaces the channel of the first
  (`client.go`, 158), and a queued close has only the client ID (`server.go`, 3281),
  which may belong to a new connection by then.
* The members of a queue group replicate separately (4170): `LostOnlyByClose` says
  nothing of a group between two batches. Data the replicator has taken when a close
  gives up waiting is dropped (4078).
* `shouldSnapshot` is overwritten for each channel (`snapshot.go`, 425).
* A server whose lock was stolen still clears the row when it closes
  (`sqlstore.go`, 618), and after a pause its heartbeat makes the owner step down
  (`ft.go`, 164).
* A stale tick may time out a later `Read` (`raft_transport.go`, 149).
* Crossing wildcards such as `foo.*` and `*.bar` pass the partition check
  (`partitions.go`, 238), and so does a server whose reply comes after the second
  that is waited for it (174); `PartitionsDisjoint` names both.
* With `ProceedOnRestoreFailure` a follower that could not even empty its store
  keeps a hole below `c.firstSeq` (`snapshot.go`, 407; `RestoredAll`).
* The inactivity timer of a channel is not started when the removal of its last
  subscription cannot be flushed (`server.go`, 4752; `DeletionArmed`).

Stores:

* `FirstMsg` and `LastMsg` change state under the read lock (`filestore.go`, 3555);
  an index record that cannot be written leaves the offset behind (2781).
* A `Store` that fills a gap clears `needSync` (2657, 2842, 3829) before it writes
  its own message: the next `Flush` syncs nothing, and a crash of the machine may
  lose that message. `FileImplementsMsgStore` counts such a flush as covering
  nothing new (`FileFlush`).
* The soft limit may close the index file alone (945), which writes the index records
  of messages still in the buffer: a `Lookup` of one then goes to the data file too
  early and fails. After a crash a data record may have no index record and stay in the
  file: reading ahead by the index then takes it for the next one (3453). In both
  cases `FileImplementsMsgStore` leaves open what `Lookup` finds (`Answer`).
  Zeroes or part of a record at the end of a file (`zero` and `torn` of `Damage`)
  make some recoveries fail.
* A deletion that cannot be written still removes the subscription (4199) or the
  client (1776) from memory; it comes back with the next recovery
  (`subsUndeleted`, `undeleted`).
* When the channels cannot be listed the store opens without any (1391, `readdir` of
  `RootFaults`).
* The expiration is not armed by a `Store` that fills a gap in a store whose messages
  have all expired (2787; `ExpirationArmed` excludes that step).
* In the memory store a skipped sequence has no message, and removing it still counts
  (`memstore.go`, 227): fewer messages are dropped than the limit asks for, and the
  search for a time may meet the missing message. `Close` may wait for ever after an
  `Empty` that met a timer already fired (263).
* A `Store` of the SQL store that goes over the limit does not end if the first
  sequence was skipped (`sqlstore.go`, 1482; `hung`).
* `Empty` of the SQL store returns on an error with the lock held (`sqlstore.go`,
  1811), and a callback of the timer it dropped panics (1613, modelled as a crash).
* A subscription flushed ahead of the messages hides messages at recovery (1005,
  `ahead` of `SQLFaults`), and a flush that fails inside `Store` loses the cache
  (1443, `store`). A failed flush of subscriptions is not scheduled again until the
  server flushes the store itself (658; `FlushScheduled`).
* A crash may lose a pending message of an SQL subscription: one that was just
  redelivered to another member, since the implicit ack deletes the row of the first
  (1998); one that was in the cache when `UpdateSub` wrote a position above it (1902);
  one that was in the cache when a flush was rolled back (2256).
  `SQLImplementsSubStore` promises all others (`ssExposed`).

## Not modelled

* The startup redelivery (`performRedeliveryOnStartup`): it needs the delivery and
  a recovered subscription store in one state space, which is beyond TLC at sizes
  where it matters. What the stores recover is modelled.
* The replicated variants of the client, channel and subscription handlers: they
  run the handlers modelled here from `Apply`, in the order of the raft log.
* Byte limits, slice age, archive scripts, checksums, the encrypted store, the mode
  of the SQL store without caches: they change data or repeat the control of what is
  modelled.
* The raft store wrapper, the inheritance of limits, configuration, monitoring,
  logging, signals, operating system locks and generated code: no shared state that
  outlives a call, or pure input and output.

`components` in `PROJECT.json` lists every part with its status.
