------------------------------- MODULE FTLock -------------------------------
(* The servers of a fault tolerance group that share a SQL store              *)
(* (server/ft.go; stores/sqlstore.go, GetExclusiveLock to                     *)
(* releaseDBLockIfOwner). The active server owns the row of the lock table    *)
(* and updates its tick at an interval. A standby that sees the same owner    *)
(* and tick a number of times steals the lock. An owner whose updates fail    *)
(* that number of times, or whose row is taken, aborts.                       *)
(* Time is discrete: an update is due every UpdateInterval units and a        *)
(* standby looks every CheckInterval units. A server that is paused (stopped  *)
(* process, stalled database call) does nothing until it is resumed.          *)
EXTENDS Integers, Sequences, FiniteSets, SequencesExt

CONSTANTS
    FTServers,
    sqlLockLostCount,
    UpdateInterval, CheckInterval,  \* sqlLockUpdateInterval, 1.5 times that
    FTMaxRestarts, FTMaxPauses      \* bounds

ASSUME FTAssumption ==
    /\ sqlLockLostCount \in Nat \ {0}
    /\ UpdateInterval \in Nat \ {0} /\ CheckInterval \in Nat \ {0}

VARIABLES
    row,            \* lock table: [owner: <<server, start>>, tick]; tick is modulo TickMod
    state,          \* "standby", "polling", "active", "stopped"
    starts,         \* number of starts: with the server, the lock ID of a process
    due,            \* time to the next look at the lock table
    seen,           \* polling: [owner, tick] that were seen, and how often
    failed,         \* active: updates that failed in a row
    actives,        \* active servers by activation time
    paused, pauses,
    staleTheft      \* a lock was stolen although the row had changed since the last look

lock == <<row, staleTheft>>
ftVars == <<lock, state, starts, due, seen, failed, actives, paused, pauses>>

\* Consecutive looks of a standby are at most two updates apart.
TickMod == 4
NoOwner == <<>>
ID(s) == <<s, starts[s]>>
NothingSeen == [owner |-> NoOwner, tick |-> 0, count |-> 0]
Running(s) == state[s] # "stopped" /\ s \notin paused

FTInit ==
    /\ row = [owner |-> NoOwner, tick |-> 0]
    /\ state = [s \in FTServers |-> "standby"]
    /\ starts = [s \in FTServers |-> 1]
    /\ due = [s \in FTServers |-> 0]
    /\ seen = [s \in FTServers |-> NothingSeen]
    /\ failed = [s \in FTServers |-> 0]
    /\ actives = <<>>
    /\ paused = {} /\ pauses = 0 /\ staleTheft = FALSE

-----------------------------------------------------------------------------
CanAcquire(s) == row.owner \in {NoOwner, ID(s)}

Unchanged(s) == row.owner = seen[s].owner /\ row.tick = seen[s].tick

acquireDBLock(s, steals) ==
    /\ row' = [owner |-> ID(s), tick |-> IF steals THEN 1 ELSE (row.tick + 1) % TickMod]
    /\ staleTheft' = (staleTheft \/ (steals /\ ~Unchanged(s)))

\* The lock was obtained: updateDBLock is started, the server becomes active.
Activate(s) ==
    /\ state' = [state EXCEPT ![s] = "active"]
    /\ due' = [due EXCEPT ![s] = UpdateInterval]
    /\ seen' = [seen EXCEPT ![s] = NothingSeen]
    /\ failed' = [failed EXCEPT ![s] = 0]
    /\ actives' = Append(actives, s)

Standby(s) ==
    /\ state' = [state EXCEPT ![s] = "standby"]
    /\ seen' = [seen EXCEPT ![s] = NothingSeen]
    /\ due' = [due EXCEPT ![s] = 0]
    /\ UNCHANGED <<failed, actives>>

\* ftStart missed the heartbeats (or they were dropped) and tries the lock.
GetExclusiveLock(s) ==
    /\ Running(s) /\ state[s] = "standby"
    /\ IF CanAcquire(s)
       THEN acquireDBLock(s, FALSE) /\ Activate(s)
       ELSE /\ state' = [state EXCEPT ![s] = "polling"]
            /\ seen' = [seen EXCEPT ![s] = [owner |-> row.owner, tick |-> row.tick, count |-> 0]]
            /\ due' = [due EXCEPT ![s] = CheckInterval]
            /\ UNCHANGED <<lock, failed, actives>>
    /\ UNCHANGED <<starts, paused, pauses>>

\* One more look: the owner released the lock, or is healthy, or has not updated
\* the row; after the last look the lock is to be stolen.
lookAgain(s) ==
    /\ Running(s) /\ state[s] = "polling" /\ due[s] = 0
    /\ seen[s].count < sqlLockLostCount
    /\ \/ /\ CanAcquire(s)
          /\ acquireDBLock(s, FALSE) /\ Activate(s)
       \/ /\ ~CanAcquire(s) /\ ~Unchanged(s)
          /\ Standby(s) /\ UNCHANGED lock
       \/ /\ ~CanAcquire(s) /\ Unchanged(s)
          /\ seen' = [seen EXCEPT ![s].count = @ + 1]
          /\ due' = [due EXCEPT ![s] = IF seen[s].count + 1 = sqlLockLostCount
                                       THEN 0 ELSE CheckInterval]
          /\ UNCHANGED <<lock, state, failed, actives>>
    /\ UNCHANGED <<starts, paused, pauses>>

\* The theft is a transaction of its own, whatever the row holds by then.
steal(s) ==
    /\ Running(s) /\ state[s] = "polling" /\ due[s] = 0
    /\ seen[s].count = sqlLockLostCount
    /\ acquireDBLock(s, TRUE) /\ Activate(s)
    /\ UNCHANGED <<starts, paused, pauses>>

\* The database returns an error to a standby; the transaction may have been
\* committed all the same. At the first look this matters when the lock is free.
lookFails(s) ==
    /\ Running(s) /\ due[s] = 0
    /\ state[s] = "polling" \/ (state[s] = "standby" /\ row.owner = NoOwner)
    /\ \/ UNCHANGED lock
       \/ CanAcquire(s) /\ acquireDBLock(s, FALSE)
       \/ seen[s].count = sqlLockLostCount /\ acquireDBLock(s, TRUE)
    /\ Standby(s)
    /\ UNCHANGED <<starts, paused, pauses>>

Stop(s) ==
    /\ state' = [state EXCEPT ![s] = "stopped"]
    /\ due' = [due EXCEPT ![s] = 0]
    /\ seen' = [seen EXCEPT ![s] = NothingSeen]
    /\ failed' = [failed EXCEPT ![s] = 0]
    /\ actives' = SelectSeq(actives, LAMBDA a : a # s)

\* The owner's update of the row. It aborts when the row was taken.
updateDBLock(s) ==
    /\ Running(s) /\ state[s] = "active" /\ due[s] = 0
    /\ IF CanAcquire(s)
       THEN /\ acquireDBLock(s, FALSE)
            /\ due' = [due EXCEPT ![s] = UpdateInterval]
            /\ failed' = [failed EXCEPT ![s] = 0]
            /\ UNCHANGED <<state, seen, actives>>
       ELSE Stop(s) /\ UNCHANGED lock
    /\ UNCHANGED <<starts, paused, pauses>>

\* The update fails with a database error: abort after sqlLockLostCount in a row.
KeepsTrying(s) == FALSE
GivesUp(s) == failed[s] + 1 = sqlLockLostCount

updateFails(s) ==
    /\ Running(s) /\ state[s] = "active" /\ due[s] = 0
    /\ IF GivesUp(s)
       THEN Stop(s)
       ELSE /\ failed' = [failed EXCEPT ![s] = @ + 1]
            /\ due' = [due EXCEPT ![s] = UpdateInterval]
            /\ UNCHANGED <<state, seen, actives>>
    /\ UNCHANGED lock \/ (CanAcquire(s) /\ acquireDBLock(s, FALSE))
    /\ UNCHANGED <<starts, paused, pauses>>

\* ftSendHBLoop: an active server hears of another one that became active earlier.
ftSendHBLoop(s) ==
    /\ Running(s) /\ state[s] = "active"
    /\ \E i, j \in DOMAIN actives : i < j /\ actives[j] = s /\ Running(actives[i])
    /\ Stop(s)
    /\ UNCHANGED <<lock, starts, paused, pauses>>

\* A clean shutdown releases the lock of a server that once got it.
Shutdown(s) ==
    /\ Running(s) /\ state[s] \in {"standby", "active"}
    /\ row' = IF state[s] = "active" THEN [owner |-> NoOwner, tick |-> 0] ELSE row
    /\ UNCHANGED staleTheft
    /\ Stop(s)
    /\ UNCHANGED <<starts, paused, pauses>>

Crash(s) ==
    /\ Running(s) /\ state[s] = "active"
    /\ Stop(s)
    /\ UNCHANGED <<lock, starts, paused, pauses>>

Start(s) ==
    /\ state[s] = "stopped"
    /\ starts[s] <= FTMaxRestarts
    /\ starts' = [starts EXCEPT ![s] = @ + 1]
    /\ state' = [state EXCEPT ![s] = "standby"]
    /\ UNCHANGED <<lock, due, seen, failed, actives, paused, pauses>>

Pause(s) ==
    /\ Running(s) /\ pauses < FTMaxPauses
    /\ paused' = paused \cup {s}
    /\ pauses' = pauses + 1
    /\ UNCHANGED <<lock, state, starts, due, seen, failed, actives>>

Resume(s) ==
    /\ s \in paused
    /\ paused' = paused \ {s}
    /\ UNCHANGED <<lock, state, starts, due, seen, failed, actives, pauses>>

\* Time passes when nobody that runs is late.
Busy(s) == state[s] \in {"polling", "active"}

timePasses ==
    /\ \E s \in FTServers : Busy(s) /\ Running(s)
    /\ \A s \in FTServers : Busy(s) /\ Running(s) => due[s] > 0
    /\ due' = [s \in FTServers |-> IF due[s] > 0 THEN due[s] - 1 ELSE 0]
    /\ UNCHANGED <<lock, state, starts, seen, failed, actives, paused, pauses>>

FTNext ==
    \/ timePasses
    \/ \E s \in FTServers :
          \/ GetExclusiveLock(s) \/ lookAgain(s) \/ steal(s) \/ lookFails(s)
          \/ updateDBLock(s) \/ updateFails(s) \/ ftSendHBLoop(s)
          \/ Shutdown(s) \/ Crash(s) \/ Start(s) \/ Pause(s) \/ Resume(s)

FTSpec == FTInit /\ [][FTNext]_ftVars

-----------------------------------------------------------------------------
\* The state has the shape of the code's.
FTTypeOK ==
    /\ row.tick \in 0..(TickMod - 1)
    /\ state \in [FTServers -> {"standby", "polling", "active", "stopped"}]
    /\ due \in [FTServers -> 0..(UpdateInterval + CheckInterval)]
    /\ failed \in [FTServers -> 0..sqlLockLostCount]
    /\ IsInjective(actives)
    /\ \A s \in FTServers : state[s] = "active" <=> s \in Range(actives)

\* At most one server is active at any time, as long as no server is paused and
\* no lock is stolen on a stale look: the time an owner may go without updating
\* the row, database errors included, is shorter than the time a standby waits
\* before it steals the lock (GetExclusiveLock, updateDBLock).
OneActiveUnlessStale == pauses = 0 /\ ~staleTheft => Len(actives) <= 1

\* At most one server is active at any time, as long as no server is paused: the
\* lock prevents concurrent access to the store (Store.GetExclusiveLock).
OneActive == pauses = 0 => Len(actives) <= 1
=============================================================================
