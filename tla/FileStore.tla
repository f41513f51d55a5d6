------------------------------ MODULE FileStore -----------------------------
(* The top level of the file store (stores/filestore.go, FileStore): the     *)
(* server and clients files, the channels' directories, and their recovery,  *)
(* with the part of StanServer.start (server/server.go) that drives it.      *)
EXTENDS Integers, FiniteSets, Sequences, SequencesExt, Helpers

CONSTANTS StoreClients, StoreChannels,
          ParallelRecovery,   \* FileStoreOptions.ParallelRecovery
          MaxChannels,        \* StoreLimits.MaxChannels, 0 for no limit
          CliFragmentation,   \* FileStoreOptions.CompactFragmentation
          CliMaxRecs,         \* bound on the records of the clients file
          RootMaxCrashes,     \* bound on the crashes
          RootFaults          \* the failures that can happen

ASSUME RootAssumption ==
    /\ ParallelRecovery \in Nat \ {0} /\ MaxChannels \in Nat
    /\ RootFaults \subseteq {"write", "channel", "close", "remove", "readdir"}

VARIABLES
    fsPc,         \* where start(), Recover() and Init() are
    clients,      \* fs.clients, or what it was before the crash
    cliDeleteRecs,\* fs.cliDeleteRecs
    cliFile,      \* the records of clients.dat, the last one possibly incomplete
    serverFile,   \* server.dat: "empty", "torn" or "info"
    dirs,         \* the channels' directories
    chans,        \* fs.channels
    witness,      \* the file truncateBadEOFFileName is there
    truncates,    \* opts.TruncateUnexpectedEOF
    initThenRecover,
    rec,          \* the parallel recovery: see RecoveryStart
    undeleted,    \* clients whose delete record could not be written
    leftover,     \* directories of no channel: one that could not be removed, or
                  \* whose channel could not be created
    rootCrashes

rootVars == <<fsPc, clients, cliDeleteRecs, cliFile, serverFile, dirs, chans, witness,
              truncates, initThenRecover, rec, undeleted, leftover, rootCrashes>>
cliVars == <<clients, cliDeleteRecs, cliFile, undeleted>>
startVars == <<serverFile, witness, truncates, initThenRecover, rootCrashes>>

\* opened: the channels in the making whose message store is open already. open:
\* all the stores that are open, <<"msgs" or "subs", channel>>.
StoresOf(ch) == {<<"msgs", ch>>, <<"subs", ch>>}
NoRecovery == [left |-> {}, pool |-> 0, working |-> {}, failed |-> FALSE,
               opened |-> {}, recovered |-> {}, open |-> {}]

RootInit ==
    /\ fsPc = "down" /\ clients = {} /\ cliDeleteRecs = 0 /\ cliFile = <<>>
    /\ serverFile = "empty" /\ dirs = {} /\ chans = {}
    /\ witness = FALSE /\ truncates = FALSE /\ initThenRecover = FALSE
    /\ rec = NoRecovery /\ undeleted = {} /\ leftover = {} /\ rootCrashes = 0

-----------------------------------------------------------------------------
\* The clients file.

Complete(r) == r.op \in {"add", "del"}
Records == SelectSeq(cliFile, Complete)

\* What recoverClients makes of the records.
ReplayedClients(recs) ==
    FoldLeft(LAMBDA cs, r : IF r.op = "add" THEN cs \cup {r.id} ELSE cs \ {r.id}, {}, recs)

shouldCompactClientFile(deleted, cs) ==
    (deleted * 100) \div (deleted + Cardinality(cs)) >= CliFragmentation

\* The records of a compacted file: the order is the one of a map.
Compacted(cs) == [i \in 1..Cardinality(cs) |-> [op |-> "add", id |-> SetToSeq(cs)[i]]]

\* A record that cannot be written leaves the client out.
AddClient(c) ==
    /\ fsPc = "up" /\ c \notin clients /\ Len(cliFile) < CliMaxRecs
    /\ \/ /\ cliFile' = Append(cliFile, [op |-> "add", id |-> c])
          /\ clients' = clients \cup {c} /\ undeleted' = undeleted \ {c}
       \/ "write" \in RootFaults /\ UNCHANGED <<cliFile, clients, undeleted>>
    /\ UNCHANGED <<fsPc, cliDeleteRecs, dirs, chans, rec, leftover>> /\ UNCHANGED startVars

\* The record is written, or not (written), and the file possibly compacted. It
\* is left as it is when the compaction fails, is off, or is held back by the
\* size of the file or the time of the last one.
DeleteClient(c, written) ==
    LET left == clients \ {c}
        deleted == cliDeleteRecs + 1
    IN /\ fsPc = "up" /\ c \in clients
       /\ written \/ "write" \in RootFaults
       /\ Len(cliFile) < CliMaxRecs
       /\ clients' = left
       /\ \/ /\ shouldCompactClientFile(deleted, left)
             /\ cliFile' = Compacted(left) /\ cliDeleteRecs' = 0 /\ undeleted' = {}
          \/ /\ cliFile' = IF written THEN Append(cliFile, [op |-> "del", id |-> c])
                          ELSE cliFile
             /\ cliDeleteRecs' = deleted
             /\ undeleted' = IF written THEN undeleted ELSE undeleted \cup {c}
       /\ UNCHANGED <<fsPc, dirs, chans, rec, leftover>> /\ UNCHANGED startVars

-----------------------------------------------------------------------------
\* The channels.

\* When one of the stores cannot be created the directory stays, and a message
\* store that was created is closed again. (A directory that cannot be made
\* changes nothing.)
CreateChannelUnclosed(ch, ok) ==
    /\ fsPc = "up" /\ ch \notin chans
    /\ MaxChannels = 0 \/ Cardinality(chans) < MaxChannels
    /\ ok \/ "channel" \in RootFaults
    /\ dirs' = dirs \cup {ch}
    /\ chans' = IF ok THEN chans \cup {ch} ELSE chans
    /\ rec' = [rec EXCEPT !.open = @ \cup (IF ok THEN StoresOf(ch) ELSE {<<"msgs", ch>>})]
    /\ leftover' = IF ok THEN leftover \ {ch} ELSE leftover \cup {ch}
    /\ UNCHANGED fsPc /\ UNCHANGED cliVars /\ UNCHANGED startVars
CreateChannel(ch, ok) ==
    /\ fsPc = "up" /\ ch \notin chans
    /\ MaxChannels = 0 \/ Cardinality(chans) < MaxChannels
    /\ ok \/ "channel" \in RootFaults
    /\ dirs' = dirs \cup {ch}
    /\ chans' = IF ok THEN chans \cup {ch} ELSE chans
    /\ rec' = IF ok THEN [rec EXCEPT !.open = @ \cup StoresOf(ch)] ELSE rec
    /\ leftover' = IF ok THEN leftover \ {ch} ELSE leftover \cup {ch}
    /\ UNCHANGED fsPc /\ UNCHANGED cliVars /\ UNCHANGED startVars

\* os.RemoveAll may fail when the stores are closed already. If closing them
\* reports an error they are closed, and the channel stays (DeleteChannelFails).
DeleteChannel(ch, removed) ==
    /\ fsPc = "up" /\ ch \in chans
    /\ removed \/ "remove" \in RootFaults
    /\ chans' = chans \ {ch} /\ rec' = [rec EXCEPT !.open = @ \ StoresOf(ch)]
    /\ dirs' = IF removed THEN dirs \ {ch} ELSE dirs
    /\ leftover' = IF removed THEN leftover ELSE leftover \cup {ch}
    /\ UNCHANGED fsPc /\ UNCHANGED cliVars /\ UNCHANGED startVars

DeleteChannelFails(ch) ==
    /\ fsPc = "up" /\ ch \in chans /\ "close" \in RootFaults
    /\ rec' = [rec EXCEPT !.open = @ \ StoresOf(ch)]
    /\ UNCHANGED <<fsPc, dirs, chans, leftover>> /\ UNCHANGED cliVars /\ UNCHANGED startVars

-----------------------------------------------------------------------------
\* The start: NewFileStore, then Recover.

NewFileStore(truncate) ==
    /\ fsPc = "down"
    /\ ~(truncate /\ witness)    \* else it fails: consecutive starts
    /\ witness' = truncate /\ truncates' = truncate /\ initThenRecover' = FALSE
    /\ fsPc' = "recover"
    /\ UNCHANGED <<serverFile, dirs, chans, rec, leftover, rootCrashes>> /\ UNCHANGED cliVars

\* The incomplete record at the end of the file: zeroes are truncated, and a
\* short record is only with the option.
CanRecoverClients == truncates \/ \A i \in DOMAIN cliFile : cliFile[i].op # "short"

\* Recover up to the recovery of the channels.
Recover(readable) ==
    /\ fsPc = "recover"
    /\ readable \/ "readdir" \in RootFaults
    /\ \/ /\ serverFile = "torn" /\ fsPc' = "failed"
          /\ UNCHANGED <<rec, initThenRecover>> /\ UNCHANGED cliVars
       \/ /\ serverFile = "empty" /\ fsPc' = "init"
          /\ initThenRecover' = (initThenRecover \/ (readable /\ dirs # {}))
          /\ UNCHANGED rec /\ UNCHANGED cliVars
       \/ /\ serverFile = "info" /\ ~CanRecoverClients /\ fsPc' = "failed"
          /\ UNCHANGED <<rec, initThenRecover>> /\ UNCHANGED cliVars
       \/ /\ serverFile = "info" /\ CanRecoverClients
          /\ cliFile' = Records
          /\ clients' = ReplayedClients(Records)
          /\ cliDeleteRecs' = Len(SelectSeq(Records, LAMBDA r : r.op = "del"))
          /\ undeleted' = {}
          /\ IF readable
             THEN /\ fsPc' = IF dirs = {} THEN "up" ELSE "channels"
                  /\ rec' = [NoRecovery EXCEPT !.left = dirs, !.pool = ParallelRecovery]
                  /\ UNCHANGED initThenRecover
             ELSE \* "return nil, err", with err = nil: no state was recovered
                  /\ fsPc' = "init" /\ UNCHANGED <<rec, initThenRecover>>
    /\ UNCHANGED <<serverFile, dirs, chans, witness, truncates, leftover, rootCrashes>>

\* The loop that starts recoverOneChannel, as many as the pool allows, and that
\* stops at the first error.
RecoveryStart(ch) ==
    /\ fsPc = "channels" /\ ch \in rec.left /\ rec.pool > 0
    /\ \E seen \in {rec.failed, FALSE} :   \* errCh may get its error after the test
          rec' = [rec EXCEPT !.pool = @ - 1, !.working = @ \cup {ch},
                             !.left = IF seen THEN {} ELSE @ \ {ch}]
    /\ UNCHANGED <<fsPc, dirs, chans, leftover>> /\ UNCHANGED cliVars /\ UNCHANGED startVars

\* recoverOneChannel: the message store, then the subscription store; if that one
\* fails the first one is closed.
recoverMsgs(ch) ==
    /\ fsPc = "channels" /\ ch \in rec.working \ rec.opened
    /\ \/ rec' = [rec EXCEPT !.opened = @ \cup {ch}, !.open = @ \cup {<<"msgs", ch>>}]
       \/ /\ "channel" \in RootFaults
          /\ rec' = [rec EXCEPT !.working = @ \ {ch}, !.pool = @ + 1, !.failed = TRUE]
    /\ UNCHANGED <<fsPc, dirs, chans, leftover>> /\ UNCHANGED cliVars /\ UNCHANGED startVars

recoverOneChannel(ch) ==
    LET done == [rec EXCEPT !.working = @ \ {ch}, !.opened = @ \ {ch}, !.pool = @ + 1]
    IN /\ fsPc = "channels" /\ ch \in rec.opened
       /\ \/ rec' = [done EXCEPT !.recovered = @ \cup {ch}, !.open = @ \cup {<<"subs", ch>>}]
          \/ /\ "channel" \in RootFaults
             /\ rec' = [done EXCEPT !.failed = TRUE, !.open = @ \ {<<"msgs", ch>>}]
       /\ UNCHANGED <<fsPc, dirs, chans, leftover>> /\ UNCHANGED cliVars /\ UNCHANGED startVars

\* wg.Wait, then what was recovered is collected before the error is looked at.
RecoveryEnd ==
    /\ fsPc = "channels" /\ rec.left = {} /\ rec.working = {}
    /\ chans' = rec.recovered
    /\ fsPc' = IF rec.failed THEN "failed" ELSE "up"
    /\ rec' = [rec EXCEPT !.recovered = {}]
    /\ leftover' = {}
    /\ UNCHANGED dirs /\ UNCHANGED cliVars /\ UNCHANGED startVars

\* Init in two steps: the file is truncated, then the record is written. start
\* then recovers again when there were channels.
InitTruncate ==
    /\ fsPc = "init" /\ fsPc' = "write" /\ serverFile' = "empty"
    /\ UNCHANGED <<dirs, chans, witness, truncates, initThenRecover, rec, leftover, rootCrashes>>
    /\ UNCHANGED cliVars

InitWrite ==
    /\ fsPc = "write" /\ serverFile' = "info"
    /\ fsPc' = IF initThenRecover THEN "recover" ELSE "up"
    /\ UNCHANGED <<dirs, chans, witness, truncates, initThenRecover, rec, leftover, rootCrashes>>
    /\ UNCHANGED cliVars

\* start() returned an error: Shutdown closes the store, with every channel in
\* fs.channels.
RootClose ==
    /\ fsPc \in {"up", "failed"} /\ fsPc' = "down"
    /\ rec' = [NoRecovery EXCEPT !.open = rec.open \ UNION {StoresOf(ch) : ch \in chans}]
    /\ chans' = {}
    /\ UNCHANGED <<dirs, leftover>> /\ UNCHANGED cliVars /\ UNCHANGED startVars

\* clients.dat is never synced: a crash of the process keeps it, the last record
\* possibly incomplete (and the blocks it had been given zeroes), a crash of the
\* machine any part of it; then the clients are those that part has. What Init
\* wrote stays.
RootCrash ==
    /\ fsPc # "down" /\ rootCrashes < RootMaxCrashes
    /\ rootCrashes' = rootCrashes + 1
    /\ fsPc' = "down" /\ rec' = NoRecovery /\ chans' = {}
    /\ \E n \in 0 .. Len(cliFile) :
          LET kept == SubSeq(cliFile, 1, n)
          IN /\ cliFile' \in {kept} \cup {Append(kept, [op |-> tail, id |-> tail]) :
                                tail \in {x \in {"zeroes", "short"} : fsPc = "up"}}
             /\ IF n = Len(cliFile) THEN UNCHANGED <<clients, undeleted>>
                ELSE clients' = ReplayedClients(SelectSeq(kept, Complete)) /\ undeleted' = {}
    /\ serverFile' \in {serverFile} \cup {x \in {"torn"} : fsPc = "write"}
    /\ UNCHANGED <<cliDeleteRecs, dirs, leftover, witness, truncates, initThenRecover>>

RootNext ==
    \/ \E c \in StoreClients :
          AddClient(c) \/ \E written \in BOOLEAN : DeleteClient(c, written)
    \/ \E ch \in StoreChannels :
          \/ RecoveryStart(ch) \/ recoverMsgs(ch) \/ recoverOneChannel(ch)
          \/ DeleteChannelFails(ch)
          \/ \E ok \in BOOLEAN : CreateChannel(ch, ok) \/ DeleteChannel(ch, ok)
    \/ \E b \in BOOLEAN : NewFileStore(b) \/ Recover(b)
    \/ RecoveryEnd \/ InitTruncate \/ InitWrite \/ RootClose \/ RootCrash

RootSpec == RootInit /\ [][RootNext]_rootVars

-----------------------------------------------------------------------------
RootTypeOK ==
    /\ fsPc \in {"down", "recover", "channels", "init", "write", "up", "failed"}
    /\ clients \subseteq StoreClients /\ undeleted \subseteq StoreClients
    /\ cliDeleteRecs \in Nat /\ serverFile \in {"empty", "torn", "info"}
    /\ chans \subseteq dirs /\ leftover \subseteq dirs /\ dirs \subseteq StoreChannels
    /\ rec.pool + Cardinality(rec.working) = IF fsPc = "channels" THEN ParallelRecovery ELSE rec.pool
    /\ {witness, truncates, initThenRecover, rec.failed} \subseteq BOOLEAN

\* Whatever the crashes and the compactions, failed ones included, the clients
\* file gives back the clients that were added and not deleted, and no other one
\* but those whose deletion could not be written (AddClient, DeleteClient and
\* compactClientFile against recoverClients).
ClientsReplayed ==
    serverFile = "info" =>
        /\ clients \subseteq ReplayedClients(Records)
        /\ ReplayedClients(Records) \subseteq clients \cup undeleted

\* A running server has recovered every channel that has a directory, those it
\* could not remove or could not finish to create excepted (Recover, and start's
\* second recovery when the server information was missing). However the recovery
\* of the channels in parallel ends, with one failing while another one is half
\* done, each store that it opened belongs to a channel of the store, which Close
\* will close, or was closed again.
ChannelsRecovered ==
    /\ fsPc = "up" => dirs \subseteq chans \cup leftover
    /\ fsPc \in {"up", "failed", "down"} => \A s \in rec.open : s[2] \in chans
=============================================================================
