------------------------------ MODULE MCStores ------------------------------
(* The stores of one process for TLC. They share no state, so a behaviour     *)
(* moves one of them, the part chosen at the start.                           *)
EXTENDS FileMsgStore, MemMsgStore, SQLMsgStore, FileSubStore, SQLSubStore, FilesManager, FileStore

VARIABLE part

MCInit ==
    /\ part \in {"file", "memory", "sql", "fileSubs", "sqlSubs", "files", "root"}
    /\ FileInit /\ MemInit /\ SQLInit /\ FileSubInit /\ SQLSubInit /\ FMInit /\ RootInit

MCNext ==
    /\ UNCHANGED part
    /\ \/ part = "file" /\ FileNext
       \/ part # "file" /\ UNCHANGED fileVars
    /\ \/ part = "memory" /\ MemNext
       \/ part # "memory" /\ UNCHANGED memVars
    /\ \/ part = "sql" /\ SQLNext
       \/ part # "sql" /\ UNCHANGED sqlVars
    /\ \/ part = "fileSubs" /\ FileSubNext
       \/ part # "fileSubs" /\ UNCHANGED fileSubVars
    /\ \/ part = "sqlSubs" /\ SQLSubNext
       \/ part # "sqlSubs" /\ UNCHANGED sqlSubVars
    /\ \/ part = "files" /\ FMNext
       \/ part # "files" /\ UNCHANGED fmVars
    /\ \/ part = "root" /\ RootNext
       \/ part # "root" /\ UNCHANGED rootVars

MCSpec == MCInit /\ [][MCNext]_<<part, fileVars, memVars, sqlVars, fileSubVars, sqlSubVars, fmVars, rootVars>>

\* Every store keeps its state in the range of its types.
StoresTypeOK ==
    FileTypeOK /\ MemTypeOK /\ SQLTypeOK /\ FileSubTypeOK /\ SQLSubTypeOK /\ FMTypeOK /\ RootTypeOK

\* GetSequenceFromTimestamp of the file store, and of the memory store, returns
\* the first message whose time is the one asked for or a later one.
TimestampsFirst == SeqFromTimestampFirst /\ MemSeqFromTimestampFirst

\* The subscriptions file, with its buffer, and the clients file replay to what
\* the file store holds in memory (recoverSubscriptions, recoverClients).
FilesReplay == ReplayIsMemory /\ ClientsReplayed
=============================================================================
