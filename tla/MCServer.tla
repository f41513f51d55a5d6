------------------------------ MODULE MCServer ------------------------------
(* The parts of the server around the delivery of messages, for TLC. They     *)
(* share no state, so a behaviour moves one of them, the part chosen at the   *)
(* start.                                                                     *)
EXTENDS Clients, Channels, SentAck, Restore, RaftLog, FTLock, SubList, Partitions,
        RaftTransport, ClusterPublish

VARIABLE part

MCInit ==
    /\ CliInit /\ ChInit /\ SAInit /\ RsInit /\ RLInit /\ FTInit /\ SLInit /\ PtInit /\ RTInit /\ CPInit
    /\ part \in {"clients", "waiters", "channels", "sentAck", "restore", "raftLog", "ft", "subList",
                 "partitions", "transport", "publish"}
    \* parts with several initial states have one while another part moves
    /\ part # "sentAck" => group = Members
    /\ Cardinality(group) = 1 => group = {CHOOSE m \in Members : TRUE}
    /\ part # "restore" => lLast = 1 /\ snap.first = 1 /\ lFirst = 1 /\ sLast = 0
    /\ part # "partitions" => linked /\ \A s \in PtServers : lists[s] = {<<"b", "b">>}

MCNext ==
    /\ UNCHANGED part
    \* The calls that wait for a client touch nothing that the subscriptions and
    \* the heartbeats do: a behaviour has the ones or the others.
    /\ \/ part = "clients" /\ CliNext /\ UNCHANGED waitPc
       \/ part = "waiters" /\ CliNext /\ UNCHANGED <<subPc, checks>>
       \/ part \notin {"clients", "waiters"} /\ UNCHANGED cliVars
    /\ \/ part = "channels" /\ ChNext
       \/ part # "channels" /\ UNCHANGED chVars
    /\ \/ part = "sentAck" /\ SANext
       \/ part # "sentAck" /\ UNCHANGED saVars
    /\ \/ part = "restore" /\ RsNext
       \/ part # "restore" /\ UNCHANGED rsVars
    /\ \/ part = "raftLog" /\ RLNext
       \/ part # "raftLog" /\ UNCHANGED rlVars
    /\ \/ part = "ft" /\ FTNext
       \/ part # "ft" /\ UNCHANGED ftVars
    /\ \/ part = "subList" /\ SLNext
       \/ part # "subList" /\ UNCHANGED slVars
    /\ \/ part = "partitions" /\ PtNext
       \/ part # "partitions" /\ UNCHANGED ptVars
    /\ \/ part = "transport" /\ RTNext
       \/ part # "transport" /\ UNCHANGED rtVars
    /\ \/ part = "publish" /\ CPNext
       \/ part # "publish" /\ UNCHANGED cpVars

MCSpec == MCInit /\ [][MCNext]_<<part, cliVars, chVars, saVars, rsVars, rlVars, ftVars, slVars,
                                 ptVars, rtVars, cpVars>>

\* Every part keeps its state in the range of its types.
ServerTypeOK ==
    /\ CliTypeOK /\ ChTypeOK /\ SATypeOK /\ RsTypeOK /\ RLTypeOK
    /\ FTTypeOK /\ SLTypeOK /\ PtTypeOK /\ RTTypeOK /\ CPTypeOK

-----------------------------------------------------------------------------
MCSubjects == {<<"a">>, <<"*">>, <<">">>, <<"a", "b">>, <<"a", "*">>, <<"*", "b">>, <<"a", ">">>, <<"*", "*">>}
MCInvalid == {<<"a", "">>, <<"a", ">", "b">>}
MCKeys == {<<"a">>, <<"a", "b">>, <<"a", "*">>, <<"a", ">">>}
MCUniverse == {<<"a">>, <<"b">>, <<"a", "a">>, <<"a", "b">>, <<"b", "b">>, <<"b", "a">>,
               <<"a", "a", "a">>, <<"b", "b", "b">>}
\* Among them "a.*" and "*.b", which cross.
MCLists == {{<<"a", "b">>}, {<<"a", "*">>}, {<<"a">>, <<"b", ">">>}, {<<"b", "b">>}, {<<"a", ">">>},
            {<<"*", "b">>}}
=============================================================================
