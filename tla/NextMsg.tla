------------------------------- MODULE NextMsg -------------------------------
(***************************************************************************)
(* getNextMsg of server/server.go step by step.  Module Delivery takes it  *)
(* as one step; in the code it asks the message store several questions,   *)
(* each under the store's own lock, while ioLoop stores messages and the   *)
(* store removes others.                                                   *)
(*                                                                         *)
(* The caller is the loop of sendAvailableMessages for one subscription    *)
(* that takes every message it is given.                                   *)
(***************************************************************************)
EXTENDS Integers

CONSTANTS
    NMMaxMsgs,    \* the channel's MaxMsgs limit, 0 for none
    NMMaxAge,     \* TRUE if the channel has a MaxAge limit
    NMMaxSeq      \* bound: number of messages published

ASSUME NextMsgAssumption == NMMaxMsgs \in Nat /\ NMMaxAge \in BOOLEAN /\ NMMaxSeq \in Nat

VARIABLES
    nmFirst, nmLast,        \* the message store
    nmPc,                 \* "idle", "lookup" or "bounds"
    nmNextSeq, nmLastSent,
    nmAgain,              \* TRUE from the second iteration on (i > 0)
    nmSent,               \* history: the messages sent
    nmEmptied             \* history: the store has lost all its messages at some time

nmStore == <<nmFirst, nmLast, nmEmptied>>
nmVars == <<nmStore, nmPc, nmNextSeq, nmLastSent, nmAgain, nmSent>>

NMStored(q) == nmFirst <= q /\ q <= nmLast

NMInit ==
    /\ nmFirst = 0 /\ nmLast = 0
    /\ nmPc = "idle" /\ nmNextSeq = 1 /\ nmLastSent = 0 /\ nmAgain = FALSE
    /\ nmSent = {} /\ nmEmptied = FALSE

(* Store keeps at least the message just added. *)
NMStoreMsg ==
    /\ nmLast < NMMaxSeq
    /\ nmLast' = nmLast + 1
    /\ nmFirst' = IF nmFirst = 0 THEN 1
                ELSE IF NMMaxMsgs > 0 /\ nmLast + 1 - nmFirst + 1 > NMMaxMsgs THEN nmFirst + 1
                ELSE nmFirst
    /\ UNCHANGED <<nmEmptied, nmPc, nmNextSeq, nmLastSent, nmAgain, nmSent>>

(* expireMsgs may remove all messages: then first = last + 1. *)
(* Mutant: one message too many. *)
NMexpireMsgsTooFar ==
    /\ NMMaxAge /\ 0 < nmFirst /\ nmFirst <= nmLast + 1
    /\ nmFirst' = nmFirst + 1 /\ nmEmptied' = (nmEmptied \/ nmFirst >= nmLast)
    /\ UNCHANGED <<nmLast, nmPc, nmNextSeq, nmLastSent, nmAgain, nmSent>>

NMexpireMsgs ==
    /\ NMMaxAge /\ 0 < nmFirst /\ nmFirst <= nmLast
    /\ nmFirst' = nmFirst + 1 /\ nmEmptied' = (nmEmptied \/ nmFirst = nmLast)
    /\ UNCHANGED <<nmLast, nmPc, nmNextSeq, nmLastSent, nmAgain, nmSent>>

(* The send loop is entered. *)
NMsendAvailableMessages ==
    /\ nmPc = "idle"
    /\ nmPc' = "lookup" /\ nmNextSeq' = nmLastSent + 1 /\ nmAgain' = FALSE
    /\ UNCHANGED <<nmStore, nmLastSent, nmSent>>

(* Lookup finds the message, which is sent, and the loop goes on. *)
lookupFound ==
    /\ nmPc = "lookup" /\ NMStored(nmNextSeq)
    /\ nmSent' = nmSent \cup {nmNextSeq}
    /\ nmLastSent' = nmNextSeq
    /\ nmNextSeq' = nmNextSeq + 1 /\ nmAgain' = FALSE
    /\ UNCHANGED <<nmStore, nmPc>>

lookupMissing ==
    /\ nmPc = "lookup" /\ ~NMStored(nmNextSeq)
    /\ nmPc' = "bounds"
    /\ UNCHANGED <<nmStore, nmNextSeq, nmLastSent, nmAgain, nmSent>>

(* FirstAndLastSequence: the end of the channel ... *)
boundsEnd ==
    /\ nmPc = "bounds" /\ nmNextSeq >= nmLast
    /\ nmPc' = "idle"
    /\ UNCHANGED <<nmStore, nmNextSeq, nmLastSent, nmAgain, nmSent>>

(* ... or the next sequence to look up. *)
(* Mutant: no second try for the same sequence. *)
boundsMoveAtOnce ==
    /\ nmPc = "bounds" /\ nmNextSeq < nmLast
    /\ nmPc' = "lookup" /\ nmAgain' = TRUE
    /\ IF nmNextSeq < nmFirst
       THEN nmNextSeq' = nmFirst /\ nmLastSent' = nmFirst - 1
       ELSE nmNextSeq' = nmNextSeq + 1 /\ nmLastSent' = nmLastSent + 1
    /\ UNCHANGED <<nmStore, nmSent>>

(* Mutant: what was removed is looked up again and again. *)
boundsMoveNowhere ==
    /\ nmPc = "bounds" /\ nmNextSeq < nmLast
    /\ nmPc' = "lookup" /\ nmAgain' = TRUE
    /\ IF nmNextSeq >= nmFirst /\ nmAgain
       THEN nmNextSeq' = nmNextSeq + 1 /\ nmLastSent' = nmLastSent + 1
       ELSE UNCHANGED <<nmNextSeq, nmLastSent>>
    /\ UNCHANGED <<nmStore, nmSent>>

boundsMove ==
    /\ nmPc = "bounds" /\ nmNextSeq < nmLast
    /\ nmPc' = "lookup" /\ nmAgain' = TRUE
    /\ IF nmNextSeq < nmFirst
       THEN nmNextSeq' = nmFirst /\ nmLastSent' = nmFirst - 1
       ELSE IF nmAgain
       THEN nmNextSeq' = nmNextSeq + 1 /\ nmLastSent' = nmLastSent + 1
       ELSE UNCHANGED <<nmNextSeq, nmLastSent>>
    /\ UNCHANGED <<nmStore, nmSent>>

NMgetNextMsg == lookupFound \/ lookupMissing \/ boundsEnd \/ boundsMove

NMNext == NMStoreMsg \/ NMexpireMsgs \/ NMsendAvailableMessages \/ NMgetNextMsg

(* The loop is entered again for every message stored. *)
NMsendNext == NMsendAvailableMessages \/ NMgetNextMsg
NMSpec == NMInit /\ [][NMNext]_nmVars /\ WF_nmVars(NMsendNext)
-----------------------------------------------------------------------------
(* The values the variables take. *)
NMTypeOK ==
    /\ nmLast \in 0..NMMaxSeq /\ nmFirst \in 0..(nmLast + 1) /\ (nmFirst = 0 => nmLast = 0)
    /\ nmPc \in {"idle", "lookup", "bounds"}
    /\ nmNextSeq \in Nat /\ nmLastSent \in Nat
    /\ nmAgain \in BOOLEAN /\ nmEmptied \in BOOLEAN
    /\ nmSent \subseteq Nat

(* getNextMsg: "we move by one at a time until we find a valid message":   *)
(* the cursor never moves past a message that the store still has and that *)
(* was not sent.                                                           *)
NoSkip == \A q \in 1..nmLastSent : q \in nmSent \/ q < nmFirst

(* The same for a channel whose store never lost all its messages, as is   *)
(* the case with the limits MaxMsgs and MaxBytes: however the lookups, the *)
(* Stores and the removals interleave, getNextMsg skips nothing.           *)
NoSkipUnlessEmptied == nmEmptied \/ NoSkip

(* Every message of such a store is sent, or removed first. *)
EventuallySent == \A q \in 1..NMMaxSeq : NMStored(q) ~> q \in nmSent \/ q < nmFirst \/ nmEmptied
==============================================================================
