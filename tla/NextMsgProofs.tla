---------------------------- MODULE NextMsgProofs ----------------------------
(***************************************************************************)
(* getNextMsg skips no message of a store that was never emptied, for      *)
(* every MaxMsgs and every number of messages.                             *)
(***************************************************************************)
EXTENDS NextMsg, TLAPS

(***************************************************************************)
(* Why the branch "i > 0" is never taken.  Until the store is emptied its  *)
(* range is not empty.  A second lookup is always for a sequence that was  *)
(* in the store or below it when FirstAndLastSequence answered, so if it   *)
(* fails the message has been removed since.                               *)
(***************************************************************************)
IInv ==
    /\ NMTypeOK
    /\ nmNextSeq = nmLastSent + 1 \/ nmPc = "idle"
    /\ ~nmEmptied =>
        /\ nmFirst <= nmLast
        /\ nmAgain /\ nmPc = "lookup" => nmNextSeq <= nmLast
        /\ nmAgain /\ nmPc = "bounds" => nmNextSeq < nmFirst
        /\ NoSkip

(* The two parts of the type invariant, for provers of two kinds. *)
Flags == nmAgain \in BOOLEAN /\ nmEmptied \in BOOLEAN
Numbers ==
    /\ nmLast \in 0..NMMaxSeq /\ nmFirst \in 0..(nmLast + 1) /\ (nmFirst = 0 => nmLast = 0)
    /\ nmPc \in {"idle", "lookup", "bounds"}
    /\ nmNextSeq \in Nat /\ nmLastSent \in Nat
    /\ nmSent \subseteq Nat

(* TypeOK, split into what Zenon and what SMT reason about. *)
LEMMA TypeParts == NMTypeOK <=> Flags /\ Numbers
  BY Zenon DEF NMTypeOK, Flags, Numbers

(* The inductive invariant holds when the subscription starts. *)
LEMMA InitIInv == NMInit => IInv
<1> SUFFICES ASSUME NMInit PROVE IInv
    OBVIOUS
<1>1. Flags
    BY Zenon DEF NMInit, Flags
<1>2. Numbers
    BY NextMsgAssumption DEF NMInit, Numbers
<1>3. /\ nmNextSeq = nmLastSent + 1 /\ nmFirst <= nmLast /\ nmPc = "idle" /\ NoSkip
    BY DEF NMInit, NoSkip
<1> QED
    BY <1>1, <1>2, <1>3, TypeParts, Zenon DEF IInv

(* Every step of Store, expireMsgs and getNextMsg preserves it. *)
LEMMA StepIInv == IInv /\ [NMNext]_nmVars => IInv'
<1> SUFFICES ASSUME IInv, [NMNext]_nmVars PROVE IInv'
    OBVIOUS
<1> DEFINE Rest ==
        /\ nmNextSeq = nmLastSent + 1 \/ nmPc = "idle"
        /\ ~nmEmptied =>
            /\ nmFirst <= nmLast
            /\ nmAgain /\ nmPc = "lookup" => nmNextSeq <= nmLast
            /\ nmAgain /\ nmPc = "bounds" => nmNextSeq < nmFirst
            /\ NoSkip
<1>0. Flags /\ Numbers /\ Rest
    BY TypeParts, Zenon DEF IInv
<1>1. Flags'
    <2> USE <1>0 DEF Flags
    <2>1. ASSUME UNCHANGED <<nmAgain, nmEmptied>> PROVE Flags'
        BY <2>1, Zenon
    <2>2. CASE NMexpireMsgs
        BY <2>2, Zenon DEF NMexpireMsgs
    <2>3. CASE NMsendAvailableMessages \/ lookupFound \/ boundsMove
        BY <2>3, Zenon DEF NMsendAvailableMessages, lookupFound, boundsMove, nmStore
    <2> QED
        BY <2>1, <2>2, <2>3, Zenon DEF NMNext, NMgetNextMsg, NMStoreMsg, lookupMissing, boundsEnd, nmVars, nmStore
<1>2. Numbers' /\ Rest'
    <2> USE <1>0, NextMsgAssumption DEF Numbers, NoSkip
    <2>1. CASE NMStoreMsg
        BY <2>1 DEF NMStoreMsg
    <2>2. CASE NMexpireMsgs
        <3>1. ~nmEmptied' => ~nmEmptied /\ nmFirst # nmLast
            BY <2>2, Zenon DEF NMexpireMsgs
        <3>2. /\ 0 < nmFirst /\ nmFirst <= nmLast /\ nmFirst' = nmFirst + 1
              /\ UNCHANGED <<nmLast, nmPc, nmNextSeq, nmLastSent, nmAgain, nmSent>>
            BY <2>2, Zenon DEF NMexpireMsgs
        <3> QED
            BY <3>1, <3>2
    <2>3. CASE NMsendAvailableMessages
        BY <2>3 DEF NMsendAvailableMessages, nmStore
    <2>4. CASE lookupFound
        BY <2>4 DEF lookupFound, nmStore, NMStored
    <2>5. CASE lookupMissing
        BY <2>5 DEF lookupMissing, nmStore, NMStored
    <2>6. CASE boundsEnd
        BY <2>6 DEF boundsEnd, nmStore
    <2>7. CASE boundsMove
        BY <2>7 DEF boundsMove, nmStore
    <2>8. CASE UNCHANGED nmVars
        BY <2>8 DEF nmVars, nmStore
    <2> QED
        BY <2>1, <2>2, <2>3, <2>4, <2>5, <2>6, <2>7, <2>8 DEF NMNext, NMgetNextMsg
<1>3. (Flags /\ Numbers /\ Rest => IInv)'
    BY TypeParts, PTL DEF IInv
<1> QED
    BY <1>1, <1>2, <1>3, Zenon

(* The type invariant of the store and of getNextMsg's loop. *)
THEOREM TypeCorrect == NMSpec => []NMTypeOK
<1>1. IInv => NMTypeOK
    BY DEF IInv
<1> QED
    BY InitIInv, StepIInv, <1>1, PTL DEF NMSpec

(* getNextMsg never moves the cursor past an unsent message of a store     *)
(* that has not been emptied.                                              *)
THEOREM NothingSkipped == NMSpec => []NoSkipUnlessEmptied
<1>1. IInv => NoSkipUnlessEmptied
    BY DEF IInv, NMTypeOK, NoSkipUnlessEmptied
<1> QED
    BY InitIInv, StepIInv, <1>1, PTL DEF NMSpec
==============================================================================
