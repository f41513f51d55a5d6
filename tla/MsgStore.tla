------------------------------ MODULE MsgStore ------------------------------
(* What a message store promises to the server (stores/store.go, interface   *)
(* MsgStore), whatever keeps the messages: consecutive sequences from first  *)
(* to last, each one found as it was stored, the oldest ones dropped by the  *)
(* limits, and nothing that was flushed lost by a crash.                     *)
EXTENDS Integers

CONSTANTS MaxMsgs,   \* MsgStoreLimits.MaxMsgs, 0 for no limit
          Nil,       \* what Lookup returns when there is no message
          Time(_)    \* the timestamp of a message

VARIABLES first, last,  \* FirstAndLastSequence; first > last: no message left
          found,        \* what Lookup answers, for every sequence in first..last
          flushed,      \* the last sequence covered by a Flush
          gap,          \* a sequence was skipped that the limits do not count
          aged          \* Lookup does not return messages up to this time

vars == <<first, last, found, flushed, gap, aged>>

Init ==
    /\ first = 0 /\ last = 0 /\ flushed = 0 /\ gap = FALSE /\ aged = 0
    /\ found = [s \in {} |-> Nil]

\* The messages in both ranges are the same before and after.
Kept ==
    /\ DOMAIN found' = first'..last' \ {0}
    /\ \A s \in (DOMAIN found) \cap (first'..last') : found'[s] = found[s]

\* Store a message under a sequence above last. A sequence that is skipped has
\* no message, and MaxMsgs drops the oldest ones; a store that does not fill the
\* gaps counts the messages only, and may keep more sequences. A sequence that is
\* already there changes nothing.
Store ==
    LET f == IF first = 0 THEN last' ELSE first
        low == last' - MaxMsgs + 1
        limit == IF MaxMsgs > 0 /\ low > f THEN low ELSE f
    IN /\ last' > last /\ UNCHANGED <<flushed, aged>>
       /\ gap' = gap \/ (gap' = TRUE /\ last' > last + 1 /\ last > 0)
       /\ first' \in f..limit /\ (gap' \/ first' = limit)
       /\ Kept
       /\ found'[last'] # Nil
       /\ \A s \in last + 1 .. last' - 1 : s \in DOMAIN found' => found'[s] = Nil

\* The oldest messages expire.
Expire ==
    first' \in first + 1 .. last + 1 /\ Kept /\ UNCHANGED <<last, flushed, gap, aged>>

\* Messages that are too old may not be found any more before they are removed.
Age ==
    /\ aged' > aged
    /\ found' = [s \in DOMAIN found |->
                   IF found[s] # Nil /\ Time(found[s]) <= aged' THEN Nil ELSE found[s]]
    /\ UNCHANGED <<first, last, flushed, gap>>

Flush == flushed' = last /\ UNCHANGED <<first, last, found, gap, aged>>

Empty == first' = 0 /\ last' = 0 /\ flushed' = 0 /\ gap' = FALSE /\ Kept /\ UNCHANGED aged

\* A crash or a restart. Everything flushed is there again and nothing else
\* changes, but messages that had been dropped may come back, skipped sequences
\* before the first message may not, and a store whose flushed messages had all
\* been dropped may come back empty, with the last sequence that something else
\* still knows, or none.
Restart ==
    /\ \/ /\ last' \in flushed .. last
          /\ \/ first' \in 0 .. first
             \/ gap /\ first' \in first .. last'
                /\ \A s \in first .. first' - 1 : s \in DOMAIN found => found[s] = Nil
       \/ /\ first > flushed \/ last = 0
          /\ last' \in Nat
          /\ first' = IF last' = 0 THEN 0 ELSE last' + 1
    /\ flushed' = last' /\ Kept /\ UNCHANGED <<gap, aged>>

Next == Store \/ Expire \/ Age \/ Flush \/ Empty \/ Restart

Spec == Init /\ [][Next]_vars
=============================================================================
