------------------------------ MODULE Delivery ------------------------------
(***************************************************************************)
(* What the daemon promises about one unit of incoming work (a comment, a  *)
(* review request, an assigned issue, an operator's message).  Work is     *)
(* attempted one item at a time; it is settled once it is part of a stored *)
(* conversation, or its failure was reported: to a human, to the journal,  *)
(* or in vain, once every attempt to report it failed.  A channel gives up *)
(* re-dispatching an item only after it is settled.  Crashes and shutdowns *)
(* may end an attempt and cause another one, they never lose an item.      *)
(***************************************************************************)
CONSTANTS Work, Nothing

VARIABLES running,  \* the item being worked on, or Nothing
          settled,  \* stored in a conversation, or reported
          closed    \* items that will never be dispatched again

promised == <<running, settled, closed>>

Init == running = Nothing /\ settled = {} /\ closed = {}

Start(w) ==
    /\ running = Nothing /\ w \notin closed
    /\ running' = w
    /\ UNCHANGED <<settled, closed>>

Settle == /\ running # Nothing
          /\ settled' = settled \cup {running}
          /\ UNCHANGED <<running, closed>>

(* An attempt ends by itself, possibly settling its item, or is cut off. *)
Stop == /\ running # Nothing
        /\ running' = Nothing
        /\ settled' \in {settled, settled \cup {running}}
        /\ UNCHANGED closed

Close == /\ \E S \in SUBSET settled : closed' = closed \cup S
         /\ UNCHANGED <<running, settled>>

Next == (\E w \in Work : Start(w)) \/ Settle \/ Stop \/ Close

Spec == Init /\ [][Next]_promised
=============================================================================
