--------------------------- MODULE ContextPromise ---------------------------
(***************************************************************************)
(* What a context engine promises the agent about a conversation's history *)
(* (the ContextEngine trait and spec 14, "Lossless Context Management"):   *)
(* messages are only ever appended, and a message can be recalled -- it is *)
(* in the active context as it was written, or below a stored summary --   *)
(* from the moment it is appended until the operator clears the context.   *)
(* Compaction, a crash, a restart and a session switch are invisible here. *)
(***************************************************************************)
EXTENDS Naturals

VARIABLES length,    \* number of messages ever appended
          cleared,   \* how many there were when the context was last cleared
          recall     \* the messages that can be recalled, by position

promised == <<length, cleared, recall>>

Init == length = 0 /\ cleared = 0 /\ recall = {}

(* push_message: the new message can be recalled at once. *)
Record ==
    /\ length' = length + 1
    /\ recall' = recall \cup {length'}
    /\ UNCHANGED cleared

(* clear: the only step by which a message may stop being recallable. *)
Forget ==
    /\ cleared' = length
    /\ recall' \subseteq recall
    /\ UNCHANGED length

Spec == Init /\ [][Record \/ Forget]_promised
=============================================================================
