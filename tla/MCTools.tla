------------------------------- MODULE MCTools -------------------------------
(* The git tools and the calls that outlive a cancel, in one run: a        *)
(* behaviour is one of GitTools or one of ToolCalls.                       *)
EXTENDS GitTools, ToolCalls

VARIABLE view

MCInit == GitInit /\ Init /\ view \in {"git", "calls"}

MCNext ==
    \/ view = "git" /\ GitNext /\ UNCHANGED <<view, vars>>
    \/ view = "calls" /\ Next /\ UNCHANGED <<view, gitVars>>

MCSpec == MCInit /\ [][MCNext]_<<view, gitVars, vars>>
=============================================================================
