----------------------------- MODULE MCTurnLoop -----------------------------
(* A turn and the devshell that its calls may wait for, in one run: a      *)
(* behaviour is one of TurnLoop or one of Devshell.                        *)
EXTENDS TurnLoop, Devshell

(* A root turn's budget under reply confirmation and a sub-agent's         *)
(* policies: each policy acts alone, so two pairs cover both.              *)
MCPolicies == {[budget |-> "fail", reply |-> "confirm"], [budget |-> "final", reply |-> "accept"]}

VARIABLE view

MCInit ==
    /\ Init /\ ShellInit
    /\ view \in {"turn", "devshell"}
    /\ view = "turn" => approved = 0   \* of no matter to a turn

MCNext ==
    \/ view = "turn" /\ Next /\ UNCHANGED <<view, shellVars>>
    \/ view = "devshell" /\ ShellNext /\ UNCHANGED <<view, vars>>

MCSpec ==
    /\ MCInit
    /\ [][MCNext]_<<view, vars, shellVars>>
    /\ WF_vars(view = "turn" /\ TurnStep)
    /\ WF_shellVars(view = "devshell" /\ SomeTaskStep)
=============================================================================
