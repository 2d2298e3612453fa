---------------------------- MODULE MCLcmContext ----------------------------
(* The engine's two views in one run: a behaviour is one conversation in   *)
(* detail (LcmContext) or the store across sessions (LcmStore).            *)
EXTENDS LcmContext, LcmExpand

VARIABLE view

MCInit == Init /\ StoreInit /\ view \in {"conversation", "store"}

MCNext ==
    \/ view = "conversation" /\ Next /\ UNCHANGED <<view, storeVars>>
    \/ view = "store" /\ StoreNext /\ UNCHANGED <<view, vars>>

MCSpec ==
    /\ MCInit
    /\ [][MCNext]_<<view, vars, storeVars>>
    /\ WF_vars(view = "conversation" /\ CompactionStep)
=============================================================================
