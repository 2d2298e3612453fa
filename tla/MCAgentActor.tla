---------------------------- MODULE MCAgentActor ----------------------------
(* AgentActor with events of one pull request (more than one turn is       *)
(* needed to arm, use and exhaust the retry tier), an operator's message   *)
(* and an operator's /project.  "o/r" is what the repository's channels    *)
(* hint, "o--r" what the engine calls it.  Which view a behaviour is of is *)
(* chosen first: the actor with its channels as plain loops, or the two    *)
(* channels people talk through with the actor as a queue (Chat).          *)
EXTENDS AgentActor, Chat

VARIABLE view

MCEnvelope ==
    LET pr == [source |-> "github", hint |-> "o/r", task |-> "pr", kind |-> "message",
               role |-> "default"]
    IN  [e \in Events |->
            CASE e = "message" -> [pr EXCEPT !.source = "telegram", !.hint = "none", !.task = "chat"]
              [] e = "project" -> [pr EXCEPT !.source = "telegram", !.task = "chat", !.kind = "project"]
              [] OTHER -> pr]

MCSanitize == [n \in Names |-> IF n = "o/r" THEN "o--r" ELSE n]

MCInit == Init /\ ChatInit /\ view \in {"actor", "chat"}

MCNext ==
    \/ view = "actor" /\ Next /\ UNCHANGED <<view, chatVars>>
    \/ view = "chat" /\ ChatNext /\ UNCHANGED <<view, vars>>

(* AgentActor's fairness; the listen loop, and the turns it waits for end, *)
(* which TurnLoop shows of all but a turn with a tool call that hangs and  *)
(* that nobody cancels; a client that began to write a line writes it to   *)
(* its end.                                                                *)
MCSpec ==
    /\ MCInit
    /\ [][MCNext]_<<view, vars, chatVars>>
    /\ WF_vars(view = "actor" /\ ActorStep)
    /\ WF_vars(view = "actor" /\ BeginDrain)
    /\ WF_vars(view = "actor" /\ Exit)
    /\ WF_chatVars(view = "chat" /\ ServerStep)
    /\ WF_chatVars(view = "chat" /\ AgentReplies)
    /\ \A c \in Clients : WF_chatVars(view = "chat" /\ WriteRest(c))
=============================================================================
