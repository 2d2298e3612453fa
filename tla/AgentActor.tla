----------------------------- MODULE AgentActor -----------------------------
(***************************************************************************)
(* The daemon around the agent: channel loops that dispatch events and     *)
(* await the reply (AgentHandle::send_message), the mailbox, the agent     *)
(* actor that handles one envelope at a time and switches to the hinted    *)
(* session for the turn, the durable cursors (active_session, the poll     *)
(* states, execution_escalations), and shutdown, crash and restart.        *)
(*                                                                         *)
(* A turn is opaque here: it records its message in the loaded session and *)
(* ends with an outcome (module LcmContext models what it does to the      *)
(* conversation).  Of the commands, /project is here: the others do not    *)
(* touch routing.  Compaction after the reply changes nothing seen here.   *)
(* The mailbox holds 32 envelopes and every loop awaits its reply before   *)
(* it sends the next, so `send` never waits for room.                      *)
(***************************************************************************)
EXTENDS Integers, Sequences, FiniteSets

CONSTANTS Events,        \* the events that will ever reach a channel
          Envelope,      \* what each is: see EnvelopeType
          Channels,      \* the channel loops
          Attended,      \* those whose reply a human is watching
          Tasks,         \* the dispatch identities (TaskKey)
          Names,         \* session names as hints and operators write them
          Sessions,      \* sanitized names
          Sanitize,      \* names::sanitize_name
          General,       \* the session of a first boot
          NoHint, None,
          Engine,        \* "flat" | "lcm"
          RetryTier,     \* whether model_overrides.execution_retry is set
          MaxFaults,     \* bound: reads and writes of the store that fail
          MaxStops       \* bound: crashes and shutdowns

EnvelopeType == [source : Channels, hint : Names \cup {NoHint}, task : Tasks,
                 kind : {"message", "project"}, role : {"default", "planner"}]

ASSUME ActorAssumption ==
    /\ Envelope \in [Events -> EnvelopeType]
    /\ Attended \subseteq Channels
    /\ Sessions \subseteq Names
    /\ Sanitize \in [Names -> Sessions]
    /\ \A s \in Sessions : Sanitize[s] = s
    /\ General \in Sessions
    /\ NoHint \notin Names
    /\ None \notin Events
    \* /project is typed in an operator's chat and names a session.
    /\ \A e \in Events : Envelope[e].kind = "project" =>
                              Envelope[e].source \in Attended /\ Envelope[e].hint # NoHint
    /\ Engine \in {"flat", "lcm"}
    /\ RetryTier \in BOOLEAN
    /\ MaxFaults \in Nat /\ MaxStops \in Nat

VARIABLES daemon,    \* "up", "stopping" (loops dropped), "draining", "down"
          waiting,   \* channel -> the event whose reply its loop awaits
          answered,  \* events answered since their loop last saved its state
          mailbox,   \* the actor's queue
          actor,     \* the envelope being handled and how far it is
          active,    \* engine.active_session()
          unsaved,   \* flat: events of the loaded session that no file holds
          cursor,    \* disk: the active_session file
          disk,      \* disk: session -> the events its conversation holds
          known,     \* disk: the sessions there are
          armed,     \* disk: table execution_escalations
          handled,   \* disk: events behind their channel's poll state
          told,      \* events whose reply or alert reached a human, or whose failure
                     \* is in the journal
          faults, stops,
          history    \* observations for the properties (see TypeOK)

vars == <<daemon, waiting, answered, mailbox, actor, active, unsaved, cursor,
          disk, known, armed, handled, told, faults, stops, history>>
engine == <<active, unsaved, cursor, disk, known>>
loops == <<waiting, answered, handled>>
bounds == <<faults, stops>>

Steps == {"recv", "prepare", "turn", "running", "record", "finish", "report"}
Outcomes == {"none", "text", "halt", "capped", "failed"}
Tiers == {"none", "default", "retry"}

Idle == [pc |-> "recv", event |-> None, original |-> General, switched |-> FALSE,
         tier |-> "none", outcome |-> "none", failed |-> FALSE]

Env == Envelope[actor.event]
Done(pc) == actor' = [actor EXCEPT !.pc = pc]
Fail == actor' = [actor EXCEPT !.pc = "report", !.failed = TRUE]

-----------------------------------------------------------------------------
(* Channel loops *)

(* A loop finds an event its state does not cover and awaits the turn. *)
Dispatch(e) ==
    LET c == Envelope[e].source
    IN  /\ daemon = "up" /\ waiting[c] = None
        /\ e \notin handled \cup answered
        /\ waiting' = [waiting EXCEPT ![c] = e]
        /\ mailbox' = Append(mailbox, e)
        /\ UNCHANGED <<daemon, answered, handled, actor, engine, armed, told, bounds, history>>

OfChannel(c, S) == {e \in S : Envelope[e].source = c}

(* The end of a poll tick stores the state that covers its answered events *)
(* (Telegram: the next getUpdates confirms the offset).                    *)
SaveState(c) ==
    /\ daemon # "down" /\ waiting[c] = None
    /\ OfChannel(c, answered) # {}
    /\ handled' = handled \cup OfChannel(c, answered)
    /\ answered' = answered \ OfChannel(c, answered)
    /\ UNCHANGED <<daemon, waiting, mailbox, actor, engine, armed, told, bounds, history>>

(* Mutant: an error is not sent to the loop. *)
AnswerUnlessFailed(e) ==
    LET c == Envelope[e].source
    IN  IF waiting[c] = e /\ ~actor.failed
        THEN /\ waiting' = [waiting EXCEPT ![c] = None]
             /\ answered' = answered \cup {e}
        ELSE UNCHANGED <<waiting, answered>>

(* A reply reaches the loop unless the loop is gone; a loop takes an error *)
(* for an answer like any other.                                           *)
Answer(e) ==
    LET c == Envelope[e].source
    IN  IF waiting[c] = e
        THEN /\ waiting' = [waiting EXCEPT ![c] = None]
             /\ answered' = answered \cup {e}
        ELSE UNCHANGED <<waiting, answered>>

-----------------------------------------------------------------------------
(* The actor: receive *)

(* Agent::run: take an envelope; refuse it when draining. *)
Receive ==
    /\ actor.pc = "recv" /\ mailbox # <<>> /\ daemon \in {"up", "stopping"}
    /\ actor' = [Idle EXCEPT !.pc = "prepare", !.event = Head(mailbox)]
    /\ mailbox' = Tail(mailbox)
    /\ UNCHANGED <<daemon, loops, engine, armed, told, bounds, history>>

(* Mutant: the refused envelope goes to the back of the queue. *)
RefuseRequeues ==
    /\ actor.pc = "recv" /\ mailbox # <<>> /\ daemon = "draining"
    /\ mailbox' = Append(Tail(mailbox), Head(mailbox))
    /\ UNCHANGED <<daemon, loops, actor, engine, armed, told, bounds, history>>

Refuse ==
    /\ actor.pc = "recv" /\ mailbox # <<>> /\ daemon = "draining"
    /\ mailbox' = Tail(mailbox)
    /\ Answer(Head(mailbox))
    /\ UNCHANGED <<daemon, handled, actor, engine, armed, told, bounds, history>>

-----------------------------------------------------------------------------
(* switch_session: save what is loaded, load the target, move the cursor.  *)
(* A name that sanitizes to the active one changes nothing.  The cursor is *)
(* written best-effort.                                                    *)

Fault == faults < MaxFaults /\ faults' = faults + 1

Save == disk' = [disk EXCEPT ![active] = @ \cup unsaved] /\ unsaved' = {}

SwitchSession(name) ==
    LET target == Sanitize[name]
    IN  IF target = active
        THEN UNCHANGED <<engine, faults>>
        ELSE /\ Save
             /\ active' = target
             /\ known' = known \cup {active, target}
             /\ \/ cursor' = target /\ UNCHANGED faults
                \/ Fault /\ UNCHANGED cursor

CanFail(name) == Fault /\ Sanitize[name] # active

-----------------------------------------------------------------------------
(* The actor: handle *)

(* escalation_tier; a failed lookup ends the envelope before any switch. *)
TierFor(e) == IF Envelope[e].role = "planner" \/ ~RetryTier THEN "none"
              ELSE IF Envelope[e].task \in armed THEN "retry" ELSE "default"

Target == IF Env.hint = NoHint THEN active ELSE Env.hint

PrepareTurn ==
    /\ actor.pc = "prepare" /\ Env.kind = "message"
    /\ SwitchSession(Target)
    /\ actor' = [actor EXCEPT !.pc = "turn", !.original = active,
                              !.switched = (Target # active), !.tier = TierFor(actor.event)]
    /\ UNCHANGED <<daemon, loops, mailbox, armed, told, stops, history>>

(* Mutant: goes on in the session that is loaded. *)
PrepareFailsIgnored ==
    /\ actor.pc = "prepare" /\ Env.kind = "message"
    /\ CanFail(Target)
    /\ Done("turn")
    /\ UNCHANGED <<daemon, loops, mailbox, engine, armed, told, stops, history>>

(* The retry state cannot be read, or the switch fails. *)
PrepareFails ==
    /\ actor.pc = "prepare" /\ Env.kind = "message"
    /\ CanFail(Target) \/ (Fault /\ TierFor(actor.event) # "none")
    /\ Fail
    /\ UNCHANGED <<daemon, loops, mailbox, engine, armed, told, stops, history>>

(* run_turn pushes the user's message first: LCM stores it at once, the    *)
(* flat engine keeps it in memory.                                         *)
Credit(n) == [history EXCEPT !.credit[Env.task] = @ + n]

StartTurn ==
    /\ actor.pc = "turn"
    /\ IF Engine = "lcm"
       THEN disk' = [disk EXCEPT ![active] = @ \cup {actor.event}] /\ UNCHANGED unsaved
       ELSE unsaved' = unsaved \cup {actor.event} /\ UNCHANGED disk
    /\ Done("running")
    /\ history' = IF actor.tier = "retry" THEN Credit(-1) ELSE history
    /\ UNCHANGED <<daemon, loops, mailbox, active, cursor, known, armed, told, bounds>>

(* The turn's result; a storage failure may have kept it from starting. *)
EndTurn(outcome) ==
    /\ \/ actor.pc = "running" /\ UNCHANGED faults
       \/ actor.pc = "turn" /\ outcome = "failed" /\ Fault
    /\ actor' = [actor EXCEPT !.pc = "record", !.outcome = outcome,
                              !.failed = outcome \in {"capped", "failed"}]
    /\ history' = IF outcome = "capped" /\ actor.tier = "default" THEN Credit(1) ELSE history
    /\ UNCHANGED <<daemon, loops, mailbox, engine, armed, told, stops>>

(* Mutant: a capped retry leaves the escalation armed. *)
ArmedAfterKept == IF actor.outcome = "capped" THEN armed \cup {Env.task} ELSE armed \ {Env.task}

(* ExecutionEscalations::record. *)
ArmedAfter == IF actor.outcome = "capped" /\ actor.tier = "default"
              THEN armed \cup {Env.task}
              ELSE armed \ {Env.task}

Recorded(failed) == [actor EXCEPT !.pc = "finish", !.tier = "none", !.outcome = "none",
                                  !.failed = failed]

(* record_escalation, then the alert for a halted unattended turn, if      *)
(* there is a notifier and its one attempt succeeds.                       *)
Record ==
    /\ actor.pc = "record"
    /\ \/ /\ armed' = IF actor.tier = "none" THEN armed ELSE ArmedAfter
          /\ actor' = Recorded(actor.failed)
          /\ UNCHANGED <<faults, history>>
       \/ /\ Fault /\ actor.tier # "none"
          /\ actor' = Recorded(TRUE)
          /\ history' = IF actor.tier = "retry" THEN Credit(1) ELSE history
          /\ UNCHANGED armed
    /\ \/ UNCHANGED told
       \/ /\ actor.outcome = "halt" /\ Env.source \notin Attended
          /\ told' = told \cup {actor.event}
    /\ UNCHANGED <<daemon, loops, mailbox, engine, stops>>

Reported == actor' = [actor EXCEPT !.pc = "report", !.original = General, !.switched = FALSE]

(* Mutant: leaves the turn's session loaded. *)
FinishWithoutRestore ==
    /\ actor.pc = "finish"
    /\ Save
    /\ Done("report")
    /\ UNCHANGED <<daemon, loops, mailbox, active, cursor, known, armed, told, bounds, history>>

(* finish_message: restore the session the turn was switched away from, or *)
(* save the one it ran in.                                                 *)
Finish ==
    /\ actor.pc = "finish"
    /\ IF actor.switched
       THEN SwitchSession(actor.original)
       ELSE Save /\ UNCHANGED <<active, cursor, known, faults>>
    /\ Reported
    /\ history' = [history EXCEPT !.strayed = @ \/ cursor' # active']
    /\ UNCHANGED <<daemon, loops, mailbox, armed, told, stops>>

(* A failure to restore or to save is logged and nothing more. *)
FinishFails ==
    /\ actor.pc = "finish"
    /\ IF actor.switched THEN CanFail(actor.original) ELSE Fault /\ unsaved # {}
    /\ Reported
    /\ history' = [history EXCEPT !.strayed = @ \/ actor.switched]
    /\ UNCHANGED <<daemon, loops, mailbox, engine, armed, told, stops>>

(* commands::switch_project: a session that exists, or an error. *)
Project ==
    /\ actor.pc = "prepare" /\ Env.kind = "project"
    /\ IF Sanitize[Env.hint] \in known \cup {active}
       THEN /\ SwitchSession(Env.hint)
            /\ Done("report")
            /\ history' = [history EXCEPT !.selected = active', !.strayed = cursor' # active']
       ELSE Fail /\ UNCHANGED <<engine, faults, history>>
    /\ UNCHANGED <<daemon, loops, mailbox, armed, told, stops>>

ProjectFails ==
    /\ actor.pc = "prepare" /\ Env.kind = "project" /\ Fault
    /\ Fail
    /\ UNCHANGED <<daemon, loops, mailbox, engine, armed, told, stops, history>>

(* A failed unattended turn is alerted and journaled, each once and best-  *)
(* effort, and there may be no notifier; a reply is sent by its channel,   *)
(* which may give up.                                                      *)
Unattended == Env.source \notin Attended
Owed == IF Unattended THEN actor.failed ELSE waiting[Env.source] = actor.event

Tell == told' = told \cup {actor.event} /\ UNCHANGED <<faults, history>>

\* No alert, and a journal that could not be written.
InVain ==
    /\ history' = [history EXCEPT !.unheard = @ \cup {actor.event}]
    /\ IF Unattended THEN Fault ELSE UNCHANGED faults
    /\ UNCHANGED told

Report ==
    /\ actor.pc = "report"
    /\ IF Owed THEN Tell \/ InVain ELSE UNCHANGED <<told, faults, history>>
    /\ Answer(actor.event)
    /\ actor' = Idle
    /\ UNCHANGED <<daemon, handled, mailbox, engine, armed, stops>>

-----------------------------------------------------------------------------
(* Shutdown, crash, restart *)

(* A turn that runs in another session than the operator's. *)
Away == actor.pc \in {"turn", "running", "record", "finish"} /\ actor.switched

NoLoops == waiting' = [c \in Channels |-> None] /\ answered' = {}

(* Mutant: asks the actor to drain while the loops still listen. *)
DrainBeforeStop ==
    /\ daemon = "up" /\ stops < MaxStops
    /\ daemon' = "draining"
    /\ stops' = stops + 1
    /\ UNCHANGED <<loops, mailbox, actor, engine, armed, told, faults, history>>

(* The signal: select! drops the loops' futures. *)
StopLoops ==
    /\ daemon = "up" /\ stops < MaxStops
    /\ daemon' = "stopping"
    /\ stops' = stops + 1
    /\ NoLoops
    /\ UNCHANGED <<handled, mailbox, actor, engine, armed, told, faults, history>>

(* begin_drain, and the last handle is dropped.  The actor runs on another *)
(* thread and may take an envelope before this.                            *)
BeginDrain ==
    /\ daemon = "stopping"
    /\ daemon' = "draining"
    /\ UNCHANGED <<loops, mailbox, actor, engine, armed, told, bounds, history>>

(* recv() returns None: the process ends. *)
Exit ==
    /\ daemon = "draining" /\ actor.pc = "recv" /\ mailbox = <<>>
    /\ daemon' = "down"
    /\ unsaved' = {}
    /\ UNCHANGED <<loops, mailbox, actor, active, cursor, disk, known, armed, told, bounds, history>>

Crash ==
    /\ daemon # "down" /\ stops < MaxStops
    /\ daemon' = "down"
    /\ stops' = stops + 1
    /\ NoLoops
    /\ mailbox' = <<>> /\ actor' = Idle /\ unsaved' = {}
    /\ history' = [history EXCEPT
          !.credit = IF actor.pc \in {"running", "record"} /\ actor.tier = "retry"
                     THEN Credit(1).credit ELSE @,
          !.strayed = @ \/ Away]
    /\ UNCHANGED <<handled, active, cursor, disk, known, armed, told, faults>>

Boot ==
    /\ daemon = "down"
    /\ daemon' = "up"
    /\ active' = cursor
    /\ UNCHANGED <<loops, mailbox, actor, unsaved, cursor, disk, known, armed, told, bounds, history>>

-----------------------------------------------------------------------------
Init ==
    /\ daemon = "up"
    /\ waiting = [c \in Channels |-> None] /\ answered = {} /\ handled = {}
    /\ mailbox = <<>> /\ actor = Idle
    /\ active = General /\ cursor = General /\ known = {General}
    /\ unsaved = {} /\ disk = [s \in Sessions |-> {}]
    /\ armed = {} /\ told = {}
    /\ faults = 0 /\ stops = 0
    /\ history = [credit |-> [t \in Tasks |-> 0],
                  selected |-> General, strayed |-> FALSE, unheard |-> {}]

ActorStep ==
    \/ Receive \/ Refuse
    \/ PrepareTurn \/ PrepareFails
    \/ StartTurn \/ (\E outcome \in Outcomes \ {"none"} : EndTurn(outcome))
    \/ Record
    \/ Finish \/ FinishFails
    \/ Project \/ ProjectFails
    \/ Report

Next ==
    \/ \E e \in Events : Dispatch(e)
    \/ \E c \in Channels : SaveState(c)
    \/ ActorStep
    \/ StopLoops \/ BeginDrain \/ Exit
    \/ Crash \/ Boot

(* The actor's task runs whenever it can, and its turns end.  The latter   *)
(* is TurnEnds of TurnLoop and has that property's exception: a turn whose *)
(* tool call hangs is not covered here unless someone cancels it.  The     *)
(* shutdown path only waits for the actor.                                 *)
Spec == Init /\ [][Next]_vars /\ WF_vars(ActorStep) /\ WF_vars(BeginDrain) /\ WF_vars(Exit)

-----------------------------------------------------------------------------
(* Properties *)

(* The events whose message some stored conversation holds. *)
Stored == UNION {disk[s] : s \in Sessions}

TypeOK ==
    /\ daemon \in {"up", "stopping", "draining", "down"}
    /\ waiting \in [Channels -> Events \cup {None}]
    /\ answered \subseteq Events /\ handled \subseteq Events /\ told \subseteq Events
    /\ mailbox \in Seq(Events)
    /\ actor \in [pc : Steps, event : Events \cup {None}, original : Sessions,
                  switched : BOOLEAN, tier : Tiers, outcome : Outcomes, failed : BOOLEAN]
    /\ actor.event = None <=> actor.pc = "recv"
    /\ active \in Sessions /\ cursor \in Sessions
    /\ unsaved \subseteq Events
    /\ disk \in [Sessions -> SUBSET Events]
    /\ known \subseteq Sessions
    /\ armed \subseteq Tasks
    /\ faults \in 0..MaxFaults /\ stops \in 0..MaxStops
    /\ history \in [credit : [Tasks -> Int],
                    selected : Sessions, strayed : BOOLEAN, unheard : SUBSET Events]

(* A repository's event is recorded in its repository's session and in no  *)
(* other, whatever switch, restore or save failed before or during it.     *)
RoutedHome ==
    \A s \in Sessions, e \in Events :
        e \in disk[s] /\ Envelope[e].hint # NoHint => s = Sanitize[Envelope[e].hint]

(* Between envelopes the loaded session is the operator's /project choice, *)
(* also after a restart -- unless a crash fell into a turn routed elsewhere *)
(* or a switch could not be stored.                                        *)
SelectionKept ==
    actor.pc = "recv" /\ daemon # "down" /\ ~history.strayed => active = history.selected

(* A task's turns run on the expensive retry tier no more often than they  *)
(* hit the iteration cap on the default tier, not counting a retry whose   *)
(* outcome was never stored (a crash, a failed write).                     *)
RetryIsEarned == \A t \in Tasks : history.credit[t] >= 0

(* No event is given up before it is in a stored conversation, or a human  *)
(* was told or the journal has its failure, or all that was tried for it:  *)
(* the loops go first and the drain second, so a refusal is never taken    *)
(* for an answer (run_with_shutdown).  Reports are made once: an event is  *)
(* in history.unheard when its turn was not stored, no alert arrived and   *)
(* the journal could not be written, or its reply did not get through.     *)
Delivered == INSTANCE Delivery
    WITH Work <- Events, Nothing <- None, closed <- handled,
         running <- actor.event,
         settled <- told \cup Stored \cup history.unheard
DeliveryKept == Delivered!Spec

(* A loop that awaits a reply gets one, or is gone; turns end (see Spec). *)
EveryAnswered == \A c \in Channels, e \in Events : waiting[c] = e ~> waiting[c] # e

(* A shutdown ends, however much is queued; turns end (see Spec). *)
DrainEnds == daemon = "stopping" ~> daemon = "down"

=============================================================================
