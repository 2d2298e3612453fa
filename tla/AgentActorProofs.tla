--------------------------- MODULE AgentActorProofs ---------------------------
(***************************************************************************)
(* For every set of channels, events and sessions, and any number of       *)
(* faults and stops: events land in their own session (RoutedHome), the    *)
(* operator's selection is kept (SelectionKept), the retry tier is earned  *)
(* (RetryIsEarned), and with the LCM engine the daemon implements Delivery *)
(* (DeliveryKept).  What a loop waits for is with the actor, and comes     *)
(* nearer with each of its steps (AnswerNears).  For Chat: what is said    *)
(* has somebody who waits for it (Accompanied), and who waits has a place  *)
(* (Heard).                                                                *)
(***************************************************************************)
EXTENDS AgentActor, Chat, SequenceTheorems, TLAPS

Hint(e) == Envelope[e].hint
HomeOf(e, s) == Hint(e) # NoHint => s = Sanitize[Hint(e)]

(* Nothing runs in a daemon that is down, and it has nothing in memory. *)
Quiet == daemon = "down" => actor.pc = "recv" /\ unsaved = {} /\ mailbox = <<>>

(* What is not saved yet, and the turn about to start, belong to the       *)
(* session that is loaded.                                                 *)
AtHome ==
    /\ \A e \in unsaved : HomeOf(e, active)
    /\ actor.pc = "turn" => HomeOf(actor.event, active)

Safe == TypeOK /\ Quiet /\ AtHome /\ RoutedHome

-----------------------------------------------------------------------------
(* Types *)

ActorRecord == [pc : Steps, event : Events \cup {None}, original : Sessions,
                switched : BOOLEAN, tier : Tiers, outcome : Outcomes, failed : BOOLEAN]

LEMMA IdleIs == Idle \in ActorRecord /\ Idle.pc = "recv" /\ Idle.event = None
                /\ Idle.switched = FALSE /\ Idle.tier = "none" /\ Idle.outcome = "none"
                /\ Idle.failed = FALSE
BY ActorAssumption DEF Idle, ActorRecord, Steps, Tiers, Outcomes

LEMMA EnvIs == ASSUME TypeOK, actor.pc # "recv"
               PROVE  actor.event \in Events /\ Env \in EnvelopeType /\ Env = Envelope[actor.event]
BY ActorAssumption DEF TypeOK, Env

LEMMA SwitchTypes ==
    ASSUME TypeOK, NEW name \in Names, SwitchSession(name)
    PROVE  /\ active' \in Sessions /\ cursor' \in Sessions /\ known' \subseteq Sessions
           /\ unsaved' \subseteq Events /\ disk' \in [Sessions -> SUBSET Events]
           /\ faults' \in 0 .. MaxFaults /\ active' = Sanitize[name]
<1>1. Sanitize[name] \in Sessions
  BY ActorAssumption
<1>2. CASE Sanitize[name] = active
  <2>1. UNCHANGED <<active, unsaved, cursor, disk, known, faults>>
    BY <1>2 DEF SwitchSession, engine
  <2>2. QED
    BY <1>2, <2>1 DEF TypeOK
<1>3. CASE Sanitize[name] # active
  <2>1. /\ active' = Sanitize[name] /\ known' = known \cup {active, Sanitize[name]}
        /\ unsaved' = {} /\ disk' = [disk EXCEPT ![active] = @ \cup unsaved]
    BY <1>3 DEF SwitchSession, Save
  <2>2. cursor' \in Sessions /\ faults' \in 0 .. MaxFaults
    BY <1>1, <1>3, ActorAssumption DEF SwitchSession, TypeOK, Fault
  <2>3. disk' \in [Sessions -> SUBSET Events]
    BY <2>1 DEF TypeOK
  <2>4. QED
    BY <1>1, <2>1, <2>2, <2>3 DEF TypeOK
<1>4. QED
  BY <1>2, <1>3

LEMMA AnswerTypes ==
    ASSUME TypeOK, NEW e \in Events, Answer(e)
    PROVE  waiting' \in [Channels -> Events \cup {None}] /\ answered' \subseteq Events
BY DEF TypeOK, Answer

LEMMA InitTypes == Init => TypeOK
<1> SUFFICES ASSUME Init PROVE TypeOK
  OBVIOUS
<1>1. actor \in ActorRecord /\ (actor.event = None <=> actor.pc = "recv")
  BY IdleIs DEF Init
<1>2. /\ history = [credit |-> [t \in Tasks |-> 0], selected |-> General, strayed |-> FALSE,
                    unheard |-> {}]
      /\ General \in Sessions
  BY ActorAssumption DEF Init
<1>3. history \in [credit : [Tasks -> Int], selected : Sessions, strayed : BOOLEAN,
                   unheard : SUBSET Events]
  BY <1>2
<1>4. /\ daemon \in {"up", "stopping", "draining", "down"}
      /\ waiting \in [Channels -> Events \cup {None}]
      /\ answered \subseteq Events /\ handled \subseteq Events /\ told \subseteq Events
      /\ mailbox \in Seq(Events) /\ active \in Sessions /\ cursor \in Sessions
      /\ unsaved \subseteq Events /\ disk \in [Sessions -> SUBSET Events]
      /\ known \subseteq Sessions /\ armed \subseteq Tasks
  BY ActorAssumption DEF Init
<1>5. faults \in 0 .. MaxFaults /\ stops \in 0 .. MaxStops
  BY ActorAssumption DEF Init
<1>6. QED
  BY <1>1, <1>3, <1>4, <1>5 DEF TypeOK, ActorRecord

(* Steps that are not the actor's. *)
OutsideStep ==
    \/ \E e \in Events : Dispatch(e)
    \/ \E c \in Channels : SaveState(c)
    \/ StopLoops \/ BeginDrain \/ Exit \/ Crash \/ Boot

HistoryRecord == [credit : [Tasks -> Int], selected : Sessions, strayed : BOOLEAN,
                  unheard : SUBSET Events]

LEMMA CreditTypes == ASSUME TypeOK, actor.pc # "recv", NEW n \in Int
                     PROVE  Credit(n) \in HistoryRecord
<1>1. history \in HistoryRecord /\ Env.task \in Tasks
  BY EnvIs DEF TypeOK, HistoryRecord, EnvelopeType
<1>2. [history.credit EXCEPT ![Env.task] = @ + n] \in [Tasks -> Int]
  BY <1>1 DEF HistoryRecord
<1>3. QED
  BY <1>1, <1>2 DEF Credit, HistoryRecord

LEMMA OutsideTypes == ASSUME TypeOK, OutsideStep PROVE TypeOK'
<1>1. ASSUME NEW e \in Events, Dispatch(e) PROVE TypeOK'
  <2>1. Envelope[e].source \in Channels
    BY ActorAssumption DEF EnvelopeType
  <2>2. waiting' \in [Channels -> Events \cup {None}] /\ mailbox' \in Seq(Events)
    BY <1>1, <2>1 DEF Dispatch, TypeOK
  <2>3. QED
    BY <1>1, <2>2 DEF Dispatch, TypeOK, engine, bounds
<1>2. ASSUME NEW c \in Channels, SaveState(c) PROVE TypeOK'
  BY <1>2 DEF SaveState, OfChannel, TypeOK, engine, bounds
<1>3. CASE StopLoops
  <2>1. waiting' \in [Channels -> Events \cup {None}] /\ answered' = {}
    BY <1>3 DEF StopLoops, NoLoops
  <2>2. stops' \in 0 .. MaxStops
    BY <1>3, ActorAssumption DEF StopLoops, TypeOK
  <2>3. QED
    BY <1>3, <2>1, <2>2 DEF StopLoops, TypeOK, engine
<1>4. CASE BeginDrain
  BY <1>4 DEF BeginDrain, TypeOK, engine, bounds, loops
<1>5. CASE Exit
  BY <1>5 DEF Exit, TypeOK, bounds, loops
<1>6. CASE Crash
  <2>1. waiting' \in [Channels -> Events \cup {None}] /\ answered' = {}
    BY <1>6 DEF Crash, NoLoops
  <2>2. stops' \in 0 .. MaxStops
    BY <1>6, ActorAssumption DEF Crash, TypeOK
  <2>3. history' \in HistoryRecord
    <3>1. ASSUME actor.pc # "recv" PROVE Credit(1).credit \in [Tasks -> Int]
      BY <3>1, CreditTypes DEF HistoryRecord
    <3>2. (IF actor.pc \in {"running", "record"} /\ actor.tier = "retry"
           THEN Credit(1).credit ELSE history.credit) \in [Tasks -> Int]
      BY <3>1 DEF TypeOK
    <3>3. (history.strayed \/ Away) \in BOOLEAN
      OBVIOUS
    <3>4. QED
      BY <1>6, <3>2, <3>3 DEF Crash, TypeOK, HistoryRecord
  <2>4. actor' \in ActorRecord /\ (actor'.event = None <=> actor'.pc = "recv")
    BY <1>6, IdleIs DEF Crash
  <2>5. mailbox' \in Seq(Events) /\ unsaved' = {}
    BY <1>6 DEF Crash
  <2>6. QED
    BY <1>6, <2>1, <2>2, <2>3, <2>4, <2>5 DEF Crash, TypeOK, HistoryRecord, ActorRecord
<1>7. CASE Boot
  BY <1>7 DEF Boot, TypeOK, bounds, loops
<1>8. QED
  BY <1>1, <1>2, <1>3, <1>4, <1>5, <1>6, <1>7 DEF OutsideStep

LEMMA FaultTypes == ASSUME TypeOK, Fault PROVE faults' \in 0 .. MaxFaults
BY ActorAssumption DEF TypeOK, Fault

LEMMA TargetIs == ASSUME TypeOK, actor.pc # "recv" PROVE Target \in Names
BY EnvIs, ActorAssumption DEF Target, TypeOK, EnvelopeType

(* A step of the actor leaves its record one. *)
ActorMoves == actor' \in ActorRecord /\ (actor'.event = None <=> actor'.pc = "recv")

LEMMA Moves == ASSUME TypeOK, actor.pc # "recv"
    PROVE  /\ \A pc \in Steps \ {"recv"} : Done(pc) => ActorMoves
           /\ Fail => ActorMoves
           /\ Reported => ActorMoves
           /\ \A failed \in BOOLEAN : actor' = Recorded(failed) => ActorMoves
           /\ actor' = Idle => ActorMoves
<1>1. actor \in ActorRecord /\ actor.event \in Events /\ None \notin Events /\ General \in Sessions
  BY EnvIs, ActorAssumption DEF TypeOK, ActorRecord
<1>2. ASSUME NEW pc \in Steps \ {"recv"}, Done(pc) PROVE ActorMoves
  BY <1>1, <1>2 DEF Done, ActorMoves, ActorRecord
<1>3. ASSUME Fail PROVE ActorMoves
  BY <1>1, <1>3 DEF Fail, ActorMoves, ActorRecord, Steps
<1>4. ASSUME Reported PROVE ActorMoves
  BY <1>1, <1>4 DEF Reported, ActorMoves, ActorRecord, Steps
<1>5. ASSUME NEW failed \in BOOLEAN, actor' = Recorded(failed) PROVE ActorMoves
  BY <1>1, <1>5 DEF Recorded, ActorMoves, ActorRecord, Steps, Tiers, Outcomes
<1>6. ASSUME actor' = Idle PROVE ActorMoves
  BY <1>6, IdleIs DEF ActorMoves
<1>7. QED
  BY <1>2, <1>3, <1>4, <1>5, <1>6

(* What the handling of an envelope may change, and how. *)
LEMMA Assembled ==
    ASSUME TypeOK, ActorMoves, UNCHANGED <<daemon, mailbox, handled, stops>>,
           waiting' \in [Channels -> Events \cup {None}], answered' \subseteq Events,
           active' \in Sessions, cursor' \in Sessions, known' \subseteq Sessions,
           unsaved' \subseteq Events, disk' \in [Sessions -> SUBSET Events],
           armed' \subseteq Tasks, told' \subseteq Events, faults' \in 0 .. MaxFaults,
           history' \in HistoryRecord
    PROVE  TypeOK'
BY DEF TypeOK, ActorMoves, ActorRecord, HistoryRecord

LEMMA ReceiveTypes == ASSUME TypeOK, Receive PROVE TypeOK'
<1>1. Head(mailbox) \in Events /\ Tail(mailbox) \in Seq(Events)
  BY DEF Receive, TypeOK
<1>2. actor' \in ActorRecord /\ actor'.pc = "prepare" /\ actor'.event \in Events
  BY <1>1, IdleIs DEF Receive, ActorRecord, Steps
<1>3. actor'.event = None <=> actor'.pc = "recv"
  BY <1>2, ActorAssumption
<1>4. QED
  BY <1>1, <1>2, <1>3 DEF Receive, TypeOK, ActorRecord, loops, engine, bounds

LEMMA RefuseTypes == ASSUME TypeOK, Refuse PROVE TypeOK'
<1>1. Head(mailbox) \in Events /\ Tail(mailbox) \in Seq(Events)
  BY DEF Refuse, TypeOK
<1>2. waiting' \in [Channels -> Events \cup {None}] /\ answered' \subseteq Events
  BY <1>1, AnswerTypes DEF Refuse
<1>3. QED
  BY <1>1, <1>2 DEF Refuse, TypeOK, engine, bounds

LEMMA PrepareTypes == ASSUME TypeOK, PrepareTurn PROVE TypeOK'
<1>1. actor.pc # "recv" /\ SwitchSession(Target)
  BY DEF PrepareTurn
<1>2. TierFor(actor.event) \in Tiers /\ (Target # active) \in BOOLEAN
  BY DEF TierFor, Tiers
<1>3. actor \in ActorRecord /\ actor.event \in Events /\ None \notin Events /\ active \in Sessions
  BY <1>1, EnvIs, ActorAssumption DEF TypeOK, ActorRecord
<1>4. ActorMoves
  BY <1>2, <1>3 DEF PrepareTurn, ActorMoves, ActorRecord, Steps
<1>5. QED
  BY <1>1, <1>4, TargetIs, SwitchTypes, Assembled
     DEF PrepareTurn, TypeOK, HistoryRecord, loops

LEMMA PrepareFailsTypes == ASSUME TypeOK, PrepareFails \/ ProjectFails PROVE TypeOK'
<1>1. actor.pc # "recv" /\ Fail /\ Fault
  BY DEF PrepareFails, ProjectFails, CanFail
<1>2. ActorMoves /\ faults' \in 0 .. MaxFaults
  BY <1>1, Moves, FaultTypes
<1>3. QED
  BY <1>2, Assembled DEF PrepareFails, ProjectFails, TypeOK, HistoryRecord, loops, engine

LEMMA StartTurnTypes == ASSUME TypeOK, StartTurn PROVE TypeOK'
<1>1. actor.pc # "recv" /\ Done("running") /\ "running" \in Steps \ {"recv"}
  BY DEF StartTurn, Steps
<1>2. ActorMoves
  BY <1>1, Moves
<1>3. history' \in HistoryRecord
  BY <1>1, CreditTypes DEF StartTurn, TypeOK, HistoryRecord
<1>4. disk' \in [Sessions -> SUBSET Events] /\ unsaved' \subseteq Events
  <2>1. /\ disk \in [Sessions -> SUBSET Events] /\ unsaved \subseteq Events
        /\ actor.event \in Events
    BY <1>1, EnvIs DEF TypeOK
  <2>2. QED
    BY <2>1 DEF StartTurn
<1>5. QED
  BY <1>2, <1>3, <1>4, Assembled DEF StartTurn, TypeOK, loops, bounds

LEMMA EndTurnTypes == ASSUME TypeOK, NEW outcome \in Outcomes \ {"none"}, EndTurn(outcome)
                      PROVE  TypeOK'
<1>1. actor.pc # "recv" /\ faults' \in 0 .. MaxFaults
  BY FaultTypes DEF EndTurn, TypeOK
<1>2. actor \in ActorRecord /\ actor.event \in Events /\ None \notin Events
      /\ (outcome \in {"capped", "failed"}) \in BOOLEAN
  BY <1>1, EnvIs, ActorAssumption DEF TypeOK, ActorRecord
<1>3. ActorMoves
  BY <1>2 DEF EndTurn, ActorMoves, ActorRecord, Steps
<1>4. history' \in HistoryRecord
  BY <1>1, CreditTypes DEF EndTurn, TypeOK, HistoryRecord
<1>5. QED
  BY <1>1, <1>3, <1>4, Assembled DEF EndTurn, TypeOK, loops, engine

LEMMA RecordTypes == ASSUME TypeOK, Record PROVE TypeOK'
<1>1. actor.pc # "recv" /\ actor.event \in Events /\ Env.task \in Tasks
  BY EnvIs DEF Record, EnvelopeType
<1>2. ActorMoves
  BY <1>1, Moves DEF Record, TypeOK
<1>3. armed' \subseteq Tasks /\ told' \subseteq Events /\ faults' \in 0 .. MaxFaults
  BY <1>1, FaultTypes DEF Record, ArmedAfter, TypeOK
<1>4. history' \in HistoryRecord
  <2>1. history' = history \/ history' = Credit(1)
    BY DEF Record
  <2>2. history \in HistoryRecord /\ Credit(1) \in HistoryRecord
    BY <1>1, CreditTypes DEF TypeOK, HistoryRecord
  <2>3. QED
    BY <2>1, <2>2
<1>5. QED
  BY <1>2, <1>3, <1>4, Assembled DEF Record, TypeOK, loops, engine

LEMMA FinishTypes == ASSUME TypeOK, Finish PROVE TypeOK'
<1>1. actor.pc # "recv" /\ Reported /\ actor.original \in Names
  BY ActorAssumption DEF Finish, TypeOK
<1>2. ActorMoves
  BY <1>1, Moves
<1>3. /\ active' \in Sessions /\ cursor' \in Sessions /\ known' \subseteq Sessions
      /\ unsaved' \subseteq Events /\ disk' \in [Sessions -> SUBSET Events]
      /\ faults' \in 0 .. MaxFaults
  <2>1. CASE actor.switched
    BY <1>1, <2>1, SwitchTypes DEF Finish
  <2>2. CASE ~actor.switched
    <3>1. /\ unsaved' = {} /\ disk' = [disk EXCEPT ![active] = @ \cup unsaved]
          /\ UNCHANGED <<active, cursor, known, faults>>
      BY <2>2 DEF Finish, Save
    <3>2. disk' \in [Sessions -> SUBSET Events]
      BY <3>1 DEF TypeOK
    <3>3. QED
      BY <3>1, <3>2 DEF TypeOK
  <2>3. QED
    BY <2>1, <2>2
<1>4. history' \in HistoryRecord
  BY DEF Finish, TypeOK, HistoryRecord
<1>5. QED
  BY <1>2, <1>3, <1>4, Assembled DEF Finish, TypeOK, loops

LEMMA FinishFailsTypes == ASSUME TypeOK, FinishFails PROVE TypeOK'
<1>1. actor.pc # "recv" /\ Reported /\ faults' \in 0 .. MaxFaults
  BY FaultTypes DEF FinishFails, CanFail
<1>2. ActorMoves
  BY <1>1, Moves
<1>3. history' \in HistoryRecord
  BY DEF FinishFails, TypeOK, HistoryRecord
<1>4. QED
  BY <1>1, <1>2, <1>3, Assembled DEF FinishFails, TypeOK, loops, engine

LEMMA ProjectTypes == ASSUME TypeOK, Project PROVE TypeOK'
<1>1. actor.pc # "recv" /\ "report" \in Steps \ {"recv"}
  BY DEF Project, Steps
<1>2. ActorMoves
  BY <1>1, Moves DEF Project
<1>3. CASE Sanitize[Env.hint] \in known \cup {active}
  <2>1. SwitchSession(Env.hint) /\ Env.hint \in Names
    BY <1>1, <1>3, EnvIs, ActorAssumption DEF Project, EnvelopeType
  <2>2. QED
    BY <1>2, <1>3, <2>1, SwitchTypes, Assembled DEF Project, TypeOK, HistoryRecord, loops
<1>4. CASE Sanitize[Env.hint] \notin known \cup {active}
  BY <1>2, <1>4, Assembled DEF Project, TypeOK, HistoryRecord, loops, engine
<1>5. QED
  BY <1>3, <1>4

LEMMA ReportTypes == ASSUME TypeOK, Report PROVE TypeOK'
<1>1. actor.pc # "recv" /\ actor.event \in Events /\ Answer(actor.event)
  BY EnvIs DEF Report
<1>2. ActorMoves
  BY <1>1, Moves DEF Report
<1>3. waiting' \in [Channels -> Events \cup {None}] /\ answered' \subseteq Events
  BY <1>1, AnswerTypes
<1>4. /\ told' \subseteq Events /\ faults' \in 0 .. MaxFaults /\ history' \in HistoryRecord
  <2>0. told \subseteq Events /\ faults \in 0 .. MaxFaults /\ history \in HistoryRecord
    BY DEF TypeOK, HistoryRecord
  <2>1. CASE Tell
    BY <1>1, <2>0, <2>1 DEF Tell
  <2>2. CASE InVain
    <3>1. faults' \in 0 .. MaxFaults
      BY <2>0, <2>2, FaultTypes DEF InVain
    <3>2. history' \in HistoryRecord
      BY <1>1, <2>0, <2>2 DEF InVain, HistoryRecord
    <3>3. QED
      BY <2>0, <2>2, <3>1, <3>2 DEF InVain
  <2>3. CASE UNCHANGED <<told, faults, history>>
    BY <2>0, <2>3
  <2>4. QED
    BY <2>1, <2>2, <2>3 DEF Report
<1>5. QED
  BY <1>2, <1>3, <1>4, Assembled DEF Report, TypeOK, engine

(* A report changes what was heard and nothing else of the history. *)
LEMMA ReportedHistory ==
    ASSUME TypeOK, Report
    PROVE  /\ history'.credit = history.credit /\ history'.selected = history.selected
           /\ history'.strayed = history.strayed /\ history.unheard \subseteq history'.unheard
<1>1. history' = history \/ history' = [history EXCEPT !.unheard = @ \cup {actor.event}]
  BY DEF Report, Tell, InVain
<1>2. history \in HistoryRecord
  BY DEF TypeOK, HistoryRecord
<1>3. QED
  BY <1>1, <1>2 DEF HistoryRecord

(* The other steps are no reports. *)
LEMMA NothingUnheard ==
    ASSUME TypeOK, Next, ~Report PROVE history'.unheard = history.unheard
<1>0. history \in HistoryRecord /\ \A n : Credit(n).unheard = history.unheard
  BY DEF TypeOK, HistoryRecord, Credit
<1>1. CASE OutsideStep
  BY <1>0, <1>1 DEF OutsideStep, Dispatch, SaveState, StopLoops, BeginDrain, Exit, Crash, Boot,
                    HistoryRecord
<1>2. CASE Receive \/ Refuse \/ PrepareTurn \/ PrepareFails \/ ProjectFails
  BY <1>2 DEF Receive, Refuse, PrepareTurn, PrepareFails, ProjectFails
<1>3. CASE StartTurn \/ (\E outcome \in Outcomes \ {"none"} : EndTurn(outcome)) \/ Record
  BY <1>0, <1>3 DEF StartTurn, EndTurn, Record
<1>4. CASE Finish \/ FinishFails \/ Project
  BY <1>0, <1>4 DEF Finish, FinishFails, Project, HistoryRecord
<1>5. QED
  BY <1>1, <1>2, <1>3, <1>4 DEF Next, ActorStep, OutsideStep

LEMMA NextTypes == TypeOK /\ [Next]_vars => TypeOK'
<1> SUFFICES ASSUME TypeOK, [Next]_vars PROVE TypeOK'
  OBVIOUS
<1>1. CASE OutsideStep
  BY <1>1, OutsideTypes
<1>2. CASE ActorStep
  BY <1>2, ReceiveTypes, RefuseTypes, PrepareTypes, PrepareFailsTypes, StartTurnTypes,
     EndTurnTypes, RecordTypes, FinishTypes, FinishFailsTypes, ProjectTypes, ReportTypes
     DEF ActorStep
<1>3. CASE UNCHANGED vars
  BY <1>3 DEF TypeOK, vars
<1>4. QED
  BY <1>1, <1>2, <1>3 DEF Next, OutsideStep
-----------------------------------------------------------------------------
(* RoutedHome *)

LEMMA QuietKept == TypeOK /\ Quiet /\ [Next]_vars => Quiet'
<1> SUFFICES ASSUME TypeOK, Quiet, [Next]_vars PROVE Quiet'
  OBVIOUS
<1>1. ASSUME daemon' = daemon, daemon = "down" PROVE Quiet'
  <2>1. actor.pc = "recv" /\ mailbox = <<>> /\ daemon \notin {"up", "stopping", "draining"}
    BY <1>1 DEF Quiet
  <2>2. UNCHANGED vars \/ \E c \in Channels : SaveState(c)
    BY <1>1, <2>1 DEF Next, ActorStep, Dispatch, StopLoops, BeginDrain, Exit, Crash, Boot,
       Receive, Refuse, PrepareTurn, PrepareFails, StartTurn, EndTurn, Record, Finish,
       FinishFails, Project, ProjectFails, Report
  <2>3. UNCHANGED <<daemon, actor, mailbox, unsaved>>
    BY <2>2 DEF vars, SaveState, engine
  <2>4. QED
    BY <2>3 DEF Quiet
<1>2. CASE daemon' # daemon
  <2>1. StopLoops \/ BeginDrain \/ Exit \/ Crash \/ Boot
    BY <1>2 DEF Next, ActorStep, Dispatch, SaveState, Receive, Refuse, PrepareTurn,
       PrepareFails, StartTurn, EndTurn, Record, Finish, FinishFails, Project, ProjectFails,
       Report, vars
  <2>2. QED
    BY <2>1, IdleIs DEF StopLoops, BeginDrain, Exit, Crash, Boot, Quiet
<1>3. QED
  BY <1>1, <1>2 DEF Quiet

LEMMA SaveHome == ASSUME TypeOK, AtHome, RoutedHome, Save PROVE RoutedHome'
<1>1. disk' = [disk EXCEPT ![active] = @ \cup unsaved] /\ disk \in [Sessions -> SUBSET Events]
  BY DEF Save, TypeOK
<1>2. ASSUME NEW s \in Sessions, NEW e \in Events, e \in disk'[s], Hint(e) # NoHint
      PROVE  s = Sanitize[Hint(e)]
  BY <1>1, <1>2 DEF AtHome, HomeOf, RoutedHome, Hint
<1>3. QED
  BY <1>2 DEF RoutedHome, Hint

LEMMA SwitchHome ==
    ASSUME TypeOK, AtHome, RoutedHome, NEW name \in Names, SwitchSession(name)
    PROVE  /\ RoutedHome' /\ active' = Sanitize[name]
           /\ \A e \in unsaved' : HomeOf(e, active')
<1>1. CASE Sanitize[name] = active
  BY <1>1 DEF SwitchSession, engine, RoutedHome, AtHome
<1>2. CASE Sanitize[name] # active
  BY <1>2, SaveHome DEF SwitchSession, Save
<1>3. QED
  BY <1>1, <1>2

LEMMA Untouched == ASSUME AtHome, RoutedHome, UNCHANGED engine, actor'.pc # "turn" \/ UNCHANGED actor
                   PROVE  AtHome' /\ RoutedHome'
BY DEF AtHome, HomeOf, Hint, RoutedHome, engine

LEMMA NextHome == TypeOK /\ Quiet /\ AtHome /\ RoutedHome /\ [Next]_vars => AtHome' /\ RoutedHome'
<1> SUFFICES ASSUME TypeOK, Quiet, AtHome, RoutedHome, [Next]_vars PROVE AtHome' /\ RoutedHome'
  OBVIOUS
<1>1. CASE (\E e \in Events : Dispatch(e)) \/ (\E c \in Channels : SaveState(c))
           \/ StopLoops \/ BeginDrain \/ UNCHANGED vars
  <2>1. UNCHANGED <<actor, engine>>
    BY <1>1 DEF Dispatch, SaveState, StopLoops, BeginDrain, vars, engine
  <2>2. QED
    BY <2>1, Untouched
<1>2. CASE Exit \/ Crash
  <2>1. unsaved' = {} /\ UNCHANGED disk /\ actor'.pc # "turn"
    BY <1>2, IdleIs DEF Exit, Crash
  <2>2. QED
    BY <2>1 DEF AtHome, RoutedHome
<1>3. CASE Boot
  BY <1>3 DEF Boot, Quiet, AtHome, RoutedHome
<1>4. CASE Receive \/ Refuse
  <2>1. UNCHANGED engine /\ (actor'.pc # "turn" \/ UNCHANGED actor)
    BY <1>4, IdleIs DEF Receive, Refuse, Idle
  <2>2. QED
    BY <2>1, Untouched
<1>5. CASE PrepareTurn
  <2>1. actor.pc # "recv" /\ SwitchSession(Target) /\ Target \in Names
    BY <1>5, TargetIs DEF PrepareTurn
  <2>2. RoutedHome' /\ active' = Sanitize[Target] /\ \A e \in unsaved' : HomeOf(e, active')
    BY <2>1, SwitchHome
  <2>3. actor'.event = actor.event
    BY <1>5 DEF PrepareTurn, TypeOK
  <2>4. HomeOf(actor'.event, active')
    BY <2>2, <2>3 DEF HomeOf, Hint, Target, Env
  <2>5. QED
    BY <2>2, <2>4 DEF AtHome
<1>6. CASE PrepareFails \/ ProjectFails \/ Record \/ FinishFails \/ Report
           \/ \E outcome \in Outcomes \ {"none"} : EndTurn(outcome)
  <2>1. UNCHANGED engine
    BY <1>6 DEF PrepareFails, ProjectFails, Record, FinishFails, Report, EndTurn
  <2>2. actor'.pc # "turn"
    BY <1>6, IdleIs DEF PrepareFails, ProjectFails, Fail, Record, Recorded, FinishFails,
       Reported, Report, EndTurn, TypeOK
  <2>3. QED
    BY <2>1, <2>2, Untouched
<1>7. CASE StartTurn
  <2>1. /\ actor.event \in Events /\ HomeOf(actor.event, active) /\ active \in Sessions
        /\ disk \in [Sessions -> SUBSET Events]
    BY <1>7, EnvIs DEF StartTurn, AtHome, TypeOK
  <2>2. actor'.pc = "running" /\ UNCHANGED active
    BY <1>7 DEF StartTurn, Done, TypeOK
  <2>3. CASE Engine = "lcm"
    <3>1. disk' = [disk EXCEPT ![active] = @ \cup {actor.event}] /\ UNCHANGED unsaved
      BY <1>7, <2>3 DEF StartTurn
    <3>2. ASSUME NEW s \in Sessions, NEW e \in Events, e \in disk'[s], Hint(e) # NoHint
          PROVE  s = Sanitize[Hint(e)]
      BY <2>1, <3>1, <3>2 DEF HomeOf, Hint, RoutedHome
    <3>3. QED
      BY <2>2, <3>1, <3>2 DEF AtHome, HomeOf, Hint, RoutedHome
  <2>4. CASE Engine # "lcm"
    <3>1. unsaved' = unsaved \cup {actor.event} /\ UNCHANGED disk
      BY <1>7, <2>4 DEF StartTurn
    <3>2. QED
      BY <2>1, <2>2, <3>1 DEF AtHome, HomeOf, Hint, RoutedHome
  <2>5. QED
    BY <2>3, <2>4
<1>8. CASE Finish
  <2>1. actor'.pc # "turn" /\ actor.original \in Names
    BY <1>8, ActorAssumption DEF Finish, Reported, TypeOK
  <2>2. CASE actor.switched
    BY <1>8, <2>1, <2>2, SwitchHome DEF Finish, AtHome
  <2>3. CASE ~actor.switched
    <3>1. Save
      BY <1>8, <2>3 DEF Finish
    <3>2. QED
      BY <2>1, <3>1, SaveHome DEF Save, AtHome
  <2>4. QED
    BY <2>2, <2>3
<1>9. CASE Project
  <2>1. actor'.pc # "turn" /\ Env.hint \in Names
    <3>1. actor.pc # "recv" /\ Env.kind = "project"
      BY <1>9 DEF Project
    <3>2. Env.hint \in Names
      BY <3>1, EnvIs, ActorAssumption DEF EnvelopeType
    <3>3. QED
      BY <1>9, <3>2 DEF Project, Done, Fail, TypeOK
  <2>2. CASE UNCHANGED engine
    BY <2>1, <2>2, Untouched
  <2>3. CASE SwitchSession(Env.hint)
    BY <2>1, <2>3, SwitchHome DEF AtHome
  <2>4. QED
    BY <1>9, <2>2, <2>3 DEF Project
<1>10. QED
  BY <1>1, <1>2, <1>3, <1>4, <1>5, <1>6, <1>7, <1>8, <1>9 DEF Next, ActorStep

(* A repository's event is recorded in the session of its repository only: *)
(* not after a failed switch, not when a turn's restore failed, not when   *)
(* the flat engine saves a conversation late.                              *)
THEOREM RoutedHomeAlways == Spec => []RoutedHome
<1>1. Init => Safe
  BY InitTypes DEF Init, Safe, Quiet, AtHome, RoutedHome, Idle
<1>2. Safe /\ [Next]_vars => Safe'
  BY NextTypes, QuietKept, NextHome DEF Safe
<1>3. QED
  BY <1>1, <1>2, PTL DEF Spec, Safe
-----------------------------------------------------------------------------
(* SelectionKept *)

(* Unless something that the property exempts happened, the selection is   *)
(* loaded and stored, or the turn under way remembers it.                  *)
Selected ==
    ~history.strayed =>
        /\ daemon = "down" => cursor = history.selected
        /\ daemon # "down" /\ ~Away => active = history.selected /\ cursor = active
        /\ Away => actor.original = history.selected

LEMMA SelectedUntouched ==
    ASSUME Selected, UNCHANGED <<active, cursor>>, Away' <=> Away,
           Away => actor'.original = actor.original,
           (daemon' = "down" <=> daemon = "down") \/ (daemon # "down" /\ ~Away),
           history'.selected = history.selected, history'.strayed <=> history.strayed
    PROVE  Selected'
BY DEF Selected

LEMMA NextSelected == TypeOK /\ Quiet /\ Selected /\ [Next]_vars => Selected'
<1> SUFFICES ASSUME TypeOK, Quiet, Selected, [Next]_vars PROVE Selected'
  OBVIOUS
<1>0. /\ history \in [credit : [Tasks -> Int], selected : Sessions, strayed : BOOLEAN,
                      unheard : SUBSET Events]
      /\ active \in Sessions /\ cursor \in Sessions
      /\ \A s \in Sessions : s \in Names /\ Sanitize[s] = s
  BY ActorAssumption DEF TypeOK
<1>1. CASE (\E e \in Events : Dispatch(e)) \/ (\E c \in Channels : SaveState(c))
           \/ StopLoops \/ BeginDrain \/ Refuse \/ UNCHANGED vars
  <2>1. UNCHANGED <<actor, active, cursor, history>> /\ (daemon' = "down" <=> daemon = "down")
    BY <1>1 DEF Dispatch, SaveState, StopLoops, BeginDrain, Refuse, vars, engine
  <2>2. QED
    BY <2>1, SelectedUntouched DEF Away
<1>2. CASE Exit
  BY <1>2, SelectedUntouched DEF Exit, Away
<1>3. CASE Boot
  BY <1>3 DEF Boot, Quiet, Selected, Away
<1>4. CASE Crash
  <2>1. /\ history'.selected = history.selected /\ (history'.strayed <=> history.strayed \/ Away)
        /\ daemon' = "down" /\ cursor' = cursor /\ actor' = Idle /\ daemon # "down"
    BY <1>0, <1>4 DEF Crash
  <2>2. ~Away'
    BY <2>1, IdleIs DEF Away
  <2>3. QED
    BY <2>1, <2>2 DEF Selected
<1>5. CASE Receive
  <2>1. ~Away /\ ~Away' /\ UNCHANGED <<daemon, active, cursor, history>>
    BY <1>5, IdleIs DEF Receive, Away, engine, Idle
  <2>2. QED
    BY <2>1, SelectedUntouched
<1>6. CASE PrepareTurn
  <2>1. ~Away /\ daemon' = daemon /\ history' = history /\ daemon # "down"
    BY <1>6 DEF PrepareTurn, Away, Quiet
  <2>2. /\ actor'.original = active /\ actor'.pc = "turn"
        /\ (actor'.switched <=> Target # active)
    BY <1>6 DEF PrepareTurn, TypeOK
  <2>3. CASE Target # active
    BY <2>1, <2>2, <2>3 DEF Selected, Away
  <2>4. CASE Target = active
    <3>1. UNCHANGED <<active, cursor>>
      BY <1>0, <1>6, <2>4 DEF PrepareTurn, SwitchSession, engine
    <3>2. QED
      BY <2>1, <2>2, <2>4, <3>1 DEF Selected, Away
  <2>5. QED
    BY <2>3, <2>4
<1>7. CASE PrepareFails \/ ProjectFails
  <2>1. ~Away /\ ~Away' /\ UNCHANGED <<daemon, active, cursor, history>>
    BY <1>7 DEF PrepareFails, ProjectFails, Fail, Away, engine, TypeOK
  <2>2. QED
    BY <2>1, SelectedUntouched
<1>8. CASE StartTurn
  <2>1. /\ UNCHANGED <<daemon, active, cursor>> /\ history'.selected = history.selected
        /\ (history'.strayed <=> history.strayed)
    BY <1>0, <1>8 DEF StartTurn, Credit
  <2>2. actor'.original = actor.original /\ (Away' <=> Away)
    BY <1>8 DEF StartTurn, Done, Away, TypeOK
  <2>3. QED
    BY <2>1, <2>2, SelectedUntouched
<1>9. ASSUME NEW outcome \in Outcomes \ {"none"}, EndTurn(outcome) PROVE Selected'
  <2>1. /\ UNCHANGED <<daemon, active, cursor>> /\ history'.selected = history.selected
        /\ (history'.strayed <=> history.strayed)
    BY <1>0, <1>9 DEF EndTurn, Credit, engine
  <2>2. actor'.original = actor.original /\ (Away' <=> Away)
    BY <1>9 DEF EndTurn, Away, TypeOK
  <2>3. QED
    BY <2>1, <2>2, SelectedUntouched
<1>10. CASE Record
  <2>1. /\ UNCHANGED <<daemon, active, cursor>> /\ history'.selected = history.selected
        /\ (history'.strayed <=> history.strayed)
    BY <1>0, <1>10 DEF Record, Credit, engine
  <2>2. actor'.original = actor.original /\ (Away' <=> Away)
    BY <1>10 DEF Record, Recorded, Away, TypeOK
  <2>3. QED
    BY <2>1, <2>2, SelectedUntouched
<1>11. CASE Finish
  <2>1. /\ ~Away' /\ daemon' = daemon /\ daemon # "down"
        /\ history'.selected = history.selected
        /\ (history'.strayed <=> history.strayed \/ cursor' # active')
    BY <1>0, <1>11 DEF Finish, Reported, Away, Quiet, TypeOK
  <2>2. CASE actor.switched
    <3>1. Away /\ actor.original \in Sessions /\ SwitchSession(actor.original)
      BY <1>11, <2>2 DEF Finish, Away, TypeOK
    <3>2. active' = actor.original
      BY <1>0, <3>1, SwitchTypes
    <3>3. QED
      BY <2>1, <3>1, <3>2 DEF Selected
  <2>3. CASE ~actor.switched
    <3>1. ~Away /\ UNCHANGED <<active, cursor>>
      BY <1>11, <2>3 DEF Finish, Away
    <3>2. QED
      BY <2>1, <3>1 DEF Selected
  <2>4. QED
    BY <2>2, <2>3
<1>12. CASE FinishFails
  <2>1. /\ ~Away' /\ UNCHANGED <<daemon, active, cursor>> /\ daemon # "down"
        /\ history'.selected = history.selected
        /\ (history'.strayed <=> history.strayed \/ actor.switched)
    BY <1>0, <1>12 DEF FinishFails, Reported, Away, Quiet, TypeOK, engine
  <2>2. QED
    BY <2>1 DEF Selected, Away
<1>13. CASE Project
  <2>1. ~Away /\ ~Away' /\ daemon' = daemon /\ daemon # "down"
    <3>1. actor.pc = "prepare" /\ daemon' = daemon
      BY <1>13 DEF Project
    <3>2. actor'.pc = "report"
      BY <1>13 DEF Project, Done, Fail, TypeOK
    <3>3. QED
      BY <3>1, <3>2 DEF Away, Quiet
  <2>2. CASE Sanitize[Env.hint] \in known \cup {active}
    <3>1. history'.selected = active' /\ (history'.strayed <=> cursor' # active')
      BY <1>0, <1>13, <2>2 DEF Project
    <3>2. QED
      BY <2>1, <3>1 DEF Selected
  <2>3. CASE Sanitize[Env.hint] \notin known \cup {active}
    <3>1. UNCHANGED <<active, cursor, history>>
      BY <1>13, <2>3 DEF Project, engine
    <3>2. QED
      BY <2>1, <3>1, SelectedUntouched
  <2>4. QED
    BY <2>2, <2>3
<1>14. CASE Report
  <2>1. ~Away /\ ~Away' /\ UNCHANGED <<daemon, active, cursor>>
    BY <1>14, IdleIs DEF Report, Away, engine
  <2>2. history'.selected = history.selected /\ (history'.strayed <=> history.strayed)
    BY <1>0, <1>14, ReportedHistory
  <2>3. QED
    BY <2>1, <2>2, SelectedUntouched
<1>15. QED
  BY <1>1, <1>2, <1>3, <1>4, <1>5, <1>6, <1>7, <1>8, <1>9, <1>10, <1>11, <1>12, <1>13, <1>14
     DEF Next, ActorStep

(* Between envelopes, and after a restart, the loaded session is the one   *)
(* the operator chose with /project, whatever other sessions turns ran in. *)
THEOREM SelectionKeptAlways == Spec => []SelectionKept
<1> DEFINE Inv == TypeOK /\ Quiet /\ Selected
<1>1. Init => Inv
  BY InitTypes, IdleIs DEF Init, Quiet, Selected, Away
<1>2. Inv /\ [Next]_vars => Inv'
  BY NextTypes, QuietKept, NextSelected
<1>3. Inv => SelectionKept
  BY DEF Selected, SelectionKept, Away
<1>4. QED
  BY <1>1, <1>2, <1>3, PTL DEF Spec
-----------------------------------------------------------------------------
(* RetryIsEarned *)

(* A retry turn spends the credit of its task until its outcome is stored; *)
(* a capped default turn has earned one that is not stored yet.            *)
Spent(t) == actor.pc \in {"running", "record"} /\ actor.tier = "retry" /\ Env.task = t
Earned(t) == actor.pc = "record" /\ actor.tier = "default" /\ actor.outcome = "capped"
             /\ Env.task = t

Credits ==
    /\ \A t \in Tasks : /\ history.credit[t] >= 0
                        /\ t \in armed /\ ~Spent(t) => history.credit[t] >= 1
                        /\ Earned(t) => history.credit[t] >= 1
    /\ actor.pc \in {"turn", "running", "record"} /\ actor.tier = "retry" => Env.task \in armed

LEMMA CreditsUntouched ==
    ASSUME Credits, UNCHANGED armed, history'.credit = history.credit,
           \A t \in Tasks : (Spent(t) => Spent(t)') /\ (Earned(t)' => Earned(t)),
           actor'.pc \in {"turn", "running", "record"} /\ actor'.tier = "retry" => Env'.task \in armed
    PROVE  Credits'
BY DEF Credits

LEMMA CreditIs ==
    ASSUME TypeOK, actor.pc # "recv", NEW n \in Int, NEW t \in Tasks
    PROVE  /\ Credit(n).credit[t] = IF t = Env.task THEN history.credit[t] + n
                                                     ELSE history.credit[t]
           /\ history.credit[t] \in Int
BY EnvIs DEF Credit, TypeOK, EnvelopeType

LEMMA NextCredits == TypeOK /\ Quiet /\ Credits /\ [Next]_vars => Credits'
<1> SUFFICES ASSUME TypeOK, Quiet, Credits, [Next]_vars PROVE Credits'
  OBVIOUS
<1>0. history \in HistoryRecord /\ actor \in ActorRecord
  BY DEF TypeOK, HistoryRecord, ActorRecord
<1>1. CASE (\E e \in Events : Dispatch(e)) \/ (\E c \in Channels : SaveState(c))
           \/ StopLoops \/ BeginDrain \/ Exit \/ Boot \/ Refuse \/ UNCHANGED vars
  <2>1. UNCHANGED <<actor, armed, history>>
    BY <1>1 DEF Dispatch, SaveState, StopLoops, BeginDrain, Exit, Boot, Refuse, vars
  <2>2. QED
    BY <2>1 DEF Credits, Spent, Earned, Env
<1>2. CASE Receive \/ Report
  <2>1. UNCHANGED armed /\ actor.pc \notin {"turn", "running", "record"}
        /\ actor'.pc \notin {"turn", "running", "record"}
    BY <1>2, IdleIs DEF Receive, Report, Idle
  <2>2. history'.credit = history.credit
    BY <1>2, ReportedHistory DEF Receive
  <2>3. QED
    BY <2>1, <2>2, CreditsUntouched DEF Spent, Earned
<1>3. CASE PrepareFails \/ ProjectFails \/ Project
  <2>1. UNCHANGED armed /\ history'.credit = history.credit /\ actor.pc = "prepare"
    BY <1>0, <1>3 DEF PrepareFails, ProjectFails, Project, HistoryRecord
  <2>2. actor'.pc = "report"
    BY <1>0, <1>3 DEF PrepareFails, ProjectFails, Project, Done, Fail, ActorRecord
  <2>3. QED
    BY <2>1, <2>2, CreditsUntouched DEF Spent, Earned
<1>4. CASE PrepareTurn
  <2>1. UNCHANGED <<armed, history>> /\ actor.pc = "prepare"
        /\ actor'.pc = "turn" /\ actor'.event = actor.event
        /\ actor'.tier = TierFor(actor.event)
    BY <1>0, <1>4 DEF PrepareTurn, ActorRecord
  <2>2. actor'.tier = "retry" => Env'.task \in armed
    BY <2>1 DEF TierFor, Env
  <2>3. QED
    BY <2>1, <2>2, CreditsUntouched DEF Spent, Earned
<1>5. CASE Finish \/ FinishFails
  <2>1. UNCHANGED armed /\ history'.credit = history.credit /\ actor.pc = "finish"
        /\ actor'.pc = "report"
    BY <1>0, <1>5 DEF Finish, FinishFails, Reported, HistoryRecord, ActorRecord
  <2>2. QED
    BY <2>1, CreditsUntouched DEF Spent, Earned
<1>6. CASE StartTurn
  <2>1. UNCHANGED armed /\ actor.pc = "turn" /\ actor'.pc = "running"
        /\ actor'.tier = actor.tier /\ actor'.event = actor.event
    BY <1>0, <1>6 DEF StartTurn, Done, ActorRecord
  <2>2. CASE actor.tier = "retry"
    <3>1. history' = Credit(-1)
      BY <1>6, <2>2 DEF StartTurn
    <3>2. \A t \in Tasks : /\ history'.credit[t] = IF t = Env.task THEN history.credit[t] + (-1)
                                                                 ELSE history.credit[t]
                           /\ history.credit[t] \in Int
      BY <2>1, <3>1, CreditIs
    <3>3. Env.task \in armed /\ Env' = Env /\ \A t \in Tasks : Spent(t)' <=> t = Env.task
      BY <2>1, <2>2 DEF Credits, Spent, Env
    <3>4. \A t \in Tasks : ~Spent(t) /\ ~Earned(t)'
      BY <2>1 DEF Spent, Earned
    <3>5. QED
      BY <2>1, <3>2, <3>3, <3>4 DEF Credits
  <2>3. CASE actor.tier # "retry"
    <3>1. history' = history
      BY <1>6, <2>3 DEF StartTurn
    <3>2. QED
      BY <2>1, <2>3, <3>1, CreditsUntouched DEF Spent, Earned
  <2>4. QED
    BY <2>2, <2>3
<1>7. ASSUME NEW outcome \in Outcomes \ {"none"}, EndTurn(outcome) PROVE Credits'
  <2>1. UNCHANGED armed /\ actor.pc \in {"turn", "running"} /\ actor'.pc = "record"
        /\ actor'.tier = actor.tier /\ actor'.event = actor.event /\ actor'.outcome = outcome
    BY <1>0, <1>7 DEF EndTurn, ActorRecord
  <2>2. Env' = Env /\ (actor.tier = "retry" => Env.task \in armed)
        /\ \A t \in Tasks : ~Earned(t) /\ (Spent(t) => Spent(t)')
    BY <2>1 DEF Credits, Spent, Earned, Env
  <2>3. CASE outcome = "capped" /\ actor.tier = "default"
    <3>1. history' = Credit(1)
      BY <1>7, <2>3 DEF EndTurn
    <3>2. \A t \in Tasks : /\ history'.credit[t] = IF t = Env.task THEN history.credit[t] + 1
                                                                 ELSE history.credit[t]
                           /\ history.credit[t] \in Int
      BY <2>1, <3>1, CreditIs
    <3>3. \A t \in Tasks : Earned(t)' => t = Env.task
      BY <2>1 DEF Earned, Env
    <3>4. QED
      BY <2>1, <2>2, <2>3, <3>2, <3>3 DEF Credits
  <2>4. CASE ~(outcome = "capped" /\ actor.tier = "default")
    <3>1. history' = history /\ \A t \in Tasks : ~Earned(t)'
      BY <1>7, <2>1, <2>4 DEF EndTurn, Earned
    <3>2. QED
      BY <2>1, <2>2, <3>1, CreditsUntouched
  <2>5. QED
    BY <2>3, <2>4
<1>8. CASE Record
  <2>1. actor.pc = "record" /\ actor'.pc = "finish"
    BY <1>0, <1>8 DEF Record, Recorded, ActorRecord
  <2>2. \A t \in Tasks : ~Spent(t)' /\ ~Earned(t)' /\ history.credit[t] \in Int
        /\ (Spent(t) <=> actor.tier = "retry" /\ Env.task = t)
    BY <1>0, <2>1 DEF Spent, Earned, HistoryRecord
  <2>3. \/ history' = history /\ actor.tier = "none" /\ UNCHANGED armed
        \/ history' = history /\ actor.tier # "none" /\ armed' = ArmedAfter
        \/ history' = Credit(1) /\ actor.tier = "retry" /\ UNCHANGED armed
        \/ history' = history /\ actor.tier \notin {"none", "retry"} /\ UNCHANGED armed
    BY <1>8 DEF Record
  <2>4. CASE history' = history /\ actor.tier # "retry" /\ UNCHANGED armed
    BY <2>1, <2>2, <2>4 DEF Credits
  <2>5. CASE history' = history /\ actor.tier # "none" /\ armed' = ArmedAfter
    <3>1. \A t \in Tasks : t \in armed' => (t \in armed /\ t # Env.task) \/ Earned(t)
      BY <2>1, <2>5 DEF ArmedAfter, Earned
    <3>2. QED
      BY <2>1, <2>2, <2>5, <3>1 DEF Credits
  <2>6. CASE history' = Credit(1) /\ actor.tier = "retry" /\ UNCHANGED armed
    <3>1. \A t \in Tasks : history'.credit[t] = IF t = Env.task THEN history.credit[t] + 1
                                                              ELSE history.credit[t]
      BY <2>1, <2>6, CreditIs
    <3>2. QED
      BY <2>1, <2>2, <2>6, <3>1 DEF Credits
  <2>7. QED
    BY <2>3, <2>4, <2>5, <2>6
<1>9. CASE Crash
  <2>1. UNCHANGED armed /\ actor'.pc = "recv"
    BY <1>9, IdleIs DEF Crash
  <2>2. \A t \in Tasks : ~Spent(t)' /\ ~Earned(t)' /\ history.credit[t] \in Int
    BY <1>0, <2>1 DEF Spent, Earned, HistoryRecord
  <2>3. CASE actor.pc \in {"running", "record"} /\ actor.tier = "retry"
    <3>1. history'.credit = Credit(1).credit
      BY <1>0, <1>9, <2>3 DEF Crash, HistoryRecord
    <3>2. \A t \in Tasks : history'.credit[t] = IF t = Env.task THEN history.credit[t] + 1
                                                              ELSE history.credit[t]
      BY <2>3, <3>1, CreditIs
    <3>3. QED
      BY <2>1, <2>2, <2>3, <3>2 DEF Credits, Spent
  <2>4. CASE ~(actor.pc \in {"running", "record"} /\ actor.tier = "retry")
    <3>1. history'.credit = history.credit
      BY <1>0, <1>9, <2>4 DEF Crash, HistoryRecord
    <3>2. QED
      BY <2>1, <2>2, <2>4, <3>1 DEF Credits, Spent
  <2>5. QED
    BY <2>3, <2>4
<1>10. QED
  BY <1>1, <1>2, <1>3, <1>4, <1>5, <1>6, <1>7, <1>8, <1>9 DEF Next, ActorStep

(* Every turn on the expensive retry tier was earned by a default turn of  *)
(* the same task that hit the iteration cap, whatever failed in between.   *)
THEOREM RetryEarnedAlways == Spec => []RetryIsEarned
<1> DEFINE Inv == TypeOK /\ Quiet /\ Credits
<1>1. Init => Inv
  BY InitTypes, IdleIs DEF Init, Quiet, Credits, Spent, Earned
<1>2. Inv /\ [Next]_vars => Inv'
  BY NextTypes, QuietKept, NextCredits
<1>3. Inv => RetryIsEarned
  BY DEF Credits, RetryIsEarned
<1>4. QED
  BY <1>1, <1>2, <1>3, PTL DEF Spec
-----------------------------------------------------------------------------
(* DeliveryKept *)

In(q, e) == \E i \in 1 .. Len(q) : q[i] = e
Distinct(q) == \A i, j \in 1 .. Len(q) : q[i] = q[j] => i = j

LEMMA Queued == ASSUME NEW q \in Seq(Events), NEW e \in Events, ~In(q, e), Distinct(q)
                PROVE  /\ Distinct(Append(q, e))
                       /\ \A d : In(Append(q, e), d) => In(q, d) \/ d = e
<1>1. /\ Len(Append(q, e)) = Len(q) + 1 /\ Len(q) \in Nat
      /\ \A i \in 1 .. Len(q) + 1 : Append(q, e)[i] = IF i <= Len(q) THEN q[i] ELSE e
  OBVIOUS
<1>2. QED
  BY <1>1 DEF In, Distinct

LEMMA Taken == ASSUME NEW q \in Seq(Events), q # <<>>, Distinct(q)
               PROVE  /\ Head(q) \in Events /\ In(q, Head(q)) /\ Distinct(Tail(q))
                      /\ \A d : In(Tail(q), d) => In(q, d) /\ d # Head(q)
<1>1. /\ Len(q) \in Nat /\ Len(q) >= 1 /\ Len(Tail(q)) = Len(q) - 1 /\ Head(q) = q[1]
      /\ \A i \in 1 .. Len(q) - 1 : Tail(q)[i] = q[i + 1]
      /\ Head(q) \in Events
  OBVIOUS
<1>2. In(q, Head(q))
  BY <1>1 DEF In
<1>3. \A i \in 1 .. Len(q) - 1 : i + 1 \in 1 .. Len(q) /\ i + 1 # 1
  BY <1>1
<1>4. Distinct(Tail(q))
  BY <1>1, <1>3 DEF Distinct
<1>5. \A d : In(Tail(q), d) => In(q, d) /\ d # Head(q)
  <2> TAKE d
  <2>1. HAVE In(Tail(q), d)
  <2>2. PICK i \in 1 .. Len(q) - 1 : q[i + 1] = d
    BY <1>1, <2>1 DEF In
  <2>3. i + 1 \in 1 .. Len(q) /\ i + 1 # 1 /\ 1 \in 1 .. Len(q)
    BY <1>1, <1>3
  <2>4. QED
    BY <1>1, <2>2, <2>3 DEF In, Distinct
<1>6. QED
  BY <1>1, <1>2, <1>4, <1>5

LEMMA OnlyEvents == ASSUME NEW q \in Seq(Events), NEW e, In(q, e) PROVE e \in Events
BY DEF In

Source(e) == Envelope[e].source
Pending(e) == In(mailbox, e) \/ actor.event = e

(* A loop that still listens awaits exactly what is pending for it, so it  *)
(* takes for an answer only what was attempted; and what is answered, or   *)
(* about to be, is in a conversation, or was told or reported in vain.     *)
Kept ==
    /\ unsaved = {}
    /\ Distinct(mailbox) /\ ~In(mailbox, actor.event)
    /\ \A e \in Events : Pending(e) => e \notin handled \cup answered
    /\ \A e \in Events : Pending(e) /\ daemon = "up" => waiting[Source(e)] = e
    /\ daemon # "up" => answered = {} /\ \A c \in Channels : waiting[c] = None
    /\ answered \subseteq told \cup Stored \cup history.unheard
    /\ actor.pc = "running" => actor.event \in Stored
    /\ actor.pc \in {"record", "finish", "report"} /\ ~actor.failed =>
          actor.event \in Stored \/ Env.kind = "project"

LEMMA SaveNothing == ASSUME TypeOK, unsaved = {}, Save PROVE disk' = disk /\ unsaved' = {}
<1>1. disk' = [disk EXCEPT ![active] = @ \cup unsaved] /\ unsaved' = {}
  BY DEF Save
<1>2. disk \in [Sessions -> SUBSET Events]
  BY DEF TypeOK
<1>3. QED
  BY <1>1, <1>2

LEMMA SwitchNothing == ASSUME TypeOK, unsaved = {}, NEW name, SwitchSession(name)
                       PROVE  disk' = disk /\ unsaved' = {}
BY SaveNothing DEF SwitchSession, engine

LEMMA StoredStarts ==
    ASSUME TypeOK, NEW e \in Events, disk' = [disk EXCEPT ![active] = @ \cup {e}]
    PROVE  Stored' = Stored \cup {e}
<1>1. /\ active \in Sessions /\ disk \in [Sessions -> SUBSET Events]
      /\ \A s \in Sessions : disk'[s] = IF s = active THEN disk[s] \cup {e} ELSE disk[s]
  BY DEF TypeOK
<1>2. \A x : x \in Stored <=> \E s \in Sessions : x \in disk[s]
  BY DEF Stored
<1>3. \A x : x \in Stored' <=> \E s \in Sessions : x \in disk'[s]
  BY DEF Stored
<1>4. QED
  BY <1>1, <1>2, <1>3

(* A step of the turn keeps Kept if it forgets nothing. *)
LEMMA KeptOn ==
    ASSUME Kept, UNCHANGED <<daemon, waiting, answered, handled, mailbox>>,
           actor'.event = actor.event, unsaved' = {},
           told \subseteq told', Stored \subseteq Stored',
           history.unheard \subseteq history'.unheard,
           actor'.pc = "running" => actor'.event \in Stored',
           actor'.pc \in {"record", "finish", "report"} /\ ~actor'.failed =>
               actor'.event \in Stored' \/ Env'.kind = "project"
    PROVE  Kept'
BY DEF Kept, Pending

LEMMA AnswerKept ==
    ASSUME TypeOK, Kept, NEW e \in Events, Answer(e), Pending(e),
           daemon = "up" => e \in told' \cup Stored' \cup history'.unheard,
           UNCHANGED <<daemon, handled>>, unsaved' = {},
           told \subseteq told', Stored \subseteq Stored',
           history.unheard \subseteq history'.unheard,
           Distinct(mailbox)', ~In(mailbox, actor.event)',
           \A d \in Events : Pending(d)' => Pending(d) /\ d # e,
           actor'.pc = "running" => actor'.event \in Stored',
           actor'.pc \in {"record", "finish", "report"} /\ ~actor'.failed =>
               actor'.event \in Stored' \/ Env'.kind = "project"
    PROVE  Kept'
<1>1. Source(e) \in Channels /\ None \notin Events
  BY ActorAssumption DEF Source, EnvelopeType
<1>2. waiting \in [Channels -> Events \cup {None}]
  BY DEF TypeOK
<1>3. CASE waiting[Source(e)] = e
  <2>1. waiting' = [waiting EXCEPT ![Source(e)] = None] /\ answered' = answered \cup {e}
    BY <1>3 DEF Answer, Source
  <2>2. daemon = "up"
    BY <1>1, <1>3 DEF Kept
  <2>3. ASSUME NEW d \in Events, Pending(d)'
        PROVE  d \notin handled' \cup answered' /\ waiting'[Source(d)] = d
    <3>1. Pending(d) /\ d # e /\ waiting[Source(d)] = d
      BY <2>2, <2>3 DEF Kept
    <3>2. Source(d) # Source(e)
      BY <1>3, <3>1
    <3>3. Source(d) \in Channels
      BY ActorAssumption DEF Source, EnvelopeType
    <3>4. QED
      BY <1>2, <2>1, <3>1, <3>2, <3>3 DEF Kept
  <2>4. QED
    BY <2>1, <2>2, <2>3 DEF Kept
<1>4. CASE waiting[Source(e)] # e
  <2>1. UNCHANGED <<waiting, answered>>
    BY <1>4 DEF Answer, Source
  <2>2. QED
    BY <1>4, <2>1 DEF Kept
<1>5. QED
  BY <1>3, <1>4
Promised == [Delivered!Next]_Delivered!promised

LEMMA Stutters ==
    ASSUME actor'.event = actor.event, told' = told, Stored' = Stored, handled' = handled,
           history'.unheard = history.unheard
    PROVE  Promised
BY DEF Promised, Delivered!promised

LEMMA Settles ==
    ASSUME actor.event # None, actor'.event = actor.event, handled' = handled,
           told' \cup Stored' = told \cup Stored \cup {actor.event},
           history'.unheard = history.unheard
    PROVE  Promised
BY DEF Promised, Delivered!Next, Delivered!Settle

(* All steps but reports. *)
Unheard == history'.unheard = history.unheard

LEMMA SameDisk == disk' = disk => Stored' = Stored
BY DEF Stored

(* What handling the envelope starts from. *)
Handling == Engine = "lcm" /\ TypeOK /\ Quiet /\ Kept

LEMMA DispatchDelivers == ASSUME Handling, Unheard, NEW e \in Events, Dispatch(e) PROVE Kept' /\ Promised
<1>1. /\ daemon = "up" /\ waiting[Source(e)] = None /\ e \notin handled \cup answered
      /\ waiting' = [waiting EXCEPT ![Source(e)] = e] /\ mailbox' = Append(mailbox, e)
      /\ UNCHANGED <<daemon, answered, handled, actor, unsaved, disk, told>>
  BY DEF Dispatch, Source, engine
<1>2. None \notin Events /\ \A d \in Events : Source(d) \in Channels
  BY ActorAssumption DEF Source, EnvelopeType
<1>3. mailbox \in Seq(Events) /\ waiting \in [Channels -> Events \cup {None}]
  BY DEF Handling, TypeOK
<1>4. \A d \in Events : Pending(d) => waiting[Source(d)] = d /\ Source(d) # Source(e) /\ d # e
  BY <1>1, <1>2 DEF Handling, Kept, Unheard
<1>5. ~In(mailbox, e) /\ actor.event # e
  BY <1>4 DEF Pending
<1>6. /\ Distinct(mailbox')
      /\ \A d : In(mailbox', d) => In(mailbox, d) \/ d = e
  BY <1>1, <1>3, <1>5, Queued DEF Handling, Kept, Unheard
<1>7. \A d \in Events : Pending(d)' => Pending(d) \/ d = e
  BY <1>1, <1>6 DEF Pending
<1>8. \A d \in Events : Pending(d)' => d \notin handled \cup answered /\ waiting'[Source(d)] = d
  BY <1>1, <1>2, <1>3, <1>4, <1>7 DEF Handling, Kept, Unheard
<1>9. Stored' = Stored /\ Env' = Env
  BY <1>1, SameDisk DEF Env
<1>10. Kept'
  BY <1>1, <1>5, <1>6, <1>8, <1>9 DEF Handling, Kept, Unheard
<1>11. QED
  BY <1>1, <1>9, <1>10, Stutters DEF Unheard

LEMMA SaveStateDelivers == ASSUME Handling, Unheard, NEW c \in Channels, SaveState(c) PROVE Kept' /\ Promised
<1>1. /\ handled' = handled \cup OfChannel(c, answered)
      /\ answered' = answered \ OfChannel(c, answered)
      /\ OfChannel(c, answered) \subseteq answered
      /\ UNCHANGED <<daemon, waiting, mailbox, actor, unsaved, disk, told>>
  BY DEF SaveState, OfChannel, engine
<1>2. Stored' = Stored /\ Env' = Env /\ \A d : Pending(d)' <=> Pending(d)
  BY <1>1, SameDisk DEF Env, Pending
<1>3. handled' \cup answered' = handled \cup answered
  BY <1>1
<1>4. Kept'
  BY <1>1, <1>2, <1>3 DEF Handling, Kept, Unheard
<1>5. OfChannel(c, answered) \subseteq told \cup Stored \cup history.unheard
  BY <1>1 DEF Handling, Kept, Unheard
<1>6. QED
  BY <1>1, <1>2, <1>4, <1>5 DEF Promised, Delivered!Next, Delivered!Close, Unheard

LEMMA LoopsGoDelivers == ASSUME Handling, Unheard, StopLoops \/ BeginDrain \/ Exit \/ Boot
                         PROVE  Kept' /\ Promised
<1>1. UNCHANGED <<mailbox, actor, disk, told, handled>> /\ unsaved' = {}
  BY DEF StopLoops, BeginDrain, Exit, Boot, engine, loops, Handling, Kept, Unheard
<1>2. Stored' = Stored /\ Env' = Env /\ \A d : Pending(d)' <=> Pending(d)
  BY <1>1, SameDisk DEF Env, Pending
<1>3. CASE StopLoops
  BY <1>1, <1>2, <1>3, Stutters DEF StopLoops, NoLoops, Handling, Kept, Unheard
<1>4. CASE BeginDrain \/ Exit
  <2>1. UNCHANGED <<waiting, answered>> /\ daemon # "up" /\ daemon' # "up"
    BY <1>4 DEF BeginDrain, Exit, loops
  <2>2. QED
    BY <1>1, <1>2, <2>1, Stutters DEF Handling, Kept, Unheard
<1>5. CASE Boot
  <2>1. UNCHANGED <<waiting, answered>> /\ daemon = "down" /\ mailbox = <<>> /\ actor.pc = "recv"
    BY <1>5 DEF Boot, loops, Handling, Quiet
  <2>2. actor.event = None /\ \A d \in Events : ~Pending(d)
    BY <2>1, ActorAssumption DEF Handling, TypeOK, Pending, In
  <2>3. QED
    BY <1>1, <1>2, <2>1, <2>2, Stutters DEF Handling, Kept, Unheard
<1>6. QED
  BY <1>3, <1>4, <1>5

LEMMA CrashDelivers == ASSUME Handling, Unheard, Crash PROVE Kept' /\ Promised
<1>1. /\ mailbox' = <<>> /\ actor' = Idle /\ unsaved' = {} /\ answered' = {}
      /\ waiting' = [c \in Channels |-> None] /\ daemon' = "down"
      /\ UNCHANGED <<handled, disk, told>>
  BY DEF Crash, NoLoops
<1>2. Stored' = Stored /\ \A d : ~In(mailbox', d)
  BY <1>1, SameDisk DEF In
<1>3. Kept'
  BY <1>1, <1>2, IdleIs, ActorAssumption DEF Kept, Distinct, Pending
<1>4. CASE actor.event = None
  BY <1>1, <1>2, <1>3, <1>4, IdleIs, Stutters DEF Unheard
<1>5. CASE actor.event # None
  BY <1>1, <1>2, <1>3, <1>5, IdleIs DEF Promised, Delivered!Next, Delivered!Stop, Unheard
<1>6. QED
  BY <1>4, <1>5

LEMMA ReceiveDelivers == ASSUME Handling, Unheard, Receive PROVE Kept' /\ Promised
<1>1. /\ mailbox # <<>> /\ mailbox' = Tail(mailbox) /\ actor.pc = "recv"
      /\ UNCHANGED <<daemon, waiting, answered, handled, unsaved, disk, told>>
  BY DEF Receive, loops, engine
<1>2. actor'.event = Head(mailbox) /\ actor'.pc = "prepare"
  BY IdleIs DEF Receive, ActorRecord
<1>3. mailbox \in Seq(Events) /\ actor.event = None
  BY <1>1 DEF Handling, TypeOK
<1>4. /\ Head(mailbox) \in Events /\ In(mailbox, Head(mailbox)) /\ Distinct(mailbox')
      /\ \A d : In(mailbox', d) => In(mailbox, d) /\ d # Head(mailbox)
  BY <1>1, <1>3, Taken DEF Handling, Kept, Unheard
<1>5. Stored' = Stored /\ \A d : Pending(d)' => Pending(d)
  BY <1>1, <1>2, <1>4, SameDisk DEF Pending
<1>6. Kept'
  BY <1>1, <1>2, <1>4, <1>5 DEF Handling, Kept, Unheard
<1>7. Head(mailbox) \notin handled
  BY <1>4 DEF Handling, Kept, Pending, Unheard
<1>8. QED
  BY <1>1, <1>2, <1>3, <1>4, <1>5, <1>6, <1>7 DEF Promised, Delivered!Next, Delivered!Start, Unheard

LEMMA RefuseDelivers == ASSUME Handling, Unheard, Refuse PROVE Kept' /\ Promised
<1>1. /\ mailbox # <<>> /\ mailbox' = Tail(mailbox) /\ actor.pc = "recv" /\ daemon # "up"
      /\ Answer(Head(mailbox))
      /\ UNCHANGED <<daemon, handled, actor, unsaved, disk, told>>
  BY DEF Refuse, engine
<1>2. mailbox \in Seq(Events)
  BY DEF Handling, TypeOK
<1>3. /\ Head(mailbox) \in Events /\ In(mailbox, Head(mailbox)) /\ Distinct(mailbox')
      /\ \A d : In(mailbox', d) => In(mailbox, d) /\ d # Head(mailbox)
  BY <1>1, <1>2, Taken DEF Handling, Kept, Unheard
<1>4. Stored' = Stored
  BY <1>1, SameDisk
<1>5. ~In(mailbox, actor.event)' /\ \A d \in Events : Pending(d)' => Pending(d) /\ d # Head(mailbox)
  BY <1>1, <1>3 DEF Pending, Handling, Kept, Unheard
<1>6. Kept'
  <2>1. TypeOK /\ Kept /\ unsaved' = {} /\ Pending(Head(mailbox))
    BY <1>1, <1>3 DEF Handling, Kept, Pending, Unheard
  <2>2. Distinct(mailbox)' /\ actor'.pc = "recv"
    BY <1>1, <1>3
  <2>3. QED
    BY <1>1, <1>3, <1>4, <1>5, <2>1, <2>2, AnswerKept DEF Unheard
<1>7. QED
  BY <1>1, <1>4, <1>6, Stutters DEF Unheard
LEMMA PrepareDelivers == ASSUME Handling, Unheard, PrepareTurn PROVE Kept' /\ Promised
<1>1. /\ UNCHANGED <<daemon, waiting, answered, handled, mailbox, told>>
      /\ SwitchSession(Target)
  BY DEF PrepareTurn, loops
<1>2. actor'.event = actor.event /\ actor'.pc = "turn"
  BY DEF PrepareTurn, Handling, TypeOK
<1>3. Stored' = Stored /\ unsaved' = {}
  BY <1>1, SwitchNothing, SameDisk DEF Handling, Kept, Unheard
<1>4. QED
  BY <1>1, <1>2, <1>3, KeptOn, Stutters DEF Handling, Unheard

LEMMA FailsDelivers == ASSUME Handling, Unheard, PrepareFails \/ ProjectFails PROVE Kept' /\ Promised
<1>1. UNCHANGED <<daemon, waiting, answered, handled, mailbox, told, disk, unsaved>> /\ Fail
  BY DEF PrepareFails, ProjectFails, loops, engine
<1>2. actor'.event = actor.event /\ actor'.pc = "report" /\ actor'.failed = TRUE
  BY <1>1 DEF Fail, Handling, TypeOK
<1>3. Stored' = Stored /\ unsaved' = {}
  BY <1>1, SameDisk DEF Handling, Kept, Unheard
<1>4. QED
  BY <1>1, <1>2, <1>3, KeptOn, Stutters DEF Handling, Unheard

LEMMA StartTurnDelivers == ASSUME Handling, Unheard, StartTurn PROVE Kept' /\ Promised
<1>1. /\ UNCHANGED <<daemon, waiting, answered, handled, mailbox, told, unsaved>>
      /\ disk' = [disk EXCEPT ![active] = @ \cup {actor.event}]
  BY DEF StartTurn, loops, Handling
<1>2. actor'.event = actor.event /\ actor'.pc = "running"
  BY DEF StartTurn, Done, Handling, TypeOK
<1>3. actor.event \in Events /\ None \notin Events
  BY EnvIs, ActorAssumption DEF StartTurn, Handling
<1>4. Stored' = Stored \cup {actor.event} /\ unsaved' = {}
  BY <1>1, <1>3, StoredStarts DEF Handling, Kept, Unheard
<1>5. QED
  BY <1>1, <1>2, <1>3, <1>4, KeptOn, Settles DEF Handling, Unheard

LEMMA EndTurnDelivers == ASSUME Handling, Unheard, NEW outcome \in Outcomes \ {"none"}, EndTurn(outcome)
                         PROVE  Kept' /\ Promised
<1>1. UNCHANGED <<daemon, waiting, answered, handled, mailbox, told, disk, unsaved>>
  BY DEF EndTurn, loops, engine
<1>2. /\ actor'.event = actor.event /\ actor'.pc = "record"
      /\ (actor'.failed <=> outcome \in {"capped", "failed"})
  BY DEF EndTurn, Handling, TypeOK
<1>3. Stored' = Stored /\ unsaved' = {}
  BY <1>1, SameDisk DEF Handling, Kept, Unheard
<1>4. ~actor'.failed => actor.pc = "running"
  BY <1>2 DEF EndTurn
<1>5. ~actor'.failed => actor.event \in Stored
  BY <1>4 DEF Handling, Kept, Unheard
<1>6. QED
  BY <1>1, <1>2, <1>3, <1>5, KeptOn, Stutters DEF Handling, Unheard

LEMMA RecordDelivers == ASSUME Handling, Unheard, Record PROVE Kept' /\ Promised
<1>1. /\ UNCHANGED <<daemon, waiting, answered, handled, mailbox, disk, unsaved>>
      /\ actor.pc = "record"
      /\ told' = told \/ told' = told \cup {actor.event}
  BY DEF Record, loops, engine
<1>2. /\ actor'.event = actor.event /\ actor'.pc = "finish"
      /\ (~actor'.failed => ~actor.failed)
  BY DEF Record, Recorded, Handling, TypeOK
<1>3. Stored' = Stored /\ unsaved' = {} /\ Env' = Env
  BY <1>1, <1>2, SameDisk DEF Handling, Kept, Env, Unheard
<1>4. ~actor'.failed => actor.event \in Stored \/ Env.kind = "project"
  BY <1>1, <1>2 DEF Handling, Kept, Unheard
<1>5. actor.event # None
  BY <1>1, EnvIs, ActorAssumption DEF Handling
<1>6. Kept'
  BY <1>1, <1>2, <1>3, <1>4, KeptOn DEF Handling, Unheard
<1>7. Promised
  BY <1>1, <1>2, <1>3, <1>5, Stutters, Settles DEF Unheard
<1>8. QED
  BY <1>6, <1>7

LEMMA FinishDelivers == ASSUME Handling, Unheard, Finish \/ FinishFails PROVE Kept' /\ Promised
<1>1. /\ UNCHANGED <<daemon, waiting, answered, handled, mailbox, told>>
      /\ actor.pc = "finish" /\ Reported
  BY DEF Finish, FinishFails, loops
<1>2. actor'.event = actor.event /\ actor'.pc = "report" /\ (actor'.failed <=> actor.failed)
  BY <1>1 DEF Reported, Handling, TypeOK
<1>3. disk' = disk /\ unsaved' = {}
  <2>1. CASE Save
    BY <2>1, SaveNothing DEF Handling, Kept, Unheard
  <2>2. CASE SwitchSession(actor.original)
    BY <2>2, SwitchNothing DEF Handling, Kept, Unheard
  <2>3. CASE UNCHANGED engine
    BY <2>3 DEF engine, Handling, Kept, Unheard
  <2>4. QED
    BY <2>1, <2>2, <2>3 DEF Finish, FinishFails
<1>4. Stored' = Stored /\ Env' = Env
  BY <1>2, <1>3, SameDisk DEF Env
<1>5. ~actor.failed => actor.event \in Stored \/ Env.kind = "project"
  BY <1>1 DEF Handling, Kept, Unheard
<1>6. QED
  BY <1>1, <1>2, <1>3, <1>4, <1>5, KeptOn, Stutters DEF Handling, Unheard

LEMMA ProjectDelivers == ASSUME Handling, Unheard, Project PROVE Kept' /\ Promised
<1>1. /\ UNCHANGED <<daemon, waiting, answered, handled, mailbox, told>>
      /\ Env.kind = "project"
  BY DEF Project, loops
<1>2. actor'.event = actor.event /\ actor'.pc = "report"
  BY DEF Project, Done, Fail, Handling, TypeOK
<1>3. disk' = disk /\ unsaved' = {}
  <2>1. CASE SwitchSession(Env.hint)
    BY <2>1, SwitchNothing DEF Handling, Kept, Unheard
  <2>2. CASE UNCHANGED engine
    BY <2>2 DEF engine, Handling, Kept, Unheard
  <2>3. QED
    BY <2>1, <2>2 DEF Project
<1>4. Stored' = Stored /\ Env' = Env
  BY <1>2, <1>3, SameDisk DEF Env
<1>5. QED
  BY <1>1, <1>2, <1>3, <1>4, KeptOn, Stutters DEF Handling, Unheard

LEMMA ReportDelivers == ASSUME Handling, Report PROVE Kept' /\ Promised
<1>1. /\ UNCHANGED <<daemon, handled, mailbox, disk, unsaved>>
      /\ actor.pc = "report" /\ Answer(actor.event) /\ actor' = Idle
  BY DEF Report, engine
<1>0. /\ told' \cup history'.unheard \in {told \cup history.unheard,
                                         told \cup history.unheard \cup {actor.event}}
      /\ told \subseteq told' /\ history.unheard \subseteq history'.unheard
      /\ Owed => actor.event \in told' \cup history'.unheard
  <2>1. history \in HistoryRecord
    BY DEF Handling, TypeOK, HistoryRecord
  <2>2. CASE Tell
    BY <2>2 DEF Tell
  <2>3. CASE InVain
    <3>1. history'.unheard = history.unheard \cup {actor.event} /\ told' = told
      BY <2>1, <2>3 DEF InVain, HistoryRecord
    <3>2. QED
      BY <3>1
  <2>4. CASE ~Owed
    BY <2>4 DEF Report
  <2>5. QED
    BY <2>2, <2>3, <2>4 DEF Report
<1>2. actor.event \in Events /\ None \notin Events /\ actor'.event = None /\ actor'.pc = "recv"
  BY <1>1, EnvIs, IdleIs, ActorAssumption DEF Handling
<1>3. Stored' = Stored /\ unsaved' = {}
  BY <1>1, SameDisk DEF Handling, Kept
<1>4. daemon = "up" => actor.event \in told' \cup Stored' \cup history'.unheard
  <2>1. HAVE daemon = "up"
  <2>2. waiting[Source(actor.event)] = actor.event
    BY <1>2, <2>1 DEF Handling, Kept, Pending
  <2>3. CASE Env.source \in Attended \/ actor.failed
    <3>1. Owed
      BY <2>2, <2>3 DEF Owed, Unattended, Source, Env
    <3>2. QED
      BY <1>0, <3>1
  <2>4. CASE Env.source \notin Attended /\ ~actor.failed
    <3>1. Env.kind # "project"
      BY <1>2, <2>4, ActorAssumption DEF Env
    <3>2. QED
      BY <1>1, <1>3, <2>4, <3>1 DEF Handling, Kept
  <2>5. QED
    BY <2>3, <2>4
<1>5. mailbox \in Seq(Events)
  BY DEF Handling, TypeOK
<1>6. /\ Distinct(mailbox)' /\ ~In(mailbox, actor.event)'
      /\ \A d \in Events : Pending(d)' => Pending(d) /\ d # actor.event
  <2>1. ~In(mailbox, None)
    BY <1>2, <1>5, OnlyEvents
  <2>2. \A d \in Events : In(mailbox, d) => d # actor.event
    BY DEF Handling, Kept
  <2>3. QED
    BY <1>1, <1>2, <2>1, <2>2 DEF Handling, Kept, Pending
<1>7. Kept'
  <2>1. TypeOK /\ Kept /\ Pending(actor.event) /\ told \subseteq told'
    BY <1>0, <1>1 DEF Handling, Pending
  <2>2. QED
    BY <1>0, <1>1, <1>2, <1>3, <1>4, <1>6, <2>1, AnswerKept
<1>8. Promised
  BY <1>0, <1>1, <1>2, <1>3 DEF Promised, Delivered!Next, Delivered!Stop
<1>9. QED
  BY <1>7, <1>8

LEMMA NextDelivers == Handling /\ [Next]_vars => Kept' /\ Promised
<1> SUFFICES ASSUME Handling, [Next]_vars PROVE Kept' /\ Promised
  OBVIOUS
<1>0. Next /\ ~Report => Unheard
  BY NothingUnheard DEF Handling, Unheard
<1>1. CASE UNCHANGED vars
  <2>1. UNCHANGED <<daemon, waiting, answered, handled, mailbox, actor, told, disk, unsaved,
                    history>>
    BY <1>1 DEF vars
  <2>2. Stored' = Stored /\ Env' = Env
    BY <2>1, SameDisk DEF Env
  <2>3. QED
    BY <2>1, <2>2, KeptOn, Stutters DEF Handling, Kept
<1>2. CASE ActorStep
  <2>1. CASE Report
    BY <2>1, ReportDelivers
  <2>2. CASE ~Report
    <3>1. Unheard
      BY <1>0, <1>2, <2>2 DEF Next
    <3>2. QED
      BY <1>2, <2>2, <3>1, ReceiveDelivers, RefuseDelivers, PrepareDelivers, FailsDelivers,
         StartTurnDelivers, EndTurnDelivers, RecordDelivers, FinishDelivers, ProjectDelivers
         DEF ActorStep
  <2>3. QED
    BY <2>1, <2>2
<1>3. CASE ~ActorStep /\ Next
  BY <1>0, <1>3, DispatchDelivers, SaveStateDelivers, LoopsGoDelivers, CrashDelivers DEF Next, ActorStep
<1>4. QED
  BY <1>1, <1>2, <1>3

(* With the LCM engine nothing is lost between a channel and a             *)
(* conversation: an event that its channel will not bring again is stored, *)
(* was told to a human or journaled, or its report was tried and failed,   *)
(* through every failure, shutdown and crash.  A refusal at a drain is     *)
(* none of these (run_with_shutdown stops the loops first).                *)
THEOREM DeliveryAlways == ASSUME Engine = "lcm" PROVE Spec => DeliveryKept
<1> DEFINE Inv == TypeOK /\ Quiet /\ Kept
<1>1. Init => Inv /\ Delivered!Init
  <2> SUFFICES ASSUME Init PROVE Inv /\ Delivered!Init
    OBVIOUS
  <2>1. TypeOK /\ Quiet
    BY InitTypes, IdleIs DEF Init, Quiet
  <2>2. Stored = {}
    BY DEF Init, Stored
  <2>3. /\ actor.pc = "recv" /\ actor.event = None /\ mailbox = <<>> /\ None \notin Events
        /\ unsaved = {} /\ answered = {} /\ told = {} /\ handled = {} /\ daemon = "up"
        /\ history.unheard = {}
    BY IdleIs, ActorAssumption DEF Init
  <2>4. Kept
    BY <2>3 DEF Kept, Distinct, In, Pending
  <2>5. Delivered!Init
    BY <2>2, <2>3 DEF Delivered!Init
  <2>6. QED
    BY <2>1, <2>4, <2>5
<1>2. Inv /\ [Next]_vars => Inv' /\ [Delivered!Next]_Delivered!promised
  BY NextTypes, QuietKept, NextDelivers DEF Handling, Promised
<1>3. QED
  BY <1>1, <1>2, PTL DEF Spec, DeliveryKept, Delivered!Spec

-----------------------------------------------------------------------------
(* Every envelope is handled: what EveryAnswered and DrainEnds rest on      *)
(* besides fairness.                                                        *)

(* The steps until the actor is done with the envelope in hand. *)
Stage == CASE actor.pc = "recv"    -> 0
           [] actor.pc = "report"  -> 1
           [] actor.pc = "finish"  -> 2
           [] actor.pc = "record"  -> 3
           [] actor.pc = "running" -> 4
           [] actor.pc = "turn"    -> 5
           [] actor.pc = "prepare" -> 6

(* Bounds its steps until the envelope at place i of the mailbox, or in     *)
(* hand (0), has been handled; until all have.                              *)
StepsBefore(i) == 7 * i + Stage
StepsLeft == StepsBefore(Len(mailbox))

Place(e, i) == IF i = 0 THEN actor.event = e ELSE i \in 1 .. Len(mailbox) /\ mailbox[i] = e

(* What a loop awaits is queued or in hand, and will be answered to it.     *)
Awaited ==
    \A c \in Channels : waiting[c] # None =>
        /\ daemon = "up" /\ Source(waiting[c]) = c
        /\ \E i \in 0 .. Len(mailbox) : Place(waiting[c], i)

(* It comes no later than it would have, and each step of the actor brings  *)
(* it nearer.                                                               *)
Nearer(c, i) ==
    \E j \in 0 .. i : /\ j <= Len(mailbox') /\ Place(waiting[c], j)'
                      /\ StepsBefore(j)' <= StepsBefore(i)
                      /\ ActorStep => StepsBefore(j)' < StepsBefore(i)

AnswerNears ==
    [][\A c \in Channels : \A i \in 0 .. Len(mailbox) :
           waiting[c] # None /\ Place(waiting[c], i) => waiting'[c] # waiting[c] \/ Nearer(c, i)]_vars

DrainShrinks ==
    [][daemon # "up" => StepsLeft' <= StepsLeft /\ (ActorStep => StepsLeft' < StepsLeft)]_vars

(* The four ways the actor moves: it takes an envelope, refuses one, answers *)
(* the one in hand, or goes on with it.                                     *)
Takes == /\ mailbox # <<>> /\ mailbox' = Tail(mailbox) /\ actor.pc = "recv"
         /\ actor'.pc = "prepare" /\ actor'.event = Head(mailbox) /\ waiting' = waiting
Refuses == /\ mailbox # <<>> /\ mailbox' = Tail(mailbox) /\ actor' = actor
           /\ actor.pc = "recv" /\ Answer(Head(mailbox))
Answers == /\ mailbox' = mailbox /\ actor.pc = "report" /\ actor'.pc = "recv"
           /\ Answer(actor.event)
GoesOn == /\ mailbox' = mailbox /\ actor.pc # "recv" /\ actor'.pc # "recv"
          /\ actor'.event = actor.event /\ waiting' = waiting /\ Stage' < Stage

LEMMA StageIs == TypeOK => Stage \in 0 .. 6 /\ (actor.pc = "recv" <=> Stage = 0)
BY DEF TypeOK, Stage, Steps

LEMMA ActorMovesOn ==
    ASSUME TypeOK, ActorStep
    PROVE  daemon' = daemon /\ (Takes \/ Refuses \/ Answers \/ GoesOn)
<1>0. actor \in ActorRecord
  BY DEF TypeOK, ActorRecord
<1>1. CASE Receive
  BY <1>1, IdleIs DEF Receive, Takes, loops, ActorRecord
<1>2. CASE Refuse
  BY <1>2 DEF Refuse, Refuses
<1>3. CASE Report
  BY <1>3, IdleIs DEF Report, Answers
<1>4. CASE PrepareTurn
  BY <1>0, <1>4 DEF PrepareTurn, loops, GoesOn, Stage, ActorRecord
<1>5. CASE PrepareFails \/ ProjectFails
  <2>1. actor'.pc = "report" /\ actor'.event = actor.event /\ actor.pc = "prepare"
    BY <1>0, <1>5 DEF PrepareFails, ProjectFails, Fail, ActorRecord
  <2>2. daemon' = daemon /\ mailbox' = mailbox /\ waiting' = waiting
    BY <1>5 DEF PrepareFails, ProjectFails, loops
  <2> QED
    BY <2>1, <2>2 DEF GoesOn, Stage
<1>6. CASE StartTurn
  BY <1>0, <1>6 DEF StartTurn, Done, loops, GoesOn, Stage, ActorRecord
<1>7. ASSUME NEW outcome \in Outcomes \ {"none"}, EndTurn(outcome)
      PROVE  daemon' = daemon /\ GoesOn
  BY <1>0, <1>7 DEF EndTurn, loops, GoesOn, Stage, ActorRecord
<1>8. CASE Record
  <2>1. actor' = Recorded(actor.failed) \/ actor' = Recorded(TRUE)
    BY <1>8 DEF Record
  <2>2. actor'.pc = "finish" /\ actor'.event = actor.event
    BY <1>0, <2>1 DEF Recorded, ActorRecord
  <2> QED
    BY <1>8, <2>2 DEF Record, loops, GoesOn, Stage
<1>9. CASE Finish \/ FinishFails
  <2>1. actor'.pc = "report" /\ actor'.event = actor.event
    BY <1>0, <1>9 DEF Finish, FinishFails, Reported, ActorRecord
  <2> QED
    BY <1>9, <2>1 DEF Finish, FinishFails, loops, GoesOn, Stage
<1>10. CASE Project
  <2>1. actor'.pc = "report" /\ actor'.event = actor.event
    BY <1>0, <1>10 DEF Project, Done, Fail, ActorRecord
  <2> QED
    BY <1>10, <2>1 DEF Project, loops, GoesOn, Stage
<1> QED
  BY <1>1, <1>2, <1>3, <1>4, <1>5, <1>6, <1>7, <1>8, <1>9, <1>10 DEF ActorStep

(* The envelope at place i + 1 comes to place i when the first is taken.   *)
LEMMA Moved ==
    ASSUME TypeOK, mailbox # <<>>, mailbox' = Tail(mailbox)
    PROVE  /\ Len(mailbox) \in Nat /\ Len(mailbox) >= 1 /\ Len(mailbox') = Len(mailbox) - 1
           /\ Head(mailbox) = mailbox[1]
           /\ \A i \in 1 .. Len(mailbox) - 1 : mailbox'[i] = mailbox[i + 1]
BY DEF TypeOK

(* An answer reaches the loop that awaits it and changes no other. *)
LEMMA AnswerReaches ==
    ASSUME TypeOK, Awaited, NEW e \in Events, Answer(e), NEW c \in Channels
    PROVE  waiting'[c] = IF waiting[c] = e THEN None ELSE waiting[c]
<1>1. waiting \in [Channels -> Events \cup {None}] /\ e # None
  BY ActorAssumption DEF TypeOK
<1>2. waiting[c] = e => Source(e) = c
  BY <1>1 DEF Awaited
<1> QED
  BY <1>1, <1>2 DEF Answer, Source

LEMMA ActorNearer ==
    ASSUME TypeOK, TypeOK', Awaited, ActorStep, NEW c \in Channels, NEW i \in 0 .. Len(mailbox),
           waiting[c] # None, Place(waiting[c], i)
    PROVE  waiting'[c] = None \/ (waiting'[c] = waiting[c] /\ Nearer(c, i))
<1>1. Takes \/ Refuses \/ Answers \/ GoesOn
  BY ActorMovesOn
<1> PICK e \in Events : e = waiting[c]
  BY ActorAssumption DEF TypeOK
<1>2. Len(mailbox) \in Nat /\ i \in Nat /\ Stage \in 0 .. 6 /\ Len(mailbox') \in Nat
  BY StageIs DEF TypeOK
<1>3. actor.pc = "recv" => actor.event = None /\ None # e
  BY ActorAssumption DEF TypeOK
<1>4. CASE Takes
  <2>1. i > 0 /\ mailbox[i] = e /\ Stage = 0 /\ Stage' = 6
    BY <1>2, <1>3, <1>4 DEF Takes, Place, Stage
  <2>2. i - 1 \in 0 .. i /\ i - 1 <= Len(mailbox') /\ waiting'[c] = e
    BY <1>2, <1>4, <2>1, Moved DEF Takes
  <2>3. Place(e, i - 1)'
    <3>1. CASE i = 1
      BY <1>4, <2>1, <3>1, Moved DEF Takes, Place
    <3>2. CASE i # 1
      <4>1. i - 1 \in 1 .. Len(mailbox) - 1
        BY <1>2, <2>1, <3>2
      <4> QED
        BY <1>2, <1>4, <2>1, <4>1, Moved DEF Takes, Place
    <3> QED
      BY <3>1, <3>2
  <2>4. StepsBefore(i - 1)' < StepsBefore(i)
    BY <1>2, <2>1 DEF StepsBefore
  <2> QED
    BY <1>2, <2>1, <2>2, <2>3, <2>4 DEF Nearer, StepsBefore
<1>5. CASE Refuses
  <2>1. i > 0 /\ mailbox[i] = e /\ Stage = 0 /\ Stage' = 0 /\ Head(mailbox) \in Events
    BY <1>2, <1>3, <1>5 DEF Refuses, Place, Stage, TypeOK
  <2>2. CASE e = Head(mailbox)
    BY <1>5, <2>1, <2>2, AnswerReaches DEF Refuses
  <2>3. CASE e # Head(mailbox)
    <3>1. waiting'[c] = e /\ i # 1
      BY <1>5, <2>1, <2>3, AnswerReaches, Moved DEF Refuses
    <3>2. i - 1 \in 0 .. i /\ i - 1 \in 1 .. Len(mailbox) - 1 /\ i - 1 <= Len(mailbox')
      BY <1>2, <1>5, <2>1, <3>1, Moved DEF Refuses
    <3>3. Place(e, i - 1)'
      BY <1>2, <1>5, <2>1, <3>2, Moved DEF Refuses, Place
    <3>4. StepsBefore(i - 1)' < StepsBefore(i) /\ StepsBefore(i - 1)' <= StepsBefore(i)
      BY <1>2, <2>1 DEF StepsBefore
    <3> QED
      BY <3>1, <3>2, <3>3, <3>4 DEF Nearer
  <2> QED
    BY <2>2, <2>3
<1>6. CASE Answers
  <2>1. Stage = 1 /\ Stage' = 0 /\ actor.event \in Events
    BY <1>6, EnvIs DEF Answers, Stage
  <2>2. CASE e = actor.event
    BY <1>6, <2>1, <2>2, AnswerReaches DEF Answers
  <2>3. CASE e # actor.event
    <3>1. waiting'[c] = e /\ i # 0
      BY <1>6, <2>1, <2>3, AnswerReaches DEF Answers, Place
    <3>2. Place(e, i)' /\ i \in 0 .. i /\ i <= Len(mailbox')
      BY <1>2, <1>6, <3>1 DEF Answers, Place
    <3>3. StepsBefore(i)' < StepsBefore(i) /\ StepsBefore(i)' <= StepsBefore(i)
      BY <1>2, <2>1 DEF StepsBefore
    <3> QED
      BY <3>1, <3>2, <3>3 DEF Nearer
  <2> QED
    BY <2>2, <2>3
<1>7. CASE GoesOn
  <2>1. waiting'[c] = e /\ Place(e, i)' /\ i \in 0 .. i /\ i <= Len(mailbox')
    BY <1>2, <1>7 DEF GoesOn, Place
  <2>2. Stage' \in 0 .. 6 /\ Stage' < Stage
    BY <1>7 DEF GoesOn, Stage, TypeOK, Steps
  <2>3. StepsBefore(i)' < StepsBefore(i) /\ StepsBefore(i)' <= StepsBefore(i)
    <3>1. \A n, k \in 0 .. 6 : k < n => 7 * i + k < 7 * i + n /\ 7 * i + k <= 7 * i + n
      BY <1>2
    <3> QED
      BY <1>2, <2>2, <3>1 DEF StepsBefore
  <2> QED
    BY <2>1, <2>3 DEF Nearer
<1> QED
  BY <1>1, <1>4, <1>5, <1>6, <1>7

(* What is not the actor's step leaves its queue in order. *)
LEMMA OutsideNearer ==
    ASSUME TypeOK, Awaited, OutsideStep \/ UNCHANGED vars, ~ActorStep,
           NEW c \in Channels, NEW i \in 0 .. Len(mailbox),
           waiting[c] # None, Place(waiting[c], i)
    PROVE  waiting'[c] = None \/ (waiting'[c] = waiting[c] /\ daemon' = "up" /\ Nearer(c, i))
<1> PICK e \in Events : e = waiting[c]
  BY ActorAssumption DEF TypeOK
<1>1. /\ Len(mailbox) \in Nat /\ i \in Nat /\ daemon = "up" /\ Stage \in 0 .. 6
      /\ i \in 0 .. i /\ i <= Len(mailbox)
  BY StageIs DEF TypeOK, Awaited
<1>2. ASSUME waiting'[c] = e, actor' = actor, daemon' = "up", i <= Len(mailbox'),
             \A k \in 1 .. Len(mailbox) : k \in 1 .. Len(mailbox') /\ mailbox'[k] = mailbox[k]
      PROVE  Nearer(c, i)
  <2>1. Place(e, i)' /\ Stage' = Stage
    BY <1>1, <1>2 DEF Place, Stage
  <2>2. StepsBefore(i)' <= StepsBefore(i)
    BY <1>1, <2>1 DEF StepsBefore
  <2> QED
    BY <1>1, <1>2, <2>1, <2>2 DEF Nearer
<1>3. ASSUME NEW d \in Events, Dispatch(d)
      PROVE  waiting'[c] = e /\ daemon' = "up" /\ Nearer(c, i)
  <2>1. mailbox \in Seq(Events) /\ mailbox' = Append(mailbox, d) /\ actor' = actor
    BY <1>3 DEF Dispatch, TypeOK
  <2>2. /\ Len(mailbox') = Len(mailbox) + 1
        /\ \A k \in 1 .. Len(mailbox) : k \in 1 .. Len(mailbox') /\ mailbox'[k] = mailbox[k]
    BY <2>1
  <2>3. waiting'[c] = e /\ daemon' = "up"
    BY <1>3, ActorAssumption DEF Dispatch, TypeOK, EnvelopeType
  <2>4. i <= Len(mailbox')
    BY <1>1, <2>2
  <2> QED
    BY <1>2, <2>1, <2>2, <2>3, <2>4
<1>4. CASE (\E d \in Channels : SaveState(d)) \/ UNCHANGED vars
  <2>1. UNCHANGED <<daemon, waiting, mailbox, actor>>
    BY <1>4 DEF SaveState, vars
  <2> QED
    BY <1>1, <1>2, <2>1
<1>5. CASE StopLoops \/ Crash
  BY <1>5 DEF StopLoops, Crash, NoLoops
<1>6. ~(BeginDrain \/ Exit \/ Boot)
  BY <1>1 DEF BeginDrain, Exit, Boot
<1> QED
  BY <1>3, <1>4, <1>5, <1>6 DEF OutsideStep

LEMMA NextOutside == [Next]_vars => ActorStep \/ OutsideStep \/ UNCHANGED vars
BY DEF Next, OutsideStep

LEMMA NextNearer ==
    ASSUME TypeOK, TypeOK', Awaited, [Next]_vars, NEW c \in Channels,
           NEW i \in 0 .. Len(mailbox), waiting[c] # None, Place(waiting[c], i)
    PROVE  waiting'[c] = None \/ (waiting'[c] = waiting[c] /\ daemon' = "up" /\ Nearer(c, i))
<1>1. CASE ActorStep
  <2>1. daemon' = "up"
    BY <1>1, ActorMovesOn DEF Awaited
  <2> QED
    BY <1>1, <2>1, ActorNearer
<1>2. CASE ~ActorStep
  BY <1>2, NextOutside, OutsideNearer
<1> QED
  BY <1>1, <1>2

LEMMA NextAwaited == ASSUME TypeOK, TypeOK', Awaited, [Next]_vars PROVE Awaited'
<1> SUFFICES ASSUME NEW c \in Channels, waiting'[c] # None
             PROVE  /\ daemon' = "up" /\ Source(waiting'[c]) = c
                    /\ \E i \in 0 .. Len(mailbox') : Place(waiting[c], i)'
  BY DEF Awaited, Source
<1>1. CASE waiting[c] # None
  <2>1. PICK i \in 0 .. Len(mailbox) : Place(waiting[c], i)
    BY <1>1 DEF Awaited
  <2>2. waiting'[c] = waiting[c] /\ daemon' = "up" /\ Nearer(c, i)
    BY <1>1, <2>1, NextNearer
  <2>3. PICK j \in 0 .. i : j <= Len(mailbox') /\ Place(waiting[c], j)'
    BY <2>2 DEF Nearer
  <2>4. j \in 0 .. Len(mailbox')
    BY <2>3 DEF TypeOK
  <2>5. Source(waiting[c]) = c
    BY <1>1 DEF Awaited
  <2> QED
    BY <2>2, <2>3, <2>4, <2>5
<1>2. CASE waiting[c] = None
  <2>1. PICK e \in Events : Dispatch(e)
    <3>1. ~ActorStep
      <4>1. ASSUME NEW d \in Events, Answer(d) PROVE waiting'[c] = None
        BY <1>2, <4>1, AnswerReaches
      <4>2. ASSUME ActorStep PROVE FALSE
        <5>1. Takes \/ Refuses \/ Answers \/ GoesOn
          BY <4>2, ActorMovesOn
        <5>2. Refuses => Head(mailbox) \in Events
          BY DEF Refuses, TypeOK
        <5>3. Answers => actor.event \in Events
          BY EnvIs DEF Answers
        <5> QED
          BY <1>2, <4>1, <5>1, <5>2, <5>3 DEF Takes, Refuses, Answers, GoesOn
      <4> QED
        BY <4>2
    <3>2. ASSUME \/ \E d \in Channels : SaveState(d)
                 \/ StopLoops \/ BeginDrain \/ Exit \/ Crash \/ Boot \/ UNCHANGED vars
          PROVE  waiting'[c] = None
      BY <1>2, <3>2 DEF SaveState, StopLoops, BeginDrain, Exit, Crash, Boot, NoLoops, loops, vars
    <3> QED
      BY <3>1, <3>2, NextOutside DEF OutsideStep
  <2>2. /\ daemon' = "up" /\ mailbox' = Append(mailbox, e) /\ Source(e) \in Channels
        /\ waiting' = [waiting EXCEPT ![Source(e)] = e] /\ actor' = actor
    BY <2>1, ActorAssumption DEF Dispatch, Source, EnvelopeType
  <2>3. c = Source(e) /\ waiting'[c] = e
    BY <1>2, <2>2 DEF TypeOK
  <2> PICK k : k = Len(mailbox) + 1
    OBVIOUS
  <2>4. k \in 1 .. Len(mailbox') /\ k # 0 /\ k \in 0 .. Len(mailbox') /\ mailbox'[k] = e
    BY <2>2 DEF TypeOK
  <2>5. Place(waiting[c], k)'
    BY <2>3, <2>4 DEF Place
  <2> QED
    BY <2>2, <2>3, <2>4, <2>5
<1> QED
  BY <1>1, <1>2

LEMMA AwaitedAlways == Spec => [](TypeOK /\ Awaited)
<1>1. Init => TypeOK /\ Awaited
  BY InitTypes DEF Init, Awaited
<1> QED
  BY <1>1, NextTypes, NextAwaited, PTL DEF Spec

LEMMA DrainStep ==
    ASSUME TypeOK, TypeOK', [Next]_vars, daemon # "up"
    PROVE  StepsLeft' <= StepsLeft /\ (ActorStep => StepsLeft' < StepsLeft)
<1>1. /\ Len(mailbox) \in Nat /\ Stage \in 0 .. 6 /\ (actor.pc = "recv" <=> Stage = 0)
      /\ Len(mailbox') \in Nat
  BY StageIs DEF TypeOK
<1>2. CASE ActorStep
  <2>1. CASE Takes
    <3>1. Stage = 0 /\ Stage' = 6 /\ Len(mailbox') = Len(mailbox) - 1
      BY <2>1, Moved DEF Takes, Stage
    <3> QED
      BY <1>1, <3>1 DEF StepsLeft, StepsBefore
  <2>2. CASE Refuses
    <3>1. Stage = 0 /\ Stage' = 0 /\ Len(mailbox') = Len(mailbox) - 1
      BY <2>2, Moved DEF Refuses, Stage
    <3> QED
      BY <1>1, <3>1 DEF StepsLeft, StepsBefore
  <2>3. CASE Answers
    <3>1. Stage = 1 /\ Stage' = 0 /\ mailbox' = mailbox
      BY <2>3 DEF Answers, Stage
    <3> QED
      BY <1>1, <3>1 DEF StepsLeft, StepsBefore
  <2>4. CASE GoesOn
    <3>1. Stage' \in 0 .. 6 /\ Stage' < Stage /\ mailbox' = mailbox
      BY <2>4 DEF GoesOn, Stage, TypeOK, Steps
    <3> QED
      BY <1>1, <3>1 DEF StepsLeft, StepsBefore
  <2> QED
    BY <1>2, <2>1, <2>2, <2>3, <2>4, ActorMovesOn
<1>3. CASE ~ActorStep
  <2>1. CASE Crash
    <3>1. Len(mailbox') = 0 /\ Stage' = 0
      BY <2>1, IdleIs DEF Crash, Stage
    <3> QED
      BY <1>1, <1>3, <3>1 DEF StepsLeft, StepsBefore
  <2>2. CASE (\E c \in Channels : SaveState(c)) \/ BeginDrain \/ Exit \/ Boot \/ UNCHANGED vars
    <3>1. mailbox' = mailbox /\ actor' = actor
      BY <2>2 DEF SaveState, BeginDrain, Exit, Boot, vars
    <3>2. Stage' = Stage
      BY <3>1 DEF Stage
    <3> QED
      BY <1>1, <1>3, <3>1, <3>2 DEF StepsLeft, StepsBefore
  <2>3. ~(\E e \in Events : Dispatch(e)) /\ ~StopLoops
    BY DEF Dispatch, StopLoops
  <2> QED
    BY <1>3, <2>1, <2>2, <2>3, NextOutside DEF OutsideStep
<1> QED
  BY <1>2, <1>3

(* No loop is forgotten: what it awaits is queued or in hand, so an answer *)
(* to it is still to come, in every state, whatever failed, was refused or *)
(* was stopped meanwhile; and each step of the actor brings it nearer by   *)
(* the queue's order, while nothing else puts it off.  With the fairness   *)
(* of ActorStep this is what makes EveryAnswered true.                     *)
THEOREM AnswerNearsAlways == Spec => []Awaited /\ AnswerNears
<1> DEFINE Nears == \A c \in Channels : \A i \in 0 .. Len(mailbox) :
               waiting[c] # None /\ Place(waiting[c], i) => waiting'[c] # waiting[c] \/ Nearer(c, i)
<1>1. TypeOK /\ TypeOK' /\ Awaited /\ [Next]_vars => Nears
  BY NextNearer
<1> HIDE DEF Nears
<1>2. TypeOK /\ TypeOK' /\ Awaited /\ [Next]_vars => [Nears]_vars
  BY <1>1
<1>3. Spec => [][Nears]_vars
  BY <1>2, AwaitedAlways, PTL DEF Spec
<1>4. Spec => []Awaited
  BY AwaitedAlways, PTL
<1> QED
  BY <1>3, <1>4, PTL DEF AnswerNears, Nears

(* Once the loops are stopped the actor's work only gets less: nothing is  *)
(* queued any more, and every step handles or refuses something.  With the *)
(* fairness of ActorStep, BeginDrain and Exit it makes DrainEnds true.     *)
THEOREM DrainShrinksAlways == Spec => DrainShrinks
<1> DEFINE Shrinks == daemon # "up" =>
               StepsLeft' <= StepsLeft /\ (ActorStep => StepsLeft' < StepsLeft)
<1>1. TypeOK /\ TypeOK' /\ [Next]_vars => Shrinks
  BY DrainStep
<1> HIDE DEF Shrinks
<1>2. TypeOK /\ TypeOK' /\ [Next]_vars => [Shrinks]_vars
  BY <1>1
<1>3. Spec => [][Shrinks]_vars
  BY <1>2, AwaitedAlways, PTL DEF Spec
<1> QED
  BY <1>3, PTL DEF DrainShrinks, Shrinks

-----------------------------------------------------------------------------
(* The channels people talk through (Chat): what is in the inbox has       *)
(* somebody who waits for it.                                              *)

Posts == [from : Clients \cup {Telegram}, id : Nat]

Servers == [pc : {"listen", "greet", "read", "dispatch", "cancelled"},
            serves : Clients \cup {Nobody}, part : BOOLEAN]
Pollers == [offset : Nat, batch : Seq(Nat), pc : {"next", "dispatch", "reply"}, attempts : Nat]

(* What the socket and the long poll are like; the updates of a batch are  *)
(* still at Telegram.                                                      *)
ChatShapes ==
    /\ inbox \in Seq(Posts)
    /\ backlog \in Seq(Clients)
    /\ server \in Servers
    /\ server.pc # "listen" => server.serves \in Clients
    /\ service \in [updates : Nat, forgotten : Nat]
    /\ poller \in Pollers
    /\ \A i \in 1 .. Len(poller.batch) : poller.batch[i] > service.forgotten

(* The one who waits for the end of a post. *)
Companion(post) ==
    /\ post.from = Telegram => /\ poller.pc = "dispatch" /\ poller.offset = post.id + 1
                               /\ service.forgotten < post.id
    /\ post.from # Telegram => /\ server.pc \in {"greet", "dispatch", "cancelled"}
                               /\ server.serves = post.from

Single == \A i, k \in 1 .. Len(inbox) : inbox[i].from = inbox[k].from => k = i

ChatInv == ChatShapes /\ Single /\ \A i \in 1 .. Len(inbox) : Companion(inbox[i])

LEMMA AccompaniedIs ==
  ASSUME ChatInv PROVE Accompanied
<1>1. DOMAIN inbox = 1 .. Len(inbox) BY DEF ChatInv, ChatShapes
<1> QED BY <1>1 DEF ChatInv, Single, Companion, Accompanied

(* Nobody waits twice. *)
LEMMA SendIs ==
  ASSUME inbox \in Seq(Posts), Single, NEW from \in Clients \cup {Telegram}, NEW id \in Nat,
         ~ Awaits(from), Send(from, id)
  PROVE /\ inbox' \in Seq(Posts) /\ Single'
        /\ \A i \in 1 .. Len(inbox) : inbox'[i] = inbox[i]
        /\ \A i \in 1 .. Len(inbox') : \/ i \in 1 .. Len(inbox) /\ inbox'[i] = inbox[i]
                                       \/ inbox'[i] = [from |-> from, id |-> id]
<1> DEFINE post == [from |-> from, id |-> id]
<1>1. post \in Posts /\ post.from = from BY DEF Posts
<1>2. inbox' = Append(inbox, post) BY DEF Send
<1> HIDE DEF post
<1>3. /\ inbox' \in Seq(Posts) /\ Len(inbox') = Len(inbox) + 1 /\ Len(inbox) \in Nat
      /\ \A i \in 1 .. Len(inbox) : inbox'[i] = inbox[i]
      /\ inbox'[Len(inbox) + 1] = post
  BY <1>1, <1>2
<1>4. \A i \in 1 .. Len(inbox) : inbox[i].from # from
  <2>1. DOMAIN inbox = 1 .. Len(inbox) OBVIOUS
  <2> QED BY <2>1 DEF Awaits
<1>5. \A i \in 1 .. Len(inbox') : i \in 1 .. Len(inbox) \/ i = Len(inbox) + 1
  BY <1>3
<1>6. Single' BY <1>1, <1>3, <1>4, <1>5 DEF Single
<1> QED BY <1>3, <1>5, <1>6 DEF post

(* A step that sends nothing keeps the companions it does not move. *)
LEMMA SameInbox ==
  ASSUME ChatInv, inbox' = inbox, ChatShapes',
         \A i \in 1 .. Len(inbox) : Companion(inbox[i])'
  PROVE ChatInv'
BY DEF ChatInv, Single

(* What is sent has its companion. *)
LEMMA SentInbox ==
  ASSUME ChatInv, NEW from \in Clients \cup {Telegram}, NEW id \in Nat, ~ Awaits(from),
         Send(from, id), inbox' \in Seq(Posts) => ChatShapes',
         NEW post \in Posts, post = [from |-> from, id |-> id], Companion(post)',
         \A i \in 1 .. Len(inbox) : Companion(inbox[i])'
  PROVE ChatInv'
<1>1. /\ inbox' \in Seq(Posts) /\ Single'
      /\ \A i \in 1 .. Len(inbox') : \/ i \in 1 .. Len(inbox) /\ inbox'[i] = inbox[i]
                                     \/ inbox'[i] = post
  BY SendIs DEF ChatInv, ChatShapes
<1>2. ASSUME NEW i \in 1 .. Len(inbox') PROVE Companion(inbox[i])'
  <2>1. CASE i \in 1 .. Len(inbox) /\ inbox'[i] = inbox[i] BY <2>1 DEF Companion
  <2>2. CASE inbox'[i] = post BY <2>2 DEF Companion
  <2> QED BY <1>1, <2>1, <2>2
<1> QED BY <1>1, <1>2 DEF ChatInv

(* The agent is done with the first post. *)
LEMMA AgentRepliesKeeps == ASSUME ChatInv, AgentReplies PROVE ChatInv'
<1>1. /\ inbox \in Seq(Posts) /\ inbox # <<>> /\ inbox' = Tail(inbox)
      /\ UNCHANGED <<backlog, server, service, poller>>
  BY DEF ChatInv, ChatShapes, AgentReplies, socketVars, telegramVars
<1>2. /\ inbox' \in Seq(Posts) /\ Len(inbox') = Len(inbox) - 1 /\ Len(inbox) \in Nat
      /\ \A i \in 1 .. Len(inbox') : i + 1 \in 1 .. Len(inbox) /\ inbox'[i] = inbox[i + 1]
  BY <1>1
<1>3. ChatShapes' BY <1>1, <1>2 DEF ChatInv, ChatShapes
<1>4. Single'
  <2> SUFFICES ASSUME NEW i \in 1 .. Len(inbox'), NEW k \in 1 .. Len(inbox'),
                      inbox'[i].from = inbox'[k].from
               PROVE k = i
    BY DEF Single
  <2>1. k + 1 = i + 1 BY <1>2 DEF ChatInv, Single
  <2> QED BY <1>2, <2>1
<1>5. ASSUME NEW i \in 1 .. Len(inbox') PROVE Companion(inbox[i])'
  <2>1. Companion(inbox[i + 1]) BY <1>2, <1>5 DEF ChatInv
  <2>2. inbox'[i] = inbox[i + 1] BY <1>2
  <2> QED BY <1>1, <2>1, <2>2 DEF Companion
<1> QED BY <1>3, <1>4, <1>5 DEF ChatInv

(* A client connects, writes or leaves. *)
LEMMA ClientKeeps ==
  ASSUME ChatInv, NEW c \in Clients, Connect(c) \/ WriteLine(c) \/ WriteRest(c) \/ Leave(c)
  PROVE ChatInv'
<1>1. UNCHANGED <<inbox, server, service, poller>> /\ backlog' \in {backlog, Append(backlog, c)}
  BY DEF Connect, WriteLine, WriteRest, Leave, telegramVars
<1>2. backlog \in Seq(Clients) BY DEF ChatInv, ChatShapes
<1>3. Append(backlog, c) \in Seq(Clients) BY <1>2
<1>4. backlog' \in Seq(Clients) BY <1>1, <1>2, <1>3
<1>5. ChatShapes' BY <1>1, <1>4 DEF ChatInv, ChatShapes
<1>6. \A i \in 1 .. Len(inbox) : Companion(inbox[i])' BY <1>1 DEF ChatInv, Companion
<1> QED BY <1>1, <1>5, <1>6, SameInbox

(* No client's post is left when none is waited for. *)
LEMMA NoClientPost ==
  ASSUME ChatInv, server.pc \in {"listen", "read"} \/ ~ Awaits(server.serves)
  PROVE \A i \in 1 .. Len(inbox) : inbox[i].from = Telegram
<1>1. DOMAIN inbox = 1 .. Len(inbox) BY DEF ChatInv, ChatShapes
<1> QED BY <1>1 DEF ChatInv, Companion, Awaits

(* The server goes on, with nothing new for the agent. *)
LEMMA ServerKeeps ==
  ASSUME ChatInv, UNCHANGED <<inbox, service, poller>>, backlog' \in Seq(Clients),
         server' = Listening \/
           (\E pc \in {"greet", "read", "dispatch", "cancelled"}, part \in BOOLEAN :
              server.pc # "listen" /\ server' = [server EXCEPT !.pc = pc, !.part = part]),
         \/ server.pc \in {"listen", "read"} \/ ~ Awaits(server.serves)
         \/ server'.pc = "cancelled" /\ server'.serves = server.serves
  PROVE ChatInv'
<1>1. ChatShapes'
  <2>1. /\ server \in Servers
        /\ server.pc # "listen" => server.serves \in Clients
    BY DEF ChatInv, ChatShapes
  <2>2. CASE server' = Listening
    <3>1. server' \in Servers /\ server'.pc = "listen" BY <2>2 DEF Listening, Servers
    <3> QED BY <3>1 DEF ChatInv, ChatShapes
  <2>3. CASE \E pc \in {"greet", "read", "dispatch", "cancelled"}, part \in BOOLEAN :
               server.pc # "listen" /\ server' = [server EXCEPT !.pc = pc, !.part = part]
    <3>1. server' \in Servers /\ server'.serves = server.serves /\ server.pc # "listen"
      BY <2>1, <2>3 DEF Servers
    <3> QED BY <2>1, <3>1 DEF ChatInv, ChatShapes
  <2> QED BY <2>2, <2>3
<1>2. \A i \in 1 .. Len(inbox) : Companion(inbox[i])'
  <2>1. CASE server.pc \in {"listen", "read"} \/ ~ Awaits(server.serves)
    BY <2>1, NoClientPost DEF ChatInv, Companion
  <2>2. CASE server'.pc = "cancelled" /\ server'.serves = server.serves
    BY <2>2 DEF ChatInv, Companion
  <2> QED BY <2>1, <2>2
<1> QED BY <1>1, <1>2, SameInbox

LEMMA ServerStepKeeps ==
  ASSUME ChatInv, ServerStep PROVE ChatInv'
<1> USE ChatAssumption
<1>1. /\ backlog \in Seq(Clients) /\ server.part \in BOOLEAN
      /\ server \in Servers
      /\ server.pc # "listen" => server.serves \in Clients
      /\ backlog # <<>> => Head(backlog) \in Clients /\ Tail(backlog) \in Seq(Clients)
  BY DEF ChatInv, ChatShapes, Servers
<1>2. \A p \in {"greet", "read", "dispatch", "cancelled"} :
         [server EXCEPT !.pc = p] = [server EXCEPT !.pc = p, !.part = server.part]
  BY <1>1 DEF Servers
<1>3. \A part \in BOOLEAN : server.pc = "read" =>
         [server EXCEPT !.part = part] = [server EXCEPT !.pc = "read", !.part = part]
  BY <1>1 DEF Servers
<1>4. CASE Accept
  <2>1. /\ server.pc = "listen" /\ backlog # <<>> /\ backlog' = Tail(backlog)
        /\ server' = [Listening EXCEPT !.pc = "greet", !.serves = Head(backlog)]
        /\ Send(Head(backlog), 0) /\ UNCHANGED <<service, poller>>
    BY <1>4 DEF Accept, telegramVars
  <2>2. /\ server' \in Servers
        /\ server'.pc = "greet" /\ server'.serves = Head(backlog)
    BY <1>1, <2>1 DEF Listening, Servers
  <2>3. inbox' \in Seq(Posts) => ChatShapes'
    BY <1>1, <2>1, <2>2 DEF ChatInv, ChatShapes
  <2>4. \A i \in 1 .. Len(inbox) : inbox[i].from = Telegram BY <2>1, NoClientPost
  <2>5. ~ Awaits(Head(backlog))
    <3>1. DOMAIN inbox = 1 .. Len(inbox) BY DEF ChatInv, ChatShapes
    <3> QED BY <1>1, <2>1, <2>4, <3>1 DEF Awaits
  <2>6. \A i \in 1 .. Len(inbox) : Companion(inbox[i])'
    <3>1. \A i \in 1 .. Len(inbox) : inbox'[i] = inbox[i]
      BY <1>1, <2>1, <2>5, SendIs DEF ChatInv, ChatShapes
    <3> QED BY <2>1, <2>4, <3>1 DEF ChatInv, Companion
  <2>7. PICK post \in Posts : post = [from |-> Head(backlog), id |-> 0]
    BY <1>1, <2>1 DEF Posts
  <2>8. Companion(post)' BY <1>1, <2>1, <2>2, <2>7 DEF Companion
  <2> QED BY <1>1, <2>1, <2>3, <2>5, <2>6, <2>7, <2>8, SentInbox
<1>5. CASE RejectStranger
  <2>1. backlog' = Tail(backlog) /\ backlog # <<>> /\ UNCHANGED <<inbox, server, service, poller>>
    BY <1>5 DEF RejectStranger, telegramVars
  <2>2. ChatShapes' BY <1>1, <2>1 DEF ChatInv, ChatShapes
  <2>3. \A i \in 1 .. Len(inbox) : Companion(inbox[i])' BY <2>1 DEF ChatInv, Companion
  <2> QED BY <2>1, <2>2, <2>3, SameInbox
<1>6. CASE Greet
  <2>1. /\ server.pc = "greet" /\ ~ Awaits(server.serves)
        /\ server' = Listening \/ server' = [server EXCEPT !.pc = "read"]
        /\ UNCHANGED <<inbox, service, poller>> /\ backlog' = backlog
    BY <1>6 DEF Greet, Here, telegramVars
  <2> QED BY <1>1, <1>2, <2>1, ServerKeeps
<1>7. CASE RejectOther
  <2>1. /\ server.pc = "read" /\ server' = [server EXCEPT !.part = FALSE]
        /\ UNCHANGED <<inbox, service, poller>> /\ backlog # <<>> /\ backlog' = Tail(backlog)
    BY <1>7 DEF RejectOther, telegramVars
  <2> QED BY <1>1, <1>3, <2>1, ServerKeeps
<1>8. CASE ReadPart
  <2>1. /\ server.pc = "read" /\ server' = [server EXCEPT !.part = TRUE]
        /\ UNCHANGED <<inbox, service, poller>> /\ backlog' = backlog
    BY <1>8 DEF ReadPart, telegramVars
  <2> QED BY <1>1, <1>3, <2>1, ServerKeeps
<1>9. CASE ReadLine
  <2>1. /\ server.pc = "read" /\ UNCHANGED <<service, poller>> /\ backlog' = backlog
        /\ \/ /\ server' = [server EXCEPT !.pc = "dispatch", !.part = FALSE]
              /\ Send(server.serves, 0)
           \/ /\ server' = [server EXCEPT !.part = FALSE] /\ inbox' = inbox
    BY <1>9 DEF ReadLine, Here, telegramVars
  <2>2. CASE server' = [server EXCEPT !.part = FALSE] /\ inbox' = inbox
    BY <1>1, <1>3, <2>1, <2>2, ServerKeeps
  <2>3. CASE /\ server' = [server EXCEPT !.pc = "dispatch", !.part = FALSE]
             /\ Send(server.serves, 0)
    <3>1. /\ server' \in Servers
          /\ server'.pc = "dispatch" /\ server'.serves = server.serves
          /\ server.serves \in Clients
      BY <1>1, <2>1, <2>3 DEF Servers
    <3>2. inbox' \in Seq(Posts) => ChatShapes'
      BY <1>1, <2>1, <3>1 DEF ChatInv, ChatShapes
    <3>3. \A i \in 1 .. Len(inbox) : inbox[i].from = Telegram BY <2>1, NoClientPost
    <3>4. ~ Awaits(server.serves)
      <4>1. DOMAIN inbox = 1 .. Len(inbox) BY DEF ChatInv, ChatShapes
      <4> QED BY <3>1, <3>3, <4>1 DEF Awaits
    <3>5. \A i \in 1 .. Len(inbox) : Companion(inbox[i])'
      <4>1. \A i \in 1 .. Len(inbox) : inbox'[i] = inbox[i]
        BY <2>3, <3>1, <3>4, SendIs DEF ChatInv, ChatShapes
      <4> QED BY <2>1, <3>3, <4>1 DEF ChatInv, Companion
    <3>6. PICK post \in Posts : post = [from |-> server.serves, id |-> 0]
      BY <3>1 DEF Posts
    <3>7. Companion(post)' BY <3>1, <3>6 DEF Companion
    <3> QED BY <2>3, <3>1, <3>2, <3>4, <3>5, <3>6, <3>7, SentInbox
  <2> QED BY <2>1, <2>2, <2>3
<1>10. CASE ReadEof
  <2>1. /\ server.pc = "read" /\ server' = Listening
        /\ UNCHANGED <<inbox, service, poller>> /\ backlog' = backlog
    BY <1>10 DEF ReadEof, telegramVars
  <2> QED BY <1>1, <2>1, ServerKeeps
<1>11. CASE Respond
  <2>1. /\ server.pc = "dispatch" /\ ~ Awaits(server.serves)
        /\ server' = [server EXCEPT !.pc = "read"]
        /\ UNCHANGED <<inbox, service, poller>> /\ backlog' = backlog
    BY <1>11 DEF Respond, Here, telegramVars
  <2> QED BY <1>1, <1>2, <2>1, ServerKeeps
<1>12. CASE Cancel
  <2>1. /\ server.pc = "dispatch" /\ server' = [server EXCEPT !.pc = "cancelled"]
        /\ UNCHANGED <<inbox, service, poller>> /\ backlog' = backlog
    BY <1>12 DEF Cancel, telegramVars
  <2>2. server'.pc = "cancelled" /\ server'.serves = server.serves BY <1>1, <2>1 DEF Servers
  <2> QED BY <1>1, <1>2, <2>1, <2>2, ServerKeeps
<1>13. CASE TurnCancelled
  <2>1. /\ server.pc = "cancelled" /\ ~ Awaits(server.serves) /\ server' = Listening
        /\ UNCHANGED <<inbox, service, poller>> /\ backlog' = backlog
    BY <1>13 DEF TurnCancelled, Here, telegramVars
  <2> QED BY <1>1, <2>1, ServerKeeps
<1> QED
  BY <1>4, <1>5, <1>6, <1>7, <1>8, <1>9, <1>10, <1>11, <1>12, <1>13 DEF ServerStep

(* The long poll goes on, with nothing new for the agent. *)
LEMMA PollerKeeps ==
  ASSUME ChatInv, UNCHANGED <<inbox, backlog, server>>, poller' \in Pollers,
         service' \in [updates : Nat, forgotten : Nat],
         \A i \in 1 .. Len(poller'.batch) : poller'.batch[i] > service'.forgotten,
         \/ poller.pc # "dispatch"
         \/ ~ Awaits(Telegram)
         \/ poller'.pc = poller.pc /\ poller'.offset = poller.offset
            /\ service'.forgotten = service.forgotten
  PROVE ChatInv'
<1>1. ChatShapes' BY DEF ChatInv, ChatShapes
<1>2. \A i \in 1 .. Len(inbox) : Companion(inbox[i])'
  <2>1. CASE poller.pc # "dispatch" \/ ~ Awaits(Telegram)
    <3>1. DOMAIN inbox = 1 .. Len(inbox) BY DEF ChatInv, ChatShapes
    <3>2. \A i \in 1 .. Len(inbox) : inbox[i].from # Telegram
      BY <2>1, <3>1 DEF ChatInv, Companion, Awaits
    <3> QED BY <3>2 DEF ChatInv, Companion
  <2>2. CASE poller'.pc = poller.pc /\ poller'.offset = poller.offset
             /\ service'.forgotten = service.forgotten
    BY <2>2 DEF ChatInv, Companion
  <2> QED BY <2>1, <2>2
<1> QED BY <1>1, <1>2, SameInbox

(* What getUpdates answers is above what it forgets. *)
LEMMA NewsIs ==
  ASSUME NEW forgotten \in Nat, NEW updates \in Nat
  PROVE LET news == [i \in 1 .. (updates - forgotten) |-> forgotten + i]
        IN  news \in Seq(Nat) /\ \A i \in 1 .. Len(news) : news[i] > forgotten
<1> DEFINE news == [i \in 1 .. (updates - forgotten) |-> forgotten + i]
           n == IF updates > forgotten THEN updates - forgotten ELSE 0
<1>1. n \in Nat /\ 1 .. (updates - forgotten) = 1 .. n OBVIOUS
<1>2. /\ news \in [1 .. n -> Nat]
      /\ \A i \in 1 .. n : news[i] = forgotten + i
  BY <1>1
<1> HIDE DEF news, n
<1>3. news \in Seq(Nat) /\ Len(news) = n BY <1>1, <1>2, SeqDef, LenProperties
<1>4. \A i \in 1 .. Len(news) : news[i] > forgotten BY <1>1, <1>2, <1>3
<1> QED BY <1>3, <1>4 DEF news

LEMMA LongPollKeeps ==
  ASSUME ChatInv, Arrive \/ PollerStep PROVE ChatInv'
<1> USE ChatAssumption
<1>1. /\ poller \in Pollers /\ service \in [updates : Nat, forgotten : Nat]
      /\ service.updates \in Nat /\ service.forgotten \in Nat /\ poller.offset \in Nat
      /\ poller.batch \in Seq(Nat) /\ poller.attempts \in Nat
      /\ \A i \in 1 .. Len(poller.batch) : poller.batch[i] > service.forgotten
  BY DEF ChatInv, ChatShapes, Pollers
<1>2. CASE Arrive
  <2>1. /\ service' = [service EXCEPT !.updates = @ + 1]
        /\ UNCHANGED <<poller, inbox, backlog, server>>
    BY <1>2 DEF Arrive, socketVars
  <2>2. service' \in [updates : Nat, forgotten : Nat] /\ service'.forgotten = service.forgotten
    BY <1>1, <2>1
  <2> QED BY <1>1, <2>1, <2>2, PollerKeeps
<1>3. CASE Poll
  <2> DEFINE forgotten == IF poller.offset - 1 > service.forgotten THEN poller.offset - 1
                          ELSE service.forgotten
             news == [i \in 1 .. (service.updates - forgotten) |-> forgotten + i]
  <2>1. /\ poller.pc = "next" /\ UNCHANGED <<inbox, backlog, server>>
        /\ service' = [service EXCEPT !.forgotten = forgotten]
        /\ \E answer \in {news, <<>>} : poller' = [poller EXCEPT !.batch = answer]
    BY <1>3 DEF Poll, socketVars
  <2>2. forgotten \in Nat BY <1>1
  <2>3. news \in Seq(Nat) /\ \A i \in 1 .. Len(news) : news[i] > forgotten
    BY <1>1, <2>2, NewsIs
  <2> HIDE DEF news, forgotten
  <2>4. PICK answer \in {news, <<>>} : poller' = [poller EXCEPT !.batch = answer]
    BY <2>1
  <2>5. answer \in Seq(Nat) /\ \A i \in 1 .. Len(answer) : answer[i] > forgotten
    <3>1. <<>> \in Seq(Nat) /\ \A i \in 1 .. Len(<<>>) : <<>>[i] > forgotten OBVIOUS
    <3>2. CASE answer = news BY <2>3, <3>2
    <3>3. CASE answer = <<>> BY <3>1, <3>3
    <3> QED BY <2>4, <3>2, <3>3
  <2>6. poller' \in Pollers /\ poller'.batch = answer BY <1>1, <2>4, <2>5 DEF Pollers
  <2>7. service' \in [updates : Nat, forgotten : Nat] /\ service'.forgotten = forgotten
    BY <1>1, <2>1, <2>2
  <2> QED BY <2>1, <2>5, <2>6, <2>7, PollerKeeps
<1>4. CASE TakeUpdate
  <2>1. /\ poller.pc = "next" /\ poller.batch # <<>> /\ UNCHANGED <<service, backlog, server>>
        /\ \/ Take("dispatch") /\ Send(Telegram, Head(poller.batch))
           \/ (\E pc \in {"reply", "next"} : Take(pc)) /\ inbox' = inbox
    BY <1>4 DEF TakeUpdate, socketVars
  <2>2. /\ Head(poller.batch) \in Nat /\ Tail(poller.batch) \in Seq(Nat)
        /\ Head(poller.batch) > service.forgotten
        /\ \A i \in 1 .. Len(Tail(poller.batch)) : Tail(poller.batch)[i] > service.forgotten
    <3>1. /\ Len(Tail(poller.batch)) = Len(poller.batch) - 1 /\ Len(poller.batch) \in Nat
          /\ Len(poller.batch) # 0
          /\ \A i \in 1 .. Len(Tail(poller.batch)) : Tail(poller.batch)[i] = poller.batch[i + 1]
          /\ Head(poller.batch) = poller.batch[1]
          /\ Head(poller.batch) \in Nat /\ Tail(poller.batch) \in Seq(Nat)
      BY <1>1, <2>1
    <3> QED BY <1>1, <3>1
  <2>3. ASSUME NEW pc \in {"dispatch", "reply", "next"}, Take(pc)
        PROVE /\ poller' \in Pollers /\ poller'.pc = pc
              /\ poller'.offset = Head(poller.batch) + 1
              /\ poller'.batch = Tail(poller.batch)
    <3>1. poller' = [poller EXCEPT !.offset = Head(poller.batch) + 1,
                                   !.batch = Tail(poller.batch), !.pc = pc]
      BY <1>1, <2>3 DEF Take
    <3>2. Head(poller.batch) + 1 \in Nat BY <2>2
    <3> HIDE DEF Take
    <3> QED BY <1>1, <2>2, <2>3, <3>1, <3>2 DEF Pollers
  <2>4. CASE (\E pc \in {"reply", "next"} : Take(pc)) /\ inbox' = inbox
    <3>1. poller' \in Pollers /\ poller'.batch = Tail(poller.batch) BY <2>3, <2>4
    <3> QED BY <1>1, <2>1, <2>2, <2>4, <3>1, PollerKeeps
  <2>5. CASE Take("dispatch") /\ Send(Telegram, Head(poller.batch))
    <3>1. /\ poller' \in Pollers /\ poller'.pc = "dispatch"
          /\ poller'.offset = Head(poller.batch) + 1 /\ poller'.batch = Tail(poller.batch)
      BY <2>3, <2>5
    <3>2. inbox' \in Seq(Posts) => ChatShapes'
      BY <2>1, <2>2, <3>1 DEF ChatInv, ChatShapes
    <3>3. \A i \in 1 .. Len(inbox) : inbox[i].from # Telegram
      BY <2>1 DEF ChatInv, Companion
    <3>4. ~ Awaits(Telegram)
      <4>1. DOMAIN inbox = 1 .. Len(inbox) BY DEF ChatInv, ChatShapes
      <4> QED BY <3>3, <4>1 DEF Awaits
    <3>5. \A i \in 1 .. Len(inbox) : Companion(inbox[i])'
      <4>1. \A i \in 1 .. Len(inbox) : inbox'[i] = inbox[i]
        BY <2>2, <2>5, <3>4, SendIs DEF ChatInv, ChatShapes
      <4> QED BY <2>1, <3>3, <4>1 DEF ChatInv, Companion
    <3>6. PICK post \in Posts : post = [from |-> Telegram, id |-> Head(poller.batch)]
      BY <2>2 DEF Posts
    <3>7. Companion(post)' BY <2>1, <2>2, <3>1, <3>6 DEF Companion
    <3> QED BY <2>2, <2>5, <3>2, <3>4, <3>5, <3>6, <3>7, SentInbox
  <2> QED BY <2>1, <2>4, <2>5
<1>5. CASE TurnEnded
  <2>1. /\ ~ Awaits(Telegram) /\ poller' = [poller EXCEPT !.pc = "reply"]
        /\ UNCHANGED <<service, inbox, backlog, server>>
    BY <1>5 DEF TurnEnded, socketVars
  <2>2. poller' \in Pollers /\ poller'.batch = poller.batch BY <1>1, <2>1 DEF Pollers
  <2> QED BY <1>1, <2>1, <2>2, PollerKeeps
<1>6. CASE SendReply
  <2>1. /\ poller.pc = "reply" /\ UNCHANGED <<service, inbox, backlog, server>>
        /\ \/ poller' = [poller EXCEPT !.pc = "next", !.attempts = 0]
           \/ poller' = [poller EXCEPT !.attempts = poller.attempts + 1]
    BY <1>6 DEF SendReply, socketVars
  <2>2. poller.attempts + 1 \in Nat BY <1>1
  <2>3. poller' \in Pollers /\ poller'.batch = poller.batch
    <3>1. CASE poller' = [poller EXCEPT !.pc = "next", !.attempts = 0]
      BY <1>1, <3>1 DEF Pollers
    <3>2. CASE poller' = [poller EXCEPT !.attempts = poller.attempts + 1]
      BY <1>1, <2>2, <3>2 DEF Pollers
    <3> QED BY <2>1, <3>1, <3>2
  <2> QED BY <1>1, <2>1, <2>3, PollerKeeps
<1> QED BY <1>2, <1>3, <1>4, <1>5, <1>6 DEF PollerStep

(* Before the first step, and after a crash, nothing is waited for. *)
LEMMA NobodyWaits ==
  /\ Listening \in Servers /\ Listening.pc = "listen"
  /\ Polling \in Pollers /\ Polling.batch = <<>>
<1>1. <<>> \in Seq(Nat) OBVIOUS
<1> QED BY <1>1 DEF Listening, Polling, Servers, Pollers

LEMMA ChatInitHolds == ChatInit => ChatInv
<1> SUFFICES ASSUME ChatInit PROVE ChatInv OBVIOUS
<1>1. /\ backlog = <<>> /\ server = Listening /\ inbox = <<>> /\ poller = Polling
      /\ service = [updates |-> 0, forgotten |-> 0]
  BY DEF ChatInit
<1>2. service \in [updates : Nat, forgotten : Nat] BY <1>1
<1>3. ChatShapes BY <1>1, <1>2, NobodyWaits DEF ChatShapes
<1> QED BY <1>1, <1>3 DEF ChatInv, Single

LEMMA ChatNextKeeps == ChatInv /\ [ChatNext]_chatVars => ChatInv'
<1> USE ChatAssumption
<1> SUFFICES ASSUME ChatInv, [ChatNext]_chatVars PROVE ChatInv' OBVIOUS
<1>1. CASE UNCHANGED chatVars
  <2>1. UNCHANGED <<backlog, server, inbox, service, poller>> BY <1>1 DEF chatVars
  <2> QED BY <2>1 DEF ChatInv, ChatShapes, Single, Companion
<1>2. CASE AgentReplies BY <1>2, AgentRepliesKeeps
<1>3. CASE \E c \in Clients : Connect(c) \/ WriteLine(c) \/ WriteRest(c) \/ Leave(c)
  BY <1>3, ClientKeeps
<1>4. CASE ServerStep BY <1>4, ServerStepKeeps
<1>5. CASE Arrive \/ PollerStep BY <1>5, LongPollKeeps
<1>6. CASE KillDaemon
  <2>1. /\ backlog' = <<>> /\ server' = Listening /\ inbox' = <<>> /\ poller' = Polling
        /\ service' = service
    BY <1>6 DEF KillDaemon
  <2>2. ChatShapes' BY <2>1, NobodyWaits DEF ChatInv, ChatShapes
  <2> QED BY <2>1, <2>2 DEF ChatInv, Single
<1> QED BY <1>1, <1>2, <1>3, <1>4, <1>5, <1>6 DEF ChatNext

(* Whatever waits in the agent's inbox, somebody waits for: a client's     *)
(* line the socket that serves this client or sees its cancelled turn out  *)
(* (channel/socket.rs, serve), and an update the long poll that has not    *)
(* confirmed it to Telegram (channel/telegram.rs, poll_loop); nobody has   *)
(* two.                                                                    *)
THEOREM ChatAccompanied == ChatSpec => []Accompanied
<1>1. ChatInit => ChatInv BY ChatInitHolds
<1>2. ChatInv /\ [ChatNext]_chatVars => ChatInv' BY ChatNextKeeps
<1>3. ChatInv => Accompanied BY AccompaniedIs
<1> QED BY <1>1, <1>2, <1>3, PTL DEF ChatSpec

-----------------------------------------------------------------------------
(* Whoever waits at the socket has a place: what Answered rests on.        *)

(* A client that connected and waits is in the listening socket's queue or  *)
(* is being greeted; one that asked is the one that is served, and its line *)
(* is to be completed, to be read, or with the agent.                       *)
Heard == \A c \in Clients :
    /\ client[c].state = "queued" =>
           \/ \E i \in 1 .. Len(backlog) : backlog[i] = c
           \/ server.pc = "greet" /\ server.serves = c
    /\ client[c].asked /\ client[c].state # "closed" =>
           /\ client[c].state = "greeted" /\ server.serves = c
           /\ \/ server.pc = "read" /\ (client[c].rest \/ "tail" \in client[c].unread)
              \/ server.pc = "dispatch"

Persons == [state : {"out", "queued", "greeted", "closed"}, allowed : BOOLEAN, lines : Nat,
            asked : BOOLEAN, unread : SUBSET {"head", "tail"}, rest : BOOLEAN]

(* What kchat's side `p` of connection c means for the queue b and the      *)
(* server s: only who is served has been greeted.                           *)
Lined(c, b) == \E i \in 1 .. Len(b) : b[i] = c
Faces(c, p, b, s) ==
    /\ p \in Persons
    /\ p.state = "queued" => \/ Lined(c, b)
                             \/ s.pc = "greet" /\ s.serves = c
    /\ p.asked => p.state \in {"greeted", "closed"}
    /\ p.state = "greeted" => /\ s.serves = c /\ s.pc \in {"read", "dispatch"}
                              /\ p.asked => s.pc = "dispatch" \/ p.rest \/ "tail" \in p.unread

HeardInv ==
    /\ client = [c \in Clients |-> client[c]]
    /\ \A c \in Clients : Faces(c, client[c], backlog, server)

LEMMA HeardIs == ASSUME HeardInv PROVE Heard
<1> SUFFICES ASSUME NEW c \in Clients
    PROVE  /\ client[c].state = "queued" =>
                  \/ \E i \in 1 .. Len(backlog) : backlog[i] = c
                  \/ server.pc = "greet" /\ server.serves = c
           /\ client[c].asked /\ client[c].state # "closed" =>
                  /\ client[c].state = "greeted" /\ server.serves = c
                  /\ \/ server.pc = "read" /\ (client[c].rest \/ "tail" \in client[c].unread)
                     \/ server.pc = "dispatch"
  BY DEF Heard
<1>1. Faces(c, client[c], backlog, server) BY DEF HeardInv
<1> QED BY <1>1 DEF Faces, Lined

(* The queue loses its first place only, and gains a last one. *)
LEMMA LinedTail ==
  ASSUME NEW b \in Seq(Clients), b # <<>>, NEW c, Lined(c, b), c # Head(b)
  PROVE  Lined(c, Tail(b))
<1>1. PICK i \in 1 .. Len(b) : b[i] = c BY DEF Lined
<1>2. i # 1 /\ Len(b) \in Nat BY <1>1
<1>3. i - 1 \in 1 .. Len(Tail(b)) /\ Tail(b)[i - 1] = c BY <1>1, <1>2
<1> QED BY <1>3 DEF Lined

LEMMA LinedAppend ==
  ASSUME NEW b \in Seq(Clients), NEW d \in Clients
  PROVE  /\ Lined(d, Append(b, d))
         /\ \A c : Lined(c, b) => Lined(c, Append(b, d))
<1>1. /\ Len(Append(b, d)) = Len(b) + 1 /\ Len(b) \in Nat /\ Append(b, d)[Len(b) + 1] = d
      /\ \A i \in 1 .. Len(b) : Append(b, d)[i] = b[i] /\ i \in 1 .. Len(b) + 1
  OBVIOUS
<1>2. Len(b) + 1 \in 1 .. Len(Append(b, d)) BY <1>1
<1>3. Lined(d, Append(b, d)) BY <1>1, <1>2 DEF Lined
<1>4. ASSUME NEW c, Lined(c, b) PROVE Lined(c, Append(b, d))
  <2>1. PICK i \in 1 .. Len(b) : b[i] = c BY <1>4 DEF Lined
  <2> QED BY <1>1, <2>1 DEF Lined
<1> QED BY <1>3, <1>4

(* A client connects, writes, writes the rest or leaves. *)
LEMMA ClientHeard ==
  ASSUME ChatInv, HeardInv, NEW c \in Clients, Connect(c) \/ WriteLine(c) \/ WriteRest(c) \/ Leave(c)
  PROVE  HeardInv'
<1>1. /\ Faces(c, client[c], backlog, server) /\ client[c] \in Persons /\ server' = server
      /\ backlog \in Seq(Clients) /\ backlog' \in {backlog, Append(backlog, c)}
  BY DEF HeardInv, Faces, ChatInv, ChatShapes, Connect, WriteLine, WriteRest, Leave
<1>2. \E p \in Persons : client' = [client EXCEPT ![c] = p] /\ Faces(c, p, backlog', server)
  <2>1. CASE Connect(c)
    <3>1. PICK allowed \in BOOLEAN : client' = [client EXCEPT ![c].state = "queued", ![c].allowed = allowed]
      BY <2>1 DEF Connect
    <3> DEFINE p == [client[c] EXCEPT !.state = "queued", !.allowed = allowed]
    <3>2. client' = [client EXCEPT ![c] = p] BY <3>1 DEF HeardInv
    <3>3. p \in Persons /\ p.state = "queued" /\ p.asked = client[c].asked BY <1>1 DEF Persons
    <3>4. ~client[c].asked BY <1>1, <2>1 DEF Connect, Faces
    <3>5. Lined(c, backlog') BY <1>1, <2>1, LinedAppend DEF Connect
    <3>6. Faces(c, p, backlog', server) BY <3>3, <3>4, <3>5 DEF Faces
    <3> QED BY <3>2, <3>3, <3>6
  <2>2. CASE WriteLine(c)
    <3>1. PICK whole \in BOOLEAN :
             client' = [client EXCEPT ![c].asked = TRUE, ![c].lines = @ + 1, ![c].rest = ~whole,
                            ![c].unread = IF whole THEN {"head", "tail"} ELSE {"head"}]
      BY <2>2 DEF WriteLine
    <3> DEFINE p == [client[c] EXCEPT !.asked = TRUE, !.lines = @ + 1, !.rest = ~whole,
                            !.unread = IF whole THEN {"head", "tail"} ELSE {"head"}]
    <3>2. client' = [client EXCEPT ![c] = p] BY <3>1 DEF HeardInv
    <3>3. client[c].lines + 1 \in Nat /\ client[c].state = "greeted" /\ backlog' = backlog
      <4>1. client[c].lines \in Nat BY <1>1 DEF Persons
      <4>2. client[c].state = "greeted" /\ backlog' = backlog BY <2>2 DEF WriteLine
      <4> QED BY <4>1, <4>2
    <3>4. p \in Persons /\ p.state = "greeted" /\ (p.rest \/ "tail" \in p.unread)
      BY <1>1, <3>3 DEF Persons
    <3>5. Faces(c, p, backlog', server) BY <1>1, <3>3, <3>4 DEF Faces
    <3> QED BY <3>2, <3>4, <3>5
  <2>3. CASE WriteRest(c)
    <3> DEFINE p == [client[c] EXCEPT !.unread = client[c].unread \cup {"tail"}, !.rest = FALSE]
    <3>1. client' = [client EXCEPT ![c] = p] /\ client[c].state = "greeted" /\ backlog' = backlog
      BY <2>3 DEF WriteRest, HeardInv
    <3>2. p \in Persons /\ p.state = "greeted" /\ "tail" \in p.unread BY <1>1, <3>1 DEF Persons
    <3>3. Faces(c, p, backlog', server) BY <1>1, <3>1, <3>2 DEF Faces
    <3> QED BY <3>1, <3>2, <3>3
  <2>4. CASE Leave(c)
    <3> DEFINE p == [client[c] EXCEPT !.state = "closed"]
    <3>1. client' = [client EXCEPT ![c] = p] BY <2>4 DEF Leave, HeardInv
    <3>2. p \in Persons /\ p.state = "closed" BY <1>1 DEF Persons
    <3>3. Faces(c, p, backlog', server) BY <3>2 DEF Faces
    <3> QED BY <3>1, <3>2, <3>3
  <2> QED BY <2>1, <2>2, <2>3, <2>4
<1>3. PICK p \in Persons : client' = [client EXCEPT ![c] = p] /\ Faces(c, p, backlog', server) BY <1>2
<1>4. \A d \in Clients : client'[d] = IF d = c THEN p ELSE client[d] BY <1>3 DEF HeardInv
<1>5. \A d \in Clients : Lined(d, backlog) => Lined(d, backlog') BY <1>1, LinedAppend
<1>6. ASSUME NEW d \in Clients PROVE Faces(d, client'[d], backlog', server)
  <2>1. CASE d = c BY <1>3, <1>4, <2>1
  <2>2. CASE d # c
    <3>1. Faces(d, client[d], backlog, server) BY DEF HeardInv
    <3> QED BY <1>4, <1>5, <2>2, <3>1 DEF Faces
  <2> QED BY <2>1, <2>2
<1>7. client' = [d \in Clients |-> client'[d]] BY <1>3 DEF HeardInv
<1> QED BY <1>1, <1>6, <1>7 DEF HeardInv

(* The server goes on with the client it serves, d being what becomes of    *)
(* that client; the others were not greeted.                                *)
LEMMA ServedHeard ==
  ASSUME HeardInv, backlog' = backlog, server.serves \in Clients,
         NEW p, client' = [client EXCEPT ![server.serves] = p],
         Faces(server.serves, p, backlog, server')
  PROVE  HeardInv'
<1>1. ASSUME NEW d \in Clients PROVE Faces(d, client'[d], backlog, server')
  <2>1. Faces(d, client[d], backlog, server) /\ client'[d] = IF d = server.serves THEN p ELSE client[d]
    BY DEF HeardInv
  <2>2. CASE d = server.serves BY <2>1, <2>2
  <2>3. CASE d # server.serves BY <2>1, <2>3 DEF Faces
  <2> QED BY <2>2, <2>3
<1>2. client' = [d \in Clients |-> client'[d]] BY DEF HeardInv
<1> QED BY <1>1, <1>2 DEF HeardInv

(* The first of the queue is turned away. *)
LEMMA RejectedHeard ==
  ASSUME ChatInv, HeardInv, backlog # <<>>, Rejected, backlog' = Tail(backlog),
         server'.pc = server.pc, server'.serves = server.serves
  PROVE  HeardInv'
<1>1. backlog \in Seq(Clients) BY DEF ChatInv, ChatShapes
<1>2. Head(backlog) \in Clients BY <1>1
<1> DEFINE h == Head(backlog)
           p == [client[h] EXCEPT !.state = "closed"]
<1>3. client' = [client EXCEPT ![h] = p] BY DEF Rejected, HeardInv
<1>4. Faces(h, client[h], backlog, server) BY <1>2 DEF HeardInv
<1>5. p \in Persons /\ p.state = "closed" BY <1>4 DEF Faces, Persons
<1> HIDE DEF p, h
<1>6. ASSUME NEW d \in Clients PROVE Faces(d, client'[d], backlog', server')
  <2>1. Faces(d, client[d], backlog, server) /\ client'[d] = IF d = h THEN p ELSE client[d]
    BY <1>3 DEF HeardInv
  <2>2. CASE d = h BY <1>5, <2>1, <2>2 DEF Faces
  <2>3. CASE d # h
    <3>1. Lined(d, backlog) => Lined(d, backlog') BY <1>1, <2>3, LinedTail DEF h
    <3> QED BY <2>1, <2>3, <3>1 DEF Faces
  <2> QED BY <2>2, <2>3
<1>7. client' = [d \in Clients |-> client'[d]] BY <1>3 DEF HeardInv
<1> QED BY <1>6, <1>7 DEF HeardInv

LEMMA ServerStepHeard == ASSUME ChatInv, HeardInv, ServerStep PROVE HeardInv'
<1> DEFINE h == server.serves
<1>1. /\ server \in Servers /\ backlog \in Seq(Clients)
      /\ server.pc # "listen" => h \in Clients
  BY DEF ChatInv, ChatShapes
<1>2. \A c \in Clients : Faces(c, client[c], backlog, server) /\ client[c] \in Persons
  BY DEF HeardInv, Faces
<1>3. client = [client EXCEPT ![h] = client[h]] BY DEF HeardInv
<1>4. CASE Accept
  <2>1. /\ server.pc = "listen" /\ backlog # <<>> /\ backlog' = Tail(backlog) /\ client' = client
        /\ server' = [Listening EXCEPT !.pc = "greet", !.serves = Head(backlog)]
    BY <1>4 DEF Accept
  <2>2. server'.pc = "greet" /\ server'.serves = Head(backlog) BY <2>1 DEF Listening
  <2>3. ASSUME NEW d \in Clients PROVE Faces(d, client[d], backlog', server')
    <3>1. d # Head(backlog) /\ Lined(d, backlog) => Lined(d, backlog') BY <1>1, <2>1, LinedTail
    <3> QED BY <1>2, <2>1, <2>2, <3>1 DEF Faces
  <2> QED BY <2>1, <2>3 DEF HeardInv
<1>5. CASE RejectStranger BY <1>5, RejectedHeard DEF RejectStranger
<1>6. CASE RejectOther
  <2>1. server'.pc = server.pc /\ server'.serves = server.serves BY <1>1, <1>6 DEF RejectOther, Servers
  <2> QED BY <1>6, <2>1, RejectedHeard DEF RejectOther
(* The client that is served is greeted, or gone. *)
<1>7. CASE Greet
  <2>1. server.pc = "greet" /\ h \in Clients /\ backlog' = backlog BY <1>1, <1>7 DEF Greet
  <2>2. CASE Gone
    <3>1. server' = Listening /\ client' = client /\ client[h].state = "closed"
      BY <1>7, <2>2 DEF Greet, Gone, Here
    <3>2. Faces(h, client[h], backlog, server') BY <1>2, <2>1, <3>1 DEF Faces
    <3> QED BY <1>3, <2>1, <3>1, <3>2, ServedHeard
  <2>3. CASE ~Gone
    <3> DEFINE p == [client[h] EXCEPT !.state = "greeted"]
    <3>1. server' = [server EXCEPT !.pc = "read"] /\ client' = [client EXCEPT ![h] = p]
      BY <1>7, <2>3 DEF Greet, Here, HeardInv
    <3>2. server'.pc = "read" /\ server'.serves = h BY <1>1, <3>1 DEF Servers
    <3>3. p \in Persons /\ p.state = "greeted" /\ p.asked = client[h].asked BY <1>2, <2>1 DEF Persons
    <3>4. ~client[h].asked
      <4>1. Faces(h, client[h], backlog, server) BY <1>2, <2>1
      <4>2. client[h].state # "closed" BY <2>3 DEF Gone, Here
      <4> QED BY <2>1, <4>1, <4>2 DEF Faces
    <3>5. Faces(h, p, backlog, server') BY <3>2, <3>3, <3>4 DEF Faces
    <3> HIDE DEF p
    <3> QED BY <2>1, <3>1, <3>5, ServedHeard
  <2> QED BY <2>2, <2>3
<1>8. CASE ReadPart
  <2> DEFINE p == [client[h] EXCEPT !.unread = {}]
  <2>1. /\ server.pc = "read" /\ h \in Clients /\ backlog' = backlog
        /\ client[h].unread = {"head"} /\ client' = [client EXCEPT ![h] = p]
        /\ server' = [server EXCEPT !.part = TRUE]
    BY <1>1, <1>8 DEF ReadPart, Here, HeardInv
  <2>2. server'.pc = "read" /\ server'.serves = h BY <1>1, <2>1 DEF Servers
  <2>3. /\ p \in Persons /\ p.state = client[h].state /\ p.asked = client[h].asked
        /\ p.rest = client[h].rest
    BY <1>2, <2>1 DEF Persons
  <2>4. Faces(h, client[h], backlog, server) BY <1>2, <2>1
  <2>5. Faces(h, p, backlog, server') BY <2>1, <2>2, <2>3, <2>4 DEF Faces
  <2> HIDE DEF p
  <2> QED BY <2>1, <2>5, ServedHeard
(* A line is read, or answered at once. *)
<1>9. CASE ReadLine
  <2>1. /\ server.pc = "read" /\ h \in Clients /\ backlog' = backlog
        /\ \/ /\ server' = [server EXCEPT !.pc = "dispatch", !.part = FALSE]
              /\ client' = [client EXCEPT ![h].unread = {}]
           \/ /\ server' = [server EXCEPT !.part = FALSE]
              /\ client' = [client EXCEPT ![h].asked = FALSE, ![h].unread = {}]
    BY <1>1, <1>9 DEF ReadLine, Frame, Here
  <2>2. Faces(h, client[h], backlog, server) /\ client[h] \in Persons BY <1>2, <2>1
  <2>3. CASE /\ server' = [server EXCEPT !.pc = "dispatch", !.part = FALSE]
             /\ client' = [client EXCEPT ![h].unread = {}]
    <3> DEFINE p == [client[h] EXCEPT !.unread = {}]
    <3>1. client' = [client EXCEPT ![h] = p] BY <2>3 DEF HeardInv
    <3>2. server'.pc = "dispatch" /\ server'.serves = h BY <1>1, <2>3 DEF Servers
    <3>3. p \in Persons /\ p.state = client[h].state /\ p.asked = client[h].asked
      BY <2>2 DEF Persons
    <3>4. Faces(h, p, backlog, server') BY <2>1, <2>2, <3>2, <3>3 DEF Faces
    <3> HIDE DEF p
    <3> QED BY <2>1, <3>1, <3>4, ServedHeard
  <2>4. CASE /\ server' = [server EXCEPT !.part = FALSE]
             /\ client' = [client EXCEPT ![h].asked = FALSE, ![h].unread = {}]
    <3> DEFINE p == [client[h] EXCEPT !.asked = FALSE, !.unread = {}]
    <3>1. client' = [client EXCEPT ![h] = p] BY <2>4 DEF HeardInv
    <3>2. server'.pc = "read" /\ server'.serves = h BY <1>1, <2>1, <2>4 DEF Servers
    <3>3. p \in Persons /\ p.state = client[h].state /\ ~p.asked BY <2>2 DEF Persons
    <3>4. Faces(h, p, backlog, server') BY <2>1, <2>2, <3>2, <3>3 DEF Faces
    <3> HIDE DEF p
    <3> QED BY <2>1, <3>1, <3>4, ServedHeard
  <2> QED BY <2>1, <2>3, <2>4
<1>10. CASE Respond
  <2> DEFINE p == [client[h] EXCEPT !.asked = FALSE, !.unread = {}]
  <2>1. /\ server.pc = "dispatch" /\ h \in Clients /\ backlog' = backlog
        /\ client' = [client EXCEPT ![h] = p]
        /\ server' = [server EXCEPT !.pc = "read"]
    BY <1>1, <1>10 DEF Respond, Frame, Here, HeardInv
  <2>2. server'.pc = "read" /\ server'.serves = h BY <1>1, <2>1 DEF Servers
  <2>3. Faces(h, client[h], backlog, server) /\ client[h] \in Persons BY <1>2, <2>1
  <2>4. p \in Persons /\ p.state = client[h].state /\ ~p.asked BY <2>3 DEF Persons
  <2>5. Faces(h, p, backlog, server') BY <2>1, <2>2, <2>3, <2>4 DEF Faces
  <2> HIDE DEF p
  <2> QED BY <2>1, <2>5, ServedHeard
(* The server lets go of a client that is gone, and of nobody else. *)
<1>11. CASE ReadEof \/ Cancel \/ TurnCancelled
  <2>1. /\ server.pc \in {"read", "dispatch", "cancelled"} /\ h \in Clients
        /\ backlog' = backlog /\ client' = client
    BY <1>1, <1>11 DEF ReadEof, Cancel, TurnCancelled
  <2>2. client[h].state \notin {"queued", "greeted"} \/ server.pc = "cancelled"
    BY <1>11 DEF ReadEof, Cancel, TurnCancelled, Gone, Here
  <2>3. Faces(h, client[h], backlog, server) BY <1>2, <2>1
  <2>4. Faces(h, client[h], backlog, server') BY <2>1, <2>2, <2>3 DEF Faces
  <2> QED BY <1>3, <2>1, <2>4, ServedHeard
<1> QED BY <1>4, <1>5, <1>6, <1>7, <1>8, <1>9, <1>10, <1>11 DEF ServerStep

LEMMA ChatNextHeard == ASSUME ChatInv, HeardInv, [ChatNext]_chatVars PROVE HeardInv'
<1>1. CASE AgentReplies \/ Arrive \/ PollerStep \/ UNCHANGED chatVars
  <2>1. UNCHANGED <<client, backlog, server>>
    BY <1>1 DEF AgentReplies, Arrive, PollerStep, Poll, TakeUpdate, TurnEnded, SendReply, socketVars, chatVars
  <2> QED BY <2>1 DEF HeardInv
<1>2. CASE \E c \in Clients : Connect(c) \/ WriteLine(c) \/ WriteRest(c) \/ Leave(c)
  BY <1>2, ClientHeard
<1>3. CASE ServerStep BY <1>3, ServerStepHeard
(* A crash closes every connection. *)
<1>4. CASE KillDaemon
  <2>1. client' = [c \in Clients |-> IF client[c].state = "out" THEN Out
                                     ELSE [client[c] EXCEPT !.state = "closed"]]
    BY <1>4 DEF KillDaemon
  <2>2. ASSUME NEW c \in Clients PROVE Faces(c, client'[c], backlog', server')
    <3>1. client[c] \in Persons BY DEF HeardInv, Faces
    <3>2. CASE client[c].state = "out" BY <2>1, <3>2 DEF Out, Faces, Persons
    <3>3. CASE client[c].state # "out"
      <4>1. client'[c] \in Persons /\ client'[c].state = "closed" BY <2>1, <3>1, <3>3 DEF Persons
      <4> QED BY <4>1 DEF Faces
    <3> QED BY <3>2, <3>3
  <2>3. client' = [c \in Clients |-> client'[c]] BY <2>1
  <2> QED BY <2>2, <2>3 DEF HeardInv
<1> QED BY <1>1, <1>2, <1>3, <1>4 DEF ChatNext

(* "Single client at a time" (channel/socket.rs, listen and serve): however *)
(* clients come, go, write in parts and are turned away, nobody is left     *)
(* waiting without a place.  A client that waits is queued, greeted next,   *)
(* or the one served, and a line that was asked is to be completed by its   *)
(* client, to be read by the server, or with the agent.                     *)
THEOREM ChatHeard == ChatSpec => []Heard
<1>1. ChatInit => ChatInv /\ HeardInv
  BY ChatInitHolds DEF ChatInit, HeardInv, Faces, Out, Persons
<1>2. ChatInv /\ HeardInv /\ [ChatNext]_chatVars => ChatInv' /\ HeardInv'
  BY ChatNextKeeps, ChatNextHeard
<1>3. HeardInv => Heard BY HeardIs
<1> QED BY <1>1, <1>2, <1>3, PTL DEF ChatSpec
=============================================================================
