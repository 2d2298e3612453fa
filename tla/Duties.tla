------------------------------- MODULE Duties -------------------------------
(***************************************************************************)
(* Scheduled work: the duty scheduler (src/duty) and the memory            *)
(* distillation that one of the duties starts (src/memory/distill.rs).     *)
(*                                                                         *)
(* The scheduler is one task.  It runs the duties that are due one after   *)
(* another, in the order they are declared, then sleeps until the next is  *)
(* due or an operator asks for a run.  A duty probes its source, may send a*)
(* turn to the agent and advances its cursor if the turn succeeded; the    *)
(* time of the run and the cursors are stored after each duty.  A pass of  *)
(* the distiller runs in the agent, whoever asked for it, and keeps a      *)
(* document of its own that every pass reads from the database.            *)
(*                                                                         *)
(* A source is a log that only grows: the commits of the repository, the   *)
(* bot's own record of problems, and the messages of each session.  A      *)
(* cursor is the number of items that are behind it.                       *)
(*                                                                         *)
(* Abstracted: one repository; an error file and the journal are one log,  *)
(* their two sections of the prompt one, and every symptom one token; every*)
(* message costs MessageTokens; the wall clock never goes back; the        *)
(* sessions are those of the engine that keeps all messages; the index     *)
(* compaction after a pass, which writes files of the workspace only, and  *)
(* all prompts.                                                            *)
(***************************************************************************)
EXTENDS Integers, Sequences, FiniteSets, FiniteSetsExt

CONSTANTS
    Rosters,        \* the duties an operator may configure, in their order
    NSessions,      \* sessions, numbered in the order of their names
    Day,            \* seconds in a day
    MaxSleep,       \* MAX_SLEEP_SECS
    MinDelta,       \* min_delta_tokens
    SectionItems,   \* symptoms that SECTION_MAX_BYTES of a prompt hold
    Threshold,      \* the distiller's gate
    SliceTokens,    \* what one pass may read
    MessageTokens,  \* tokens of a message
    TriggerSlots,   \* capacity of the trigger channel
    MaxClock,       \* seconds the model runs for
    MaxGrowth,      \* commits, symptoms and messages together
    MaxAsked,       \* operator commands
    MaxFaults       \* failing calls, failing writes, lost documents and kills

ASSUME DutiesAssumption ==
    /\ {NSessions, Day, MaxSleep, MinDelta, SectionItems, Threshold, SliceTokens,
        MessageTokens, TriggerSlots} \subseteq Nat \ {0}
    /\ {MaxClock, MaxGrowth, MaxAsked, MaxFaults} \subseteq Nat
    /\ \A r \in Rosters :
         /\ r \in Seq([kind : {"prompt", "review", "analysis", "warm", "distill"},
                            schedule : {"every", "daily"}, at : Nat])
         /\ r # <<>>     \* the daemon puts the distiller's duty first
         /\ \A i \in 1 .. Len(r) :
              IF r[i].schedule = "every" THEN r[i].at > 0 ELSE r[i].at < Day
         \* A cursor belongs to a duty; the model keeps one for each kind.
         /\ \A i, j \in 1 .. Len(r) :
              r[i].kind = r[j].kind /\ i # j => r[i].kind \in {"prompt", "distill"}

VARIABLES
    roster,    \* the configured duties
    clock,     \* seconds since the epoch
    logs,      \* how many items each source holds
    memory,    \* DutyState as the scheduler has it
    disk,      \* the two documents of the state database
    run,       \* where the scheduler is
    fold,      \* the distillation pass that the agent runs, if any
    triggers,  \* the trigger channel
    history,   \* what the properties remember
    used       \* growth, commands and faults so far

vars == <<roster, clock, logs, memory, disk, run, fold, triggers, history, used>>

Never == -1

Commits == <<"commits", 0>>
Symptoms == <<"symptoms", 0>>
Sessions == {<<"session", n>> : n \in 1 .. NSessions}
Sources == {Commits, Symptoms} \cup Sessions

Kinds == {"review", "analysis", "warm"}   \* the duties that keep a cursor
SourceOf == [review |-> Commits, analysis |-> Symptoms, warm |-> Commits]

Duties == 1 .. Len(roster)

Lower(m, n) == IF m <= n THEN m ELSE n
Higher(m, n) == IF m >= n THEN m ELSE n

-----------------------------------------------------------------------------
(* The two documents.                                                      *)

FreshState == [last |-> [i \in Duties |-> Never], cursor |-> [k \in Kinds |-> Never]]

\* DutyState::load: a missing or unreadable document starts fresh.
Load(docs) == IF docs = {} THEN FreshState ELSE CHOOSE doc \in docs : TRUE

\* Items of a source that a restart would find behind its cursor.
Stored(source) ==
    LET duties == Load(disk.duties)
        marks == IF disk.fold = {} THEN [s \in Sessions |-> Never]
                 ELSE (CHOOSE doc \in disk.fold : TRUE).marks
    IN  CASE source = Commits -> duties.cursor.review
          [] source = Symptoms -> duties.cursor.analysis
          [] OTHER -> marks[source]

Init ==
    /\ roster \in Rosters
    /\ clock = 0
    /\ logs = [s \in Sources |-> 0]
    /\ memory = FreshState
    /\ disk = [duties |-> {}, fold |-> {}]
    /\ run = [stage |-> "down", todo |-> {}, upTo |-> 0, wake |-> 0]
    /\ fold = [stage |-> "idle", duty |-> FALSE, marks |-> <<>>, take |-> <<>>,
               last |-> 0]
    /\ triggers = <<>>
    /\ history = [handled |-> [s \in Sources |-> {}],
                  skipped |-> [s \in Sources |-> {}],
                  evicted |-> {},
                  redo |-> [s \in Sources |-> {}],
                  twice |-> {},
                  ran |-> [i \in Duties |-> Never],
                  waited |-> [s \in Sessions |-> 0]]
    /\ used = [growth |-> 0, asked |-> 0, faults |-> 0]

\* Charging one of the bounds.
Use(what) ==
    /\ used[what] < CASE what = "growth" -> MaxGrowth
                      [] what = "asked" -> MaxAsked
                      [] OTHER -> MaxFaults
    /\ used' = [used EXCEPT ![what] = @ + 1]

-----------------------------------------------------------------------------
(* What a turn that succeeded leaves in the history.                       *)

\* Items went through a turn: a set of them for each source the turn read.
Handle(h, items) ==
    [h EXCEPT !.handled = [s \in Sources |->
                  IF s \in DOMAIN items THEN @[s] \cup items[s] ELSE @[s]],
              !.twice = @ \cup UNION {{<<s, i>> :
                  i \in (items[s] \cap h.handled[s]) \ h.redo[s]} : s \in DOMAIN items}]

\* A source was primed: what it held is nobody's to handle.
Skip(h, source, from, to) ==
    [h EXCEPT !.skipped[source] = @ \cup ((from + 1) .. to)]

\* What the turn was not given, although the cursor passes it.
Evict(h, source, from, to) ==
    [Skip(h, source, from, to) EXCEPT !.evicted = @ \cup ((from + 1) .. to)]

\* What was handled but is ahead of the cursor that will be loaded next.
Forgotten(h, sources) ==
    [h EXCEPT !.redo = [s \in Sources |->
        IF s \in sources THEN @[s] \cup {i \in h.handled[s] : i > Stored(s)}
                         ELSE @[s]]]

-----------------------------------------------------------------------------
(* The schedule.                                                           *)

\* A daily duty's time of day passed over when it falls on the last run.
NextDueSameInstant(duty, last, now) ==
    LET today == (last - (last % Day)) + duty.at
    IN  IF last = Never THEN now
        ELSE IF duty.schedule = "every" THEN last + duty.at
        ELSE IF today >= last THEN today ELSE today + Day

\* Schedule::next_due.
NextDue(duty, last, now) ==
    LET today == (last - (last % Day)) + duty.at
    IN  IF last = Never THEN now
        ELSE IF duty.schedule = "every" THEN last + duty.at
        ELSE IF today > last THEN today ELSE today + Day

\* due.
DueNow == {i \in Duties : NextDue(roster[i], memory.last[i], clock) <= clock}

\* next_wake, at most MaxSleep ahead.
NextWake ==
    LET waits == {Higher(NextDue(roster[i], memory.last[i], clock) - clock, 0) : i \in Duties}
        soonest == IF waits = {} THEN MaxSleep
                   ELSE CHOOSE w \in waits : \A v \in waits : w <= v
    IN  clock + Higher(1, Lower(soonest, MaxSleep))

-----------------------------------------------------------------------------
(* The loop.                                                               *)

Boot ==
    /\ run.stage = "down"
    /\ memory' = Load(disk.duties)
    /\ run' = [run EXCEPT !.stage = "check"]
    /\ UNCHANGED <<roster, clock, logs, disk, fold, triggers, history, used>>

Check ==
    /\ run.stage = "check"
    /\ run' = IF DueNow = {}
              THEN [run EXCEPT !.stage = "sleep", !.wake = NextWake]
              ELSE [run EXCEPT !.stage = "probe", !.todo = DueNow]
    /\ UNCHANGED <<roster, clock, logs, memory, disk, fold, triggers, history, used>>

Wake ==
    /\ run.stage = "sleep"
    /\ clock >= run.wake
    /\ run' = [run EXCEPT !.stage = "check", !.wake = 0]
    /\ UNCHANGED <<roster, clock, logs, memory, disk, fold, triggers, history, used>>

\* The other arm of the select: one duty by name, or 0 for all of them.
TakeTrigger ==
    /\ run.stage = "sleep"
    /\ triggers # <<>>
    /\ run' = [run EXCEPT !.stage = "probe", !.wake = 0,
                          !.todo = IF Head(triggers) = 0 THEN Duties ELSE {Head(triggers)}]
    /\ triggers' = Tail(triggers)
    /\ UNCHANGED <<roster, clock, logs, memory, disk, fold, history, used>>

\* The duties of a round run in the order of their declaration.
Current == CHOOSE i \in run.todo : \A j \in run.todo : i <= j

\* run_one after its action: last_run advances whatever happened, and the
\* document is written.  A failing write is only logged.
RecordRun(now) == [memory EXCEPT !.last[Current] = now]

Record ==
    /\ run.stage = "record"
    /\ memory' = RecordRun(clock)
    /\ \/ /\ disk' = [disk EXCEPT !.duties = {memory'}]
          /\ UNCHANGED used
       \/ /\ Use("faults")
          /\ UNCHANGED disk
    /\ LET rest == run.todo \ {Current}
       IN  run' = [run EXCEPT !.stage = IF rest = {} THEN "check" ELSE "probe",
                              !.todo = rest, !.upTo = 0]
    /\ history' = [history EXCEPT !.ran[Current] =
                        IF disk'.duties = {memory'} THEN clock ELSE Never]
    /\ UNCHANGED <<roster, clock, logs, fold, triggers>>

-----------------------------------------------------------------------------
(* One duty.                                                               *)

Probing(kind) == run.stage = "probe" /\ roster[Current].kind = kind

ToTurn(upTo) == run' = [run EXCEPT !.stage = "turn", !.upTo = upTo]
ToRecord == run' = [run EXCEPT !.stage = "record"]

\* A prompt duty without a gate.
ProbePrompt ==
    /\ Probing("prompt")
    /\ ToTurn(0)
    /\ UNCHANGED <<roster, clock, logs, memory, disk, fold, triggers, history, used>>

\* probe_new_commits and self_analysis::probe: too little for a turn.
Quiet(kind, cursor, end) ==
    IF kind = "review" THEN end = cursor ELSE end - cursor < MinDelta

\* First contact with a source, or its cursor was lost.
Prime(kind) ==
    LET source == SourceOf[kind] IN
    /\ Probing(kind)
    /\ memory.cursor[kind] = Never
    /\ memory' = [memory EXCEPT !.cursor[kind] = logs[source]]
    /\ history' = Skip(history, source, 0, logs[source])
    /\ ToRecord
    /\ UNCHANGED <<roster, clock, logs, disk, fold, triggers, used>>

\* The gate stays closed; three proposals that wait for triage close it too.
GateClosed(kind) ==
    LET cursor == memory.cursor[kind] IN
    /\ Probing(kind)
    /\ cursor # Never
    /\ kind = "analysis" \/ Quiet(kind, cursor, logs[SourceOf[kind]])
    /\ ToRecord
    /\ UNCHANGED <<roster, clock, logs, memory, disk, fold, triggers, history, used>>

\* The turn is given what Shown says of the delta.
GateOpen(kind) ==
    LET end == logs[SourceOf[kind]] IN
    /\ Probing(kind)
    /\ memory.cursor[kind] # Never
    /\ ~Quiet(kind, memory.cursor[kind], end)
    /\ ToTurn(end)
    /\ UNCHANGED <<roster, clock, logs, memory, disk, fold, triggers, history, used>>

\* ls-remote, the journal or the tracker cannot be read.
ProbeFails ==
    /\ \E kind \in Kinds : Probing(kind)
    /\ Use("faults")
    /\ ToRecord
    /\ UNCHANGED <<roster, clock, logs, memory, disk, fold, triggers, history>>

\* run_warm for one repository: built, or the head has not moved.  A
\* checkout that is gone makes it due too.
ProbeWarm ==
    /\ Probing("warm")
    /\ \E checkedOut \in BOOLEAN :
         IF memory.cursor.warm = logs[Commits] /\ checkedOut
         THEN ToRecord ELSE ToTurn(logs[Commits])
    /\ UNCHANGED <<roster, clock, logs, memory, disk, fold, triggers, history, used>>

\* The last item that the turn is given: the analysis prompt cuts the delta
\* to its first SectionItems symptoms (format_prompt), although
\* the cursor that follows is the end of all that was read.
Shown(kind) ==
    IF kind = "analysis" THEN Lower(run.upTo, memory.cursor.analysis + SectionItems)
                         ELSE run.upTo

\* The source is measured again when the turn returns.
AdvancedToEnd(kind) == [memory EXCEPT !.cursor[kind] = logs[SourceOf[kind]]]

\* The last item that was read stays ahead of the cursor.
AdvancedOneShort(kind) == [memory EXCEPT !.cursor[kind] = run.upTo - 1]

\* The cursor moves to the end that was probed before the turn.
Advanced(kind) == [memory EXCEPT !.cursor[kind] = run.upTo]

TurnSucceeds(kind) ==
    /\ run.stage = "turn"
    /\ roster[Current].kind = kind
    /\ memory' = IF kind \in Kinds THEN Advanced(kind) ELSE memory
    /\ history' = IF kind \in {"review", "analysis"}
                  THEN Evict(Handle(history, [s \in {SourceOf[kind]} |->
                                                 (memory.cursor[kind] + 1) .. Shown(kind)]),
                             SourceOf[kind], Shown(kind), run.upTo)
                  ELSE history
    /\ ToRecord
    /\ UNCHANGED <<roster, clock, logs, disk, fold, triggers, used>>

TurnFails ==
    /\ run.stage = "turn"
    /\ roster[Current].kind # "distill"
    /\ Use("faults")
    /\ ToRecord
    /\ UNCHANGED <<roster, clock, logs, memory, disk, fold, triggers, history>>

-----------------------------------------------------------------------------
(* A pass of the distiller, in the agent.                                  *)

\* The duty's message waits for the agent; the scheduler waits for its reply.
ProbeDistill ==
    /\ Probing("distill")
    /\ ToTurn(0)
    /\ UNCHANGED <<roster, clock, logs, memory, disk, fold, triggers, history, used>>

\* Who asks for a pass: the duty, whose gate is the threshold, or an
\* operator's /distill, which has none.
Asked(byDuty) ==
    /\ run.stage # "down"
    /\ fold.stage = "idle"
    /\ IF byDuty THEN run.stage = "turn" /\ roster[Current].kind = "distill"
                      /\ UNCHANGED used
                 ELSE Use("asked")

\* The reply reaches the scheduler if the duty asked.
Answer(byDuty) == IF byDuty THEN ToRecord ELSE UNCHANGED run

\* load_state without a document: the watermarks start at the tips, so the
\* pass finds nothing.  If they cannot be stored the next pass primes again.
FoldPrime(byDuty) ==
    /\ Asked(byDuty)
    /\ disk.fold = {}
    /\ \/ /\ disk' = [disk EXCEPT !.fold = {[last |-> 0, marks |-> [s \in Sessions |-> logs[s]]]}]
          /\ history' = [history EXCEPT !.skipped = [s \in Sources |->
                              IF s \in Sessions THEN @[s] \cup (1 .. logs[s]) ELSE @[s]]]
       \/ UNCHANGED <<disk, history>>
    /\ Answer(byDuty)
    /\ UNCHANGED <<roster, clock, logs, memory, fold, triggers>>

\* Every pass starts over with the first session.
SessionOrderByName(last) == [i \in 1 .. NSessions |-> <<"session", i>>]

\* session_order: by name, from the one after the last that was advanced.
SessionOrder(last) ==
    [i \in 1 .. NSessions |->
        <<"session", IF last + i <= NSessions THEN last + i ELSE last + i - NSessions>>]

\* transcript_since: the whole messages the budget allows, at least one.
Span(pending, budget) == Lower(pending, Higher(1, budget \div MessageTokens))

\* What a session gives to the pass when this much of the budget is left.
Share(marks, s, budget) == IF budget = 0 THEN 0 ELSE Span(logs[s] - marks[s], budget)

\* The gather loop: left holds what each session finds of the budget when its
\* turn comes, and advanced is the place of the last one that gave something.
Gathered(marks, order, left, advanced) ==
    /\ left[order[1]] = SliceTokens
    /\ \A i \in 1 .. (NSessions - 1) :
         left[order[i + 1]] =
            Higher(left[order[i]] - Share(marks, order[i], left[order[i]]) * MessageTokens, 0)
    /\ Share(marks, order[advanced], left[order[advanced]]) > 0
    /\ \A i \in (advanced + 1) .. NSessions : Share(marks, order[i], left[order[i]]) = 0

Pending(marks) == {s \in Sessions : logs[s] > marks[s]}

\* gate_open on total_pending.
OverThreshold(marks) ==
    LET PendingTokens(s) == (logs[s] - marks[s]) * MessageTokens
    IN  MapThenSumSet(PendingTokens, Sessions) >= Threshold

FoldIdle(byDuty) ==
    /\ Asked(byDuty)
    /\ \E doc \in disk.fold : IF byDuty THEN ~OverThreshold(doc.marks)
                                        ELSE Pending(doc.marks) = {}
    /\ Answer(byDuty)
    /\ UNCHANGED <<roster, clock, logs, memory, disk, fold, triggers, history>>

FoldStart(byDuty) ==
    /\ Asked(byDuty)
    /\ \E doc \in disk.fold :
         /\ Pending(doc.marks) # {}
         /\ byDuty => OverThreshold(doc.marks)
         /\ \E left \in [Sessions -> 0 .. SliceTokens], advanced \in 1 .. NSessions :
              /\ Gathered(doc.marks, SessionOrder(doc.last), left, advanced)
              /\ fold' = [stage |-> "turn", duty |-> byDuty, marks |-> doc.marks,
                          take |-> [s \in Sessions |-> Share(doc.marks, s, left[s])],
                          last |-> SessionOrder(doc.last)[advanced][2]]
    /\ UNCHANGED <<roster, clock, logs, memory, disk, run, triggers, history>>

NoFold == [stage |-> "idle", duty |-> FALSE, marks |-> <<>>, take |-> <<>>, last |-> 0]

\* The watermarks advance by the messages that were read.
Watermarks == [s \in Sessions |-> fold.marks[s] + fold.take[s]]

\* The fold turn succeeded.  A failing write is only logged: the next pass
\* reads the old document and folds the same span again.
FoldSucceeds ==
    LET folded == Handle(history, [s \in Sessions |-> (fold.marks[s] + 1) .. Watermarks[s]])
        patience == [s \in Sessions |->
            IF fold.take[s] > 0 \/ s \notin Pending(fold.marks) THEN 0
            ELSE history.waited[s] + 1]
    IN
    /\ fold.stage = "turn"
    /\ \/ /\ disk' = [disk EXCEPT !.fold = {[last |-> fold.last, marks |-> Watermarks]}]
          /\ history' = [folded EXCEPT !.waited = patience]
          /\ UNCHANGED used
       \/ /\ Use("faults")
          /\ history' = [Forgotten(folded, Sessions) EXCEPT !.waited = [s \in Sessions |-> 0]]
          /\ UNCHANGED disk
    /\ Answer(fold.duty)
    /\ fold' = NoFold
    /\ UNCHANGED <<roster, clock, logs, memory, triggers>>

FoldFails ==
    /\ fold.stage = "turn"
    /\ Use("faults")
    /\ Answer(fold.duty)
    /\ fold' = NoFold
    /\ UNCHANGED <<roster, clock, logs, memory, disk, triggers, history>>

-----------------------------------------------------------------------------
(* The rest of the world.                                                  *)

\* The sources that some duty reads.
Read ==
    UNION {CASE roster[i].kind \in Kinds -> {SourceOf[roster[i].kind]}
             [] roster[i].kind = "distill" -> Sessions
             [] OTHER -> {} : i \in Duties}

\* The actor runs one thing at a time: no session grows during a pass.
Grow ==
    /\ Use("growth")
    /\ \E s \in Read :
         /\ run.stage = "down" => s = Commits
         /\ fold.stage = "turn" => s \notin Sessions
         /\ logs' = [logs EXCEPT ![s] = @ + 1]
    /\ UNCHANGED <<roster, clock, memory, disk, run, fold, triggers, history>>

Tick ==
    /\ clock < MaxClock
    /\ clock' = clock + 1
    /\ UNCHANGED <<roster, logs, memory, disk, run, fold, triggers, history, used>>

\* forward_duty: /duty and /duties; a full channel refuses.
Trigger ==
    /\ run.stage # "down"
    /\ Use("asked")
    /\ Len(triggers) < TriggerSlots
    /\ \E name \in {0} \cup Duties : triggers' = Append(triggers, name)
    /\ UNCHANGED <<roster, clock, logs, memory, disk, run, fold, history>>

Kill ==
    /\ run.stage # "down"
    /\ Use("faults")
    /\ run' = [stage |-> "down", todo |-> {}, upTo |-> 0, wake |-> 0]
    /\ memory' = FreshState
    /\ fold' = NoFold
    /\ triggers' = <<>>
    /\ history' = [Forgotten(history, Sources) EXCEPT
                     !.ran = [i \in Duties |->
                        IF Load(disk.duties).last[i] = @[i] THEN @[i] ELSE Never]]
    /\ UNCHANGED <<roster, clock, logs, disk>>

\* While the daemon is down a document is lost or becomes unreadable.
LoseDocument ==
    /\ run.stage = "down"
    /\ Use("faults")
    /\ \E doc \in {"duties", "fold"} :
         /\ disk[doc] # {}
         /\ disk' = [disk EXCEPT ![doc] = {}]
         /\ history' = IF doc = "duties"
                       THEN [history EXCEPT !.ran = [i \in Duties |-> Never]]
                       ELSE [history EXCEPT !.waited = [s \in Sessions |-> 0]]
    /\ UNCHANGED <<roster, clock, logs, memory, run, fold, triggers>>

Next ==
    \/ Boot \/ Check \/ Wake \/ TakeTrigger \/ Record
    \/ ProbePrompt \/ ProbeWarm \/ ProbeDistill \/ ProbeFails
    \/ \E kind \in {"review", "analysis"} : Prime(kind) \/ GateClosed(kind) \/ GateOpen(kind)
    \/ \E kind \in {"prompt", "review", "analysis", "warm"} : TurnSucceeds(kind)
    \/ TurnFails
    \/ \E byDuty \in BOOLEAN : FoldPrime(byDuty) \/ FoldIdle(byDuty) \/ FoldStart(byDuty)
    \/ FoldSucceeds \/ FoldFails
    \/ Grow \/ Tick \/ Trigger \/ Kill \/ LoseDocument

Spec == Init /\ [][Next]_vars

-----------------------------------------------------------------------------
(* Properties.                                                             *)

Positions == Nat \cup {Never}

\* Every variable has its type; a daemon that is down has no pass under way.
TypeOK ==
    /\ clock \in 0 .. MaxClock
    /\ logs \in [Sources -> 0 .. MaxGrowth]
    /\ \A state \in {memory} \cup disk.duties :
         /\ state.last \in [Duties -> Positions]
         /\ state.cursor \in [Kinds -> Positions]
    /\ Cardinality(disk.duties) <= 1 /\ Cardinality(disk.fold) <= 1
    /\ \A doc \in disk.fold :
         doc.last \in 0 .. NSessions /\ \A s \in Sessions : doc.marks[s] <= logs[s]
    /\ run.stage \in {"down", "check", "probe", "turn", "record", "sleep"}
    /\ run.todo \in SUBSET Duties
    /\ (run.todo = {}) <=> run.stage \in {"down", "check", "sleep"}
    /\ fold.stage \in {"idle", "turn"}
    /\ run.stage = "down" => fold = NoFold
    /\ triggers \in Seq({0} \cup Duties) /\ Len(triggers) <= TriggerSlots

Covered(source, end) ==
    (1 .. end) \subseteq history.handled[source] \cup history.skipped[source]

AllCovered ==
    /\ \A state \in {memory} \cup disk.duties :
         \A kind \in {"review", "analysis"} : Covered(SourceOf[kind], state.cursor[kind])
    /\ \A doc \in disk.fold : \A s \in Sessions : Covered(s, doc.marks[s])

CutBehindFullSection ==
    \A i \in history.evicted : \E first \in 1 .. (i - SectionItems) :
        (first .. (first + SectionItems - 1)) \subseteq history.handled[Symptoms]

\* Nothing is lost behind a cursor.  Every commit, symptom and message that
\* a cursor in memory or in the database has passed went through a turn that
\* succeeded, or was there before its source was primed, or is a symptom that
\* found the section of the prompt full (SECTION_MAX_BYTES; spec 24:232): no
\* item that arrives during a probe, a turn or a pass is skipped, no failed
\* turn consumes one, and a symptom is cut only behind a whole section of
\* older ones that a turn was given.
NothingSkipped == AllCovered /\ CutBehindFullSection

\* No commit, symptom or message goes through two turns that succeed, except
\* those whose progress was not in the database when the daemon died or the
\* write failed: a manual run, a pass an operator forces and the schedule do
\* not repeat each other's work.
HandledOnce == history.twice = {}

\* A hot session does not starve the others: a session with a backlog is
\* passed over by fewer passes than there are sessions, however little one
\* pass reads, across restarts too.
NotStarved == \A s \in Sessions : history.waited[s] < NSessions

\* One of the times at which a duty should run.
Instant(duty, last, t) ==
    IF duty.schedule = "every" THEN t = last + duty.at ELSE t % Day = duty.at

\* Anacron semantics: the schedule starts a duty only if one of its times
\* has passed since its last run ended, so a duty that is overdue by many
\* periods fires once, a run that was asked for defers the next one, and
\* none fires early or twice for one time, across restarts too.
OverdueFiresOnce ==
    [][(run.stage = "check" /\ run'.stage = "probe") =>
        \A i \in run'.todo :
            history.ran[i] # Never =>
                \E t \in (history.ran[i] + 1) .. clock : Instant(roster[i], history.ran[i], t)]_vars
=============================================================================
