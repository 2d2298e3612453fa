------------------------------ MODULE TurnLoop ------------------------------
(***************************************************************************)
(* Turns of one conversation (agent/mod.rs, turn_loop): completion after   *)
(* completion, each answered by a text or by a round of tool calls, until  *)
(* the model replies, a gate halts the turn, the operator cancels it, a    *)
(* failure ends it or the iterations are used up and a last completion     *)
(* without tools is squeezed out.  The gates are the repeat detector, the  *)
(* policy gate and the tool strikes.  The provider's retry ladder          *)
(* (provider/completions.rs) is here for what it bills.                    *)
(*                                                                         *)
(* Of the conversation only what a completion needs is kept: how many      *)
(* calls of the newest round have no result yet, and whether an earlier    *)
(* round was left without.  Texts, tokens and compaction's result are not  *)
(* (LcmContext has them).                                                  *)
(***************************************************************************)
EXTENDS Integers, Sequences, FiniteSets

CONSTANTS Calls,            \* a tool with its canonical arguments
          Rules,            \* what a tool call may be blocked by
          MaxIterations,    \* agent.max_iterations
          RepeatLimit, RepeatStrikeLimit, PolicyStrikeLimit,
          PolicyRoundLimit, StrikeHalt,      \* as in the source
          MaxRetries, EmptyRetries,
          Policies,         \* the pairs of BudgetPolicy and ReplyPolicy in use
          MaxCalls,         \* bound: calls of one round
          MaxTurns,         \* bound: turns
          MaxFaults         \* bound: failed draws and failed writes

ASSUME TurnAssumption ==
    /\ MaxIterations \in Nat \ {0}
    /\ {RepeatLimit, PolicyRoundLimit, StrikeHalt} \subseteq Nat \ {0}
    /\ {RepeatStrikeLimit, PolicyStrikeLimit} \subseteq Nat \ {0, 1}  \* the first warns
    /\ Policies \subseteq [budget : {"fail", "final"}, reply : {"accept", "confirm"}]
    /\ EmptyRetries \in Nat /\ MaxRetries \in Nat /\ EmptyRetries <= MaxRetries
    /\ {MaxCalls, MaxTurns, MaxFaults} \subseteq Nat

VARIABLES pc,             \* where the turn is
          budget, reply,  \* its BudgetPolicy and ReplyPolicy
          cancelled,      \* the cancellation token has fired
          iteration,
          open,           \* calls of the newest round without a result
          stranded,       \* calls of an earlier round never got one
          gates,          \* the repeat detector, strikes and `nudged`
          round,          \* the calls being executed
          hung,           \* one of them waits for something that never comes
          attempt,        \* retries of the completion under way
          failed,         \* its billed draws that failed
          usage,          \* draws in the turn's TurnUsage
          outcome,
          turns, faults,
          history         \* observations for the properties (see TypeOK)

vars == <<pc, budget, reply, cancelled, iteration, open, stranded, gates, round,
          hung, attempt, failed, usage, outcome, turns, faults, history>>
turn == <<budget, reply, turns, hung>>
conversation == <<open, stranded>>
meter == <<attempt, failed, usage>>

Rounds == UNION {[1..n -> Calls] : n \in 1..MaxCalls}
NoRound == <<>>
Results == {"ok", "error"} \cup Rules
Outcomes == {"none", "text", "policy_halt", "tool_halt", "no_progress",
             "max_iterations", "cancelled", "error"}

FreshGates == [prev |-> NoRound, count |-> 0, repeats |-> 0, blocked |-> 0,
               policy |-> [r \in Rules |-> 0], strikes |-> [c \in Calls |-> 0],
               nudged |-> FALSE]

NoHistory == [shown |-> {}, seen |-> {}, cut |-> FALSE, drawn |-> 0, dropped |-> 0]

-----------------------------------------------------------------------------
(* Helpers *)

(* A message that is not a tool result leaves open calls behind. *)
PushOther == stranded' = (stranded \/ open > 0)

End(result) == pc' = "billing" /\ outcome' = result
Continue == pc' = "loop" /\ iteration' = iteration + 1 /\ UNCHANGED outcome
Fault == faults < MaxFaults /\ faults' = faults + 1

HoldsReply == reply = "confirm" /\ ~gates.nudged /\ iteration + 1 < MaxIterations

Observe(what) == [history EXCEPT !.shown = @ \cup what]

-----------------------------------------------------------------------------
(* A turn begins *)

(* The actor takes an envelope; root turns fail at the cap, sub-agents give *)
(* a final answer.                                                          *)
Submit(p) ==
    /\ pc = "idle" /\ turns < MaxTurns
    /\ pc' = "begin" /\ turns' = turns + 1
    /\ budget' = p.budget /\ reply' = p.reply
    /\ UNCHANGED <<hung, cancelled, iteration, conversation, gates, round, meter, outcome,
                   faults, history>>

Cancel ==
    /\ pc \notin {"idle", "billing"} /\ ~cancelled
    /\ cancelled' = TRUE
    /\ UNCHANGED <<pc, turn, iteration, conversation, gates, round, meter, outcome,
                   faults, history>>

(* The user's message, unless the token fired while the envelope waited. *)
Begin ==
    /\ pc = "begin"
    /\ \/ /\ cancelled /\ End("cancelled")
          /\ UNCHANGED <<conversation, faults>>
       \/ /\ ~cancelled /\ pc' = "loop" /\ PushOther /\ open' = 0
          /\ UNCHANGED <<outcome, faults>>
       \/ /\ ~cancelled /\ Fault /\ End("error")
          /\ UNCHANGED conversation
    /\ UNCHANGED <<turn, cancelled, iteration, gates, round, meter, history>>

-----------------------------------------------------------------------------
(* Sending a completion *)

Request(next) ==
    /\ pc' = next /\ attempt' = 0 /\ failed' = 0
    /\ history' = [history EXCEPT !.seen = history.shown]

(* The top of an iteration: compact if urgent, the midpoint checkpoint,    *)
(* assemble, send.                                                         *)
Iterate ==
    /\ pc = "loop" /\ iteration < MaxIterations /\ ~cancelled
    /\ Request("chat")
    /\ IF iteration = MaxIterations \div 2 /\ iteration > 0
       THEN PushOther /\ open' = 0
       ELSE UNCHANGED conversation
    /\ UNCHANGED <<turn, cancelled, iteration, gates, round, usage, outcome, faults>>

IterateCancelled ==
    /\ pc = "loop" /\ iteration < MaxIterations /\ cancelled
    /\ End("cancelled")
    /\ UNCHANGED <<turn, cancelled, iteration, conversation, gates, round, meter,
                   faults, history>>

(* The cap: push the directive, assemble, send without tools.  Nothing     *)
(* looks at the token before the request.                                  *)
Squeeze ==
    /\ pc = "loop" /\ iteration = MaxIterations
    /\ Request("squeeze")
    /\ PushOther /\ open' = 0
    /\ UNCHANGED <<turn, cancelled, iteration, gates, round, usage, outcome, faults>>

(* state_report turns every failure but a cancel into the cap; final_answer *)
(* passes it on.                                                            *)
SqueezeError == IF budget = "fail" THEN "max_iterations" ELSE "error"

(* compact_if_urgent or the push fails, or assemble after it. *)
IterateFails ==
    /\ pc = "loop" /\ (iteration < MaxIterations => ~cancelled)
    /\ Fault
    /\ \/ UNCHANGED conversation
       \/ /\ iteration \in {MaxIterations \div 2, MaxIterations} \ {0}
          /\ PushOther /\ open' = 0
    /\ End(IF iteration < MaxIterations THEN "error" ELSE SqueezeError)
    /\ UNCHANGED <<turn, cancelled, iteration, gates, round, meter, history>>

-----------------------------------------------------------------------------
(* The provider answers *)

Requested == pc \in {"chat", "squeeze"}

(* What an attempt may come to: the transient ones are tried again.  A     *)
(* response that cannot be used was billed all the same.                   *)
Failures == {"transport", "empty", "malformed", "truncated", "fatal"}
Billed(kind) == IF kind \in {"empty", "malformed", "truncated"} THEN 1 ELSE 0
Limit(kind) == IF kind = "empty" THEN EmptyRetries ELSE MaxRetries

Retries(kind) == kind \notin {"truncated", "fatal"} /\ attempt < Limit(kind)

Draw(n) == [history EXCEPT !.drawn = @ + n]

Redraw(kind) ==
    /\ Requested /\ ~cancelled /\ Fault
    /\ Retries(kind)
    /\ attempt' = attempt + 1
    /\ failed' = failed + Billed(kind)
    /\ history' = Draw(Billed(kind))
    /\ UNCHANGED <<pc, turn, cancelled, iteration, conversation, gates, round, usage, outcome>>

(* Mutant: only a successful completion brings its failed draws along. *)
GiveUpUnbilled(kind) ==
    /\ Requested /\ ~cancelled /\ Fault
    /\ ~Retries(kind)
    /\ failed' = 0
    /\ history' = Draw(Billed(kind))
    /\ End(IF pc = "chat" THEN "error" ELSE SqueezeError)
    /\ UNCHANGED <<turn, cancelled, iteration, conversation, gates, round, attempt, usage>>

GiveUp(kind) ==
    /\ Requested /\ ~cancelled /\ Fault
    /\ ~Retries(kind)
    /\ usage' = usage + failed + Billed(kind)
    /\ failed' = 0
    /\ history' = Draw(Billed(kind))
    /\ End(IF pc = "chat" THEN "error" ELSE SqueezeError)
    /\ UNCHANGED <<turn, cancelled, iteration, conversation, gates, round, attempt>>

(* `cancellable` drops the completion, and with it what it had been billed. *)
CancelRequest ==
    /\ Requested /\ cancelled
    /\ End("cancelled")
    /\ failed' = 0
    /\ history' = [history EXCEPT !.dropped = failed]
    /\ UNCHANGED <<turn, cancelled, iteration, conversation, gates, round, attempt,
                   usage, faults>>

(* A usable response: it and the failed draws before it are billed. *)
Respond == /\ ~cancelled
           /\ usage' = usage + failed + 1
           /\ failed' = 0
           /\ UNCHANGED <<turn, cancelled, attempt>>

(* The turn's reply, or one held back for confirmation. *)
RespondText ==
    /\ pc = "chat" /\ Respond
    /\ PushOther /\ open' = 0
    /\ IF HoldsReply
       THEN /\ Continue
            /\ gates' = [gates EXCEPT !.nudged = TRUE]
            /\ history' = [Draw(1) EXCEPT !.shown = @ \cup {"confirm"}]
       ELSE /\ End("text")
            /\ history' = Draw(1)
            /\ UNCHANGED <<iteration, gates>>
    /\ UNCHANGED <<round, faults>>

(* Mutant: asks again, uncounted, when the answer is a tool call. *)
RespondSqueezedAgain ==
    /\ pc = "squeeze" /\ ~cancelled
    /\ pc' = "loop"
    /\ UNCHANGED <<turn, cancelled, iteration, conversation, gates, round, meter, outcome,
                   faults, history>>

(* The last completion: its text, whatever came with it. *)
RespondSqueezed ==
    /\ pc = "squeeze" /\ Respond
    /\ PushOther /\ open' = 0
    /\ End(IF budget = "fail" THEN "max_iterations" ELSE "text")
    /\ history' = Draw(1)
    /\ UNCHANGED <<iteration, gates, round, faults>>

(* The response, or the request to confirm it, cannot be stored. *)
RespondFails ==
    /\ Requested /\ Respond /\ Fault
    /\ \/ UNCHANGED conversation
       \/ pc = "chat" /\ HoldsReply /\ PushOther /\ open' = 0
    /\ End(IF pc = "chat" THEN "error" ELSE SqueezeError)
    /\ history' = Draw(1)
    /\ UNCHANGED <<iteration, gates, round>>

-----------------------------------------------------------------------------
(* Tool calls *)

(* RepeatDetector::record. *)
CountOf(calls) == IF gates.prev = calls THEN gates.count + 1 ELSE 1
Repeated(calls) == CountOf(calls) >= RepeatLimit
Recorded(calls) == [gates EXCEPT !.prev = calls, !.count = CountOf(calls)]

(* A round that differs is executed, which clears the repeat strikes. *)
RespondCalls(calls) ==
    /\ pc = "chat" /\ Respond
    /\ ~Repeated(calls)
    /\ PushOther /\ open' = Len(calls)
    /\ pc' = "tools" /\ round' = calls
    /\ gates' = [Recorded(calls) EXCEPT !.repeats = 0]
    /\ history' = Draw(1)
    /\ UNCHANGED <<iteration, outcome, faults>>

(* Mutant: the round that ends the turn gets no results. *)
RefuseRepeatUnanswered(calls) ==
    LET halt == gates.repeats + 1 >= RepeatStrikeLimit
    IN  /\ pc = "chat" /\ Respond
        /\ Repeated(calls)
        /\ PushOther /\ open' = IF halt THEN Len(calls) ELSE 0
        /\ gates' = [Recorded(calls) EXCEPT !.repeats = @ + 1]
        /\ history' = [Draw(1) EXCEPT !.shown = @ \cup {"repeat"}]
        /\ IF halt THEN End("no_progress") /\ UNCHANGED iteration ELSE Continue
        /\ UNCHANGED <<round, faults>>

(* A repeated round gets a refusal for every call, and ends the turn the   *)
(* second time.                                                            *)
RefuseRepeat(calls) ==
    /\ pc = "chat" /\ Respond
    /\ Repeated(calls)
    /\ PushOther /\ open' = 0
    /\ gates' = [Recorded(calls) EXCEPT !.repeats = @ + 1]
    /\ history' = [Draw(1) EXCEPT !.shown = @ \cup {"repeat"}]
    /\ IF gates.repeats + 1 >= RepeatStrikeLimit
       THEN End("no_progress") /\ UNCHANGED iteration
       ELSE Continue
    /\ UNCHANGED <<round, faults>>

(* One of the refusals cannot be stored: the turn ends there. *)
RefuseRepeatFails(calls, stored) ==
    /\ pc = "chat" /\ Respond /\ Fault
    /\ Repeated(calls)
    /\ PushOther /\ open' = Len(calls) - stored
    /\ gates' = [Recorded(calls) EXCEPT !.repeats = @ + 1]
    /\ history' = [Draw(1) EXCEPT !.cut = TRUE]
    /\ End("error")
    /\ UNCHANGED <<iteration, round>>

(* A call waits with no timeout: resolve_direnv for the evaluation of      *)
(* somebody who was dropped (Devshell).  The round is joined, so the turn  *)
(* waits with it.                                                          *)
Hang ==
    /\ pc = "tools" /\ ~hung
    /\ hung' = TRUE
    /\ UNCHANGED <<pc, budget, reply, turns, cancelled, iteration, conversation, gates,
                   round, meter, outcome, faults, history>>

(* `cancellable` drops every result, and a call that hangs. *)
CancelTools ==
    /\ pc = "tools" /\ cancelled
    /\ End("cancelled")
    /\ round' = NoRound
    /\ history' = [history EXCEPT !.cut = TRUE]
    /\ UNCHANGED <<turn, cancelled, iteration, conversation, gates, meter, faults>>

FailuresOf(c, results) == Cardinality({i \in DOMAIN round : round[i] = c /\ results[i] = "error"})

StrikesAfter(results) == [c \in Calls |-> gates.strikes[c] + FailuresOf(c, results)]

(* Mutant: every blocked call of the round strikes. *)
PolicyAfterEachCall(results) ==
    [r \in Rules |-> gates.policy[r] + Cardinality({i \in DOMAIN results : results[i] = r})]

(* A rule strikes once per round. *)
PolicyAfter(results) ==
    [r \in Rules |-> gates.policy[r] + IF \E i \in DOMAIN results : results[i] = r THEN 1 ELSE 0]

BlockedBy(results) == Rules \cap {results[i] : i \in DOMAIN results}

Struck(results) == [gates EXCEPT !.strikes = StrikesAfter(results)]
Gate(results) == [Struck(results) EXCEPT !.policy = PolicyAfter(results), !.blocked = @ + 1]

ToolHalt(results) ==
    \E c \in Calls : FailuresOf(c, results) > 0 /\ StrikesAfter(results)[c] >= StrikeHalt

(* The round's rules halt the turn, or are followed by a directive. *)
PolicyHalt(results) ==
    \/ gates.blocked + 1 >= PolicyRoundLimit
    \/ \E r \in BlockedBy(results) : PolicyAfter(results)[r] >= PolicyStrikeLimit

(* record_tool_results has pushed all but `lost` results (a failed push is *)
(* ignored); `noticed`: a corrective hint follows.  A tool halt goes before *)
(* the policy gate, which then does not count the round.                   *)
FinishTools(results, lost, noticed) ==
    LET gated == ~ToolHalt(results) /\ BlockedBy(results) # {}
        directive == gated /\ ~PolicyHalt(results)
    IN  /\ pc = "tools" /\ ~cancelled /\ ~hung
        /\ Cardinality(lost) <= MaxFaults - faults
        /\ faults' = faults + Cardinality(lost)
        /\ IF noticed \/ directive
           THEN open' = 0 /\ stranded' = (stranded \/ lost # {})
           ELSE open' = Cardinality(lost) /\ UNCHANGED stranded
        /\ gates' = IF gated THEN Gate(results) ELSE Struck(results)
        /\ history' = [Observe(BlockedBy([i \in DOMAIN results \ lost |-> results[i]]))
                          EXCEPT !.cut = @ \/ lost # {}]
        /\ CASE ToolHalt(results) -> End("tool_halt") /\ UNCHANGED iteration
             [] gated /\ PolicyHalt(results) -> End("policy_halt") /\ UNCHANGED iteration
             [] OTHER -> Continue
        /\ round' = NoRound
        /\ UNCHANGED <<turn, cancelled, meter>>

(* The hint or the directive cannot be stored, the results were. *)
FinishToolsFails(results) ==
    /\ pc = "tools" /\ ~cancelled /\ ~hung /\ Fault
    /\ End("error")
    /\ open' = 0 /\ round' = NoRound
    /\ gates' = Struck(results)
    /\ history' = Observe(BlockedBy(results))
    /\ UNCHANGED <<turn, cancelled, iteration, stranded, meter>>

-----------------------------------------------------------------------------
(* After the turn *)

(* The actor records the turn's row, whatever the outcome; the turn's      *)
(* state goes with it.                                                     *)
Bill ==
    /\ pc = "billing"
    /\ pc' = "idle" /\ outcome' = "none"
    /\ budget' = "fail" /\ reply' = "accept" /\ cancelled' = FALSE
    /\ iteration' = 0 /\ gates' = FreshGates /\ hung' = FALSE
    /\ attempt' = 0 /\ usage' = 0
    /\ history' = [NoHistory EXCEPT !.cut = history.cut]
    /\ UNCHANGED <<turns, conversation, round, failed, faults>>

(* Opening the session (a restart, a switch back) repairs its tail. *)
Reopen ==
    /\ pc = "idle" /\ open > 0
    /\ open' = 0
    /\ UNCHANGED <<pc, turn, cancelled, iteration, stranded, gates, round, meter,
                   outcome, faults, history>>

-----------------------------------------------------------------------------
Init ==
    /\ pc = "idle" /\ budget = "fail" /\ reply = "accept" /\ cancelled = FALSE
    /\ iteration = 0 /\ open = 0 /\ stranded = FALSE
    /\ gates = FreshGates /\ round = NoRound /\ hung = FALSE
    /\ attempt = 0 /\ failed = 0 /\ usage = 0
    /\ outcome = "none" /\ turns = 0 /\ faults = 0
    /\ history = NoHistory

TurnStep ==
    \/ Begin
    \/ Iterate \/ IterateCancelled \/ IterateFails \/ Squeeze
    \/ \E kind \in Failures : Redraw(kind) \/ GiveUp(kind)
    \/ CancelRequest
    \/ RespondText \/ RespondSqueezed \/ RespondFails
    \/ \E calls \in Rounds :
          \/ RespondCalls(calls) \/ RefuseRepeat(calls)
          \/ \E stored \in 0..(Len(calls) - 1) : RefuseRepeatFails(calls, stored)
    \/ CancelTools
    \/ \E results \in [DOMAIN round -> Results] :
          \/ FinishToolsFails(results)
          \/ \E lost \in SUBSET DOMAIN round, noticed \in BOOLEAN :
                FinishTools(results, lost, noticed)
    \/ Bill

Next ==
    \/ \E p \in Policies : Submit(p)
    \/ Cancel
    \/ TurnStep
    \/ Hang
    \/ Reopen

(* The turn is one task that goes on while it can: requests to the provider *)
(* run under timeouts, and so do tools -- but for the wait for a devshell,  *)
(* which is Hang; whether that happens is not up to the turn.               *)
Spec == Init /\ [][Next]_vars /\ WF_vars(TurnStep)

-----------------------------------------------------------------------------
(* Properties *)

GateStates ==
    [prev : Rounds \cup {NoRound}, count : Nat, repeats : 0..RepeatStrikeLimit,
     blocked : 0..PolicyRoundLimit, policy : [Rules -> 0..PolicyStrikeLimit],
     strikes : [Calls -> Nat], nudged : BOOLEAN]

\* What the conversation has shown the model, what it had seen when it was
\* last asked, whether results were lost; draws billed, and dropped unbilled.
Observations ==
    [shown : SUBSET (Rules \cup {"repeat", "confirm"}),
     seen : SUBSET (Rules \cup {"repeat", "confirm"}),
     cut : BOOLEAN, drawn : Nat, dropped : Nat]

TypeOK ==
    /\ pc \in {"idle", "begin", "loop", "chat", "tools", "squeeze", "billing"}
    /\ budget \in {"fail", "final"} /\ reply \in {"accept", "confirm"}
    /\ cancelled \in BOOLEAN /\ stranded \in BOOLEAN /\ hung \in BOOLEAN
    /\ iteration \in 0..MaxIterations
    /\ open \in 0..MaxCalls
    /\ gates \in GateStates
    /\ round \in Rounds \cup {NoRound}
    /\ attempt \in 0..MaxRetries /\ failed \in 0..MaxRetries /\ usage \in Nat
    /\ outcome \in Outcomes /\ (outcome = "none" <=> pc # "billing")
    /\ turns \in 0..MaxTurns /\ faults \in 0..MaxFaults
    /\ history \in Observations

(* "Every tool_call needs a result before the next completion": no request *)
(* carries a call without one, on whichever path the round before ended,   *)
(* in this turn or in the next -- unless a cancel dropped the results or a *)
(* result could not be stored.                                             *)
AnsweredBeforeCompletion == Requested /\ ~history.cut => open = 0 /\ ~stranded

(* Every draw the provider billed is in the turn's usage when the turn     *)
(* ends, on every path that ends it; a cancel drops those of the           *)
(* completion under way that had already failed.                           *)
DrawsBilled == pc = "billing" => usage + history.dropped = history.drawn

(* "a halt only ever fires after that rule's guidance reached the model in *)
(* an earlier round" (parallel calls of one round strike once), or after   *)
(* PolicyRoundLimit blocked rounds; a turn is abandoned for repetition only *)
(* after the model was shown a refusal.                                    *)
PolicyHaltSeen ==
    outcome = "none" /\ outcome' = "policy_halt" /\ ~history.cut =>
        \/ gates'.blocked >= PolicyRoundLimit
        \/ \E r \in history.seen \cap Rules : gates'.policy[r] > gates.policy[r]
RepeatHaltSeen ==
    outcome = "none" /\ outcome' = "no_progress" => "repeat" \in history.seen
SeenBeforeHalt == [][PolicyHaltSeen /\ RepeatHaltSeen]_vars

(* Whatever the model answers and whichever gate, retry or write fails, a  *)
(* turn ends by itself unless a tool call hangs, and it ends once it is    *)
(* cancelled, hung or not.                                                 *)
TurnEnds == pc # "idle" ~> (pc = "idle" \/ (hung /\ ~cancelled))

(* "Every tool_call needs a result before the next completion": what the   *)
(* source says of its refusals, stated of every completion.                *)
EveryCallAnswered == Requested => open = 0 /\ ~stranded

=============================================================================
