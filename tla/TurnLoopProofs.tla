--------------------------- MODULE TurnLoopProofs ---------------------------
(***************************************************************************)
(* Proofs about a turn (TurnLoop), for any number of turns, iterations,    *)
(* calls, rules and failures: what a completion sees, what is billed, and  *)
(* how many steps a turn can take.                                         *)
(***************************************************************************)
EXTENDS TurnLoop, FiniteSetTheorems, TLAPS

(* Where the turn is bounds its counters; a round under way has calls. *)
Position ==
    /\ pc = "tools" => round \in Rounds
    /\ pc \in {"chat", "tools"} => iteration < MaxIterations
    /\ IF Requested THEN failed <= attempt ELSE failed = 0

(* Strikes that reached their limit ended the turn. *)
Gated ==
    pc # "billing" => /\ gates.repeats < RepeatStrikeLimit
                      /\ gates.blocked < PolicyRoundLimit
                      /\ \A r \in Rules : gates.policy[r] < PolicyStrikeLimit

(* Each billed draw is in the turn's usage, among the failed ones of the   *)
(* completion under way, or dropped with it.                               *)
Metered ==
    /\ pc # "billing" => history.dropped = 0
    /\ usage + failed + history.dropped = history.drawn

(* Outside of a round everything is answered. *)
Settled == ~history.cut => ~stranded /\ (pc # "tools" => open = 0)

(* What struck was shown, and what was shown before a request is seen. *)
Warned ==
    /\ \A r \in Rules : gates.policy[r] > 0 => r \in history.shown \/ history.cut
    /\ pc # "billing" /\ gates.repeats > 0 => "repeat" \in history.shown
    /\ Requested \/ pc = "tools" => history.seen = history.shown

TInv == TypeOK /\ Position /\ Gated
IInv == TInv /\ Metered /\ Settled /\ Warned

-----------------------------------------------------------------------------
(* Type correctness *)

LEMMA Limits ==
    /\ MaxIterations \in Nat \ {0} /\ RepeatLimit \in Nat \ {0}
    /\ PolicyRoundLimit \in Nat \ {0} /\ StrikeHalt \in Nat \ {0}
    /\ RepeatStrikeLimit \in Nat \ {0, 1} /\ PolicyStrikeLimit \in Nat \ {0, 1}
    /\ EmptyRetries \in Nat /\ MaxRetries \in Nat /\ EmptyRetries <= MaxRetries
    /\ MaxCalls \in Nat /\ MaxTurns \in Nat /\ MaxFaults \in Nat
BY TurnAssumption

LEMMA FreshTyped ==
    /\ FreshGates \in GateStates
    /\ FreshGates.repeats = 0 /\ FreshGates.blocked = 0
    /\ \A r \in Rules : FreshGates.policy[r] = 0
BY TurnAssumption DEF FreshGates, GateStates

LEMMA NoHistoryTyped ==
    /\ NoHistory \in Observations
    /\ \A c \in BOOLEAN : [NoHistory EXCEPT !.cut = c] \in Observations
BY DEF NoHistory, Observations

LEMMA InitTyped == Init => TInv
<1> SUFFICES ASSUME Init PROVE TInv
  OBVIOUS
<1>1. TypeOK
  <2>1. gates \in GateStates /\ history \in Observations /\ round \in Rounds \cup {NoRound}
    BY FreshTyped, NoHistoryTyped DEF Init
  <2>2. cancelled \in BOOLEAN /\ stranded \in BOOLEAN
    BY DEF Init
  <2>3. /\ iteration \in 0..MaxIterations /\ open \in 0..MaxCalls /\ usage \in Nat
        /\ attempt \in 0..MaxRetries /\ failed \in 0..MaxRetries
        /\ turns \in 0..MaxTurns /\ faults \in 0..MaxFaults
    BY Limits DEF Init
  <2>4. outcome \in Outcomes /\ (outcome = "none" <=> pc # "billing")
    BY DEF Init, Outcomes
  <2> QED
    BY <2>1, <2>2, <2>3, <2>4 DEF Init, TypeOK
<1>2. Gated
  BY TurnAssumption, FreshTyped DEF Init, Gated
<1> QED
  BY <1>1, <1>2 DEF Init, TInv, Position, Requested

LEMMA PushTyped == PushOther => stranded' \in BOOLEAN
BY DEF PushOther

LEMMA RoundLength ==
    ASSUME NEW calls \in Rounds PROVE Len(calls) \in 1..MaxCalls
<1>1. PICK n \in 1..MaxCalls : calls \in [1..n -> Calls]
  BY DEF Rounds
<1> QED
  BY <1>1, TurnAssumption

LEMMA LostBounded ==
    ASSUME TypeOK, pc = "tools", Position, NEW lost \in SUBSET DOMAIN round
    PROVE  Cardinality(lost) \in 0..MaxCalls
<1>1. PICK n \in 1..MaxCalls : round \in [1..n -> Calls]
  BY DEF Position, Rounds
<1>2. IsFiniteSet(1..n) /\ Cardinality(1..n) = n
  BY <1>1, FS_Interval, TurnAssumption
<1>3. IsFiniteSet(lost) /\ Cardinality(lost) <= n
  <2>1. lost \in SUBSET (1..n)
    BY <1>1
  <2> QED
    BY <1>2, <2>1, FS_Subset
<1>4. Cardinality(lost) \in Nat
  BY <1>3, FS_CardinalityType
<1> QED
  BY <1>1, <1>3, <1>4, TurnAssumption

LEMMA StrikesTyped ==
    ASSUME TypeOK, pc = "tools", Position, NEW results \in [DOMAIN round -> Results]
    PROVE  StrikesAfter(results) \in [Calls -> Nat]
<1> SUFFICES ASSUME NEW c \in Calls PROVE FailuresOf(c, results) \in Nat
  BY DEF StrikesAfter, TypeOK, GateStates
<1>1. {i \in DOMAIN round : round[i] = c /\ results[i] = "error"} \in SUBSET DOMAIN round
  OBVIOUS
<1> QED
  BY <1>1, LostBounded DEF FailuresOf

LEMMA RecordedTyped ==
    ASSUME TInv, pc = "chat", NEW calls \in Rounds
    PROVE  /\ Recorded(calls) \in GateStates
           /\ Recorded(calls).repeats = gates.repeats
           /\ Recorded(calls).blocked = gates.blocked
           /\ Recorded(calls).policy = gates.policy
<1>1. CountOf(calls) \in Nat
  BY DEF CountOf, TInv, TypeOK, GateStates
<1> QED
  BY <1>1 DEF Recorded, TInv, TypeOK, GateStates

(* The turn begins, asks and is billed. *)
LEMMA QuietTyped ==
    ASSUME TInv,
           \/ \E p \in Policies : Submit(p)
           \/ Cancel \/ Begin \/ Iterate \/ IterateCancelled \/ IterateFails \/ Squeeze
           \/ CancelRequest \/ CancelTools \/ Hang \/ Bill \/ Reopen
    PROVE  TInv'
<1> USE Limits, TurnAssumption DEF TInv, TypeOK, Position, Gated, Requested, turn, conversation, meter
<1>1. CASE \E p \in Policies : Submit(p)
  BY <1>1 DEF Submit
<1>2. CASE Cancel
  BY <1>2 DEF Cancel
<1>3. CASE Begin
  BY <1>3, PushTyped DEF Begin, End, Fault, Outcomes
<1>a. history' = [history EXCEPT !.seen = history.shown] => history' \in Observations
  BY DEF Observations
<1>4. CASE Iterate
  BY <1>4, <1>a, PushTyped DEF Iterate, Request
<1>5. CASE IterateCancelled
  BY <1>5 DEF IterateCancelled, End, Outcomes
<1>6. CASE IterateFails
  BY <1>6, PushTyped DEF IterateFails, End, Fault, SqueezeError, Outcomes
<1>7. CASE Squeeze
  BY <1>7, <1>a, PushTyped DEF Squeeze, Request
<1>b. ASSUME failed \in Nat, history' = [history EXCEPT !.dropped = failed]
      PROVE  history' \in Observations
  BY <1>b DEF Observations
<1>8. CASE CancelRequest
  BY <1>8, <1>b DEF CancelRequest, End, Outcomes
<1>c. history' = [history EXCEPT !.cut = TRUE] => history' \in Observations
  BY DEF Observations
<1>9. CASE CancelTools
  BY <1>9, <1>c DEF CancelTools, End, Outcomes
<1>10. CASE Bill
  <2>1. history' \in Observations
    BY <1>10, NoHistoryTyped DEF Bill, Observations
  <2>2. gates' \in GateStates
    BY <1>10, FreshTyped DEF Bill
  <2>3. Gated'
    BY <1>10, FreshTyped DEF Bill
  <2>4. cancelled' \in BOOLEAN /\ stranded' \in BOOLEAN /\ hung' \in BOOLEAN
    BY <1>10 DEF Bill
  <2>5. TypeOK'
    BY <1>10, <2>1, <2>2, <2>4 DEF Bill, Outcomes
  <2> QED
    BY <1>10, <2>3, <2>5 DEF Bill
<1>11. CASE Reopen
  BY <1>11 DEF Reopen
<1>12. CASE Hang
  BY <1>12 DEF Hang
<1> QED
  BY <1>1, <1>2, <1>3, <1>4, <1>5, <1>6, <1>7, <1>8, <1>9, <1>10, <1>11, <1>12

LEMMA DrawTyped ==
    ASSUME history \in Observations, NEW n \in Nat
    PROVE  /\ Draw(n) \in Observations
           /\ Draw(n).shown = history.shown /\ Draw(n).seen = history.seen
           /\ Draw(n).cut = history.cut /\ Draw(n).dropped = history.dropped
           /\ Draw(n).drawn = history.drawn + n
BY DEF Draw, Observations

LEMMA BilledTyped == \A kind \in Failures : Billed(kind) \in 0..1
BY DEF Billed

(* The provider answers. *)
LEMMA AnswerTyped ==
    ASSUME TInv,
           \/ \E kind \in Failures : Redraw(kind) \/ GiveUp(kind)
           \/ RespondText \/ RespondSqueezed \/ RespondFails
    PROVE  TInv'
<1> USE Limits DEF TInv, TypeOK, Position, Gated, Requested, turn, conversation, meter
<1>1. ASSUME NEW kind \in Failures, Redraw(kind)  PROVE TInv'
  <2>1. Billed(kind) \in 0..1 /\ history' \in Observations
    BY <1>1, BilledTyped, DrawTyped DEF Redraw
  <2>2. attempt < MaxRetries
    BY <1>1 DEF Redraw, Retries, Limit
  <2> QED
    BY <1>1, <2>1, <2>2 DEF Redraw, Fault
<1>2. ASSUME NEW kind \in Failures, GiveUp(kind)  PROVE TInv'
  <2>1. Billed(kind) \in 0..1 /\ history' \in Observations
    BY <1>2, BilledTyped, DrawTyped DEF GiveUp
  <2> QED
    BY <1>2, <2>1 DEF GiveUp, Fault, End, SqueezeError, Outcomes
<1>3. CASE RespondText
  <2>1. Draw(1) \in Observations
    BY DrawTyped
  <2>2. history' \in Observations
    BY <1>3, <2>1 DEF RespondText, Observations
  <2>3. gates' \in GateStates /\ gates'.repeats = gates.repeats
        /\ gates'.blocked = gates.blocked /\ gates'.policy = gates.policy
    BY <1>3 DEF RespondText, GateStates
  <2> QED
    BY <1>3, <2>2, <2>3, PushTyped DEF RespondText, Respond, Continue, End, Outcomes
<1>4. CASE RespondSqueezed
  <2>1. Draw(1) \in Observations
    BY DrawTyped
  <2> QED
    BY <1>4, <2>1, PushTyped DEF RespondSqueezed, Respond, End, Outcomes
<1>5. CASE RespondFails
  <2>1. Draw(1) \in Observations
    BY DrawTyped
  <2> QED
    BY <1>5, <2>1, PushTyped DEF RespondFails, Respond, Fault, End, SqueezeError, Outcomes
<1> QED
  BY <1>1, <1>2, <1>3, <1>4, <1>5

(* A round of calls is taken, refused or executed. *)
LEMMA RepeatsUpdated ==
    ASSUME NEW g \in GateStates, NEW n \in 0..RepeatStrikeLimit
    PROVE  /\ [g EXCEPT !.repeats = n] \in GateStates
           /\ [g EXCEPT !.repeats = n].repeats = n
           /\ [g EXCEPT !.repeats = n].blocked = g.blocked
           /\ [g EXCEPT !.repeats = n].policy = g.policy
BY DEF GateStates

LEMMA Answerable ==
    ASSUME TInv, pc = "chat"
    PROVE  /\ gates \in GateStates /\ history \in Observations
           /\ gates.repeats \in Nat /\ gates.repeats + 1 \in 0..RepeatStrikeLimit
           /\ gates.blocked < PolicyRoundLimit
           /\ \A r \in Rules : gates.policy[r] < PolicyStrikeLimit
           /\ Draw(1) \in Observations
<1>1. gates \in GateStates /\ history \in Observations
  BY DEF TInv, TypeOK
<1>2. Draw(1) \in Observations
  BY <1>1, DrawTyped
<1> QED
  BY <1>1, <1>2, Limits DEF TInv, Gated, GateStates

LEMMA RespondTyped ==
    ASSUME TInv, Respond
    PROVE  /\ usage' \in Nat /\ failed' = 0 /\ failed' \in 0..MaxRetries
           /\ attempt' \in 0..MaxRetries
           /\ cancelled' \in BOOLEAN /\ hung' \in BOOLEAN /\ turns' \in 0..MaxTurns
           /\ budget' \in {"fail", "final"} /\ reply' \in {"accept", "confirm"}
BY Limits DEF TInv, TypeOK, Respond, turn

LEMMA FaultTyped == ASSUME TInv, Fault PROVE faults' \in 0..MaxFaults
BY Limits DEF TInv, TypeOK, Fault

LEMMA RespondCallsTyped ==
    ASSUME TInv, NEW calls \in Rounds, RespondCalls(calls)
    PROVE  TInv'
<1>1. pc = "chat" /\ Respond /\ pc' = "tools"
  BY DEF RespondCalls
<1>2. gates' = [Recorded(calls) EXCEPT !.repeats = 0]
  BY DEF RespondCalls
<1>3. /\ gates' \in GateStates
      /\ gates'.repeats = 0 /\ gates'.blocked = gates.blocked /\ gates'.policy = gates.policy
  BY <1>1, <1>2, Limits, RecordedTyped, RepeatsUpdated
<1>4. Gated'
  BY <1>1, <1>3, Answerable, Limits DEF Gated
<1>5. stranded' \in BOOLEAN /\ open' \in 0..MaxCalls
  BY PushTyped, RoundLength, Limits DEF RespondCalls
<1>6. history' \in Observations
  BY <1>1, Answerable DEF RespondCalls
<1>a. /\ iteration' = iteration /\ outcome' = outcome /\ faults' = faults
      /\ round' \in Rounds \cup {NoRound}
  BY DEF RespondCalls
<1>7. TypeOK'
  BY <1>1, <1>3, <1>5, <1>6, <1>a, RespondTyped DEF TInv, TypeOK
<1>8. Position'
  BY <1>1, RespondTyped DEF RespondCalls, TInv, Position, Requested
<1> QED
  BY <1>4, <1>7, <1>8 DEF TInv

LEMMA RefuseRepeatTyped ==
    ASSUME TInv, NEW calls \in Rounds, RefuseRepeat(calls)
    PROVE  TInv'
<1>1. pc = "chat" /\ Respond
  BY DEF RefuseRepeat
<1>2. gates' = [Recorded(calls) EXCEPT !.repeats = gates.repeats + 1]
  BY <1>1, RecordedTyped DEF RefuseRepeat
<1>3. /\ gates' \in GateStates /\ gates'.repeats = gates.repeats + 1
      /\ gates'.blocked = gates.blocked /\ gates'.policy = gates.policy
  BY <1>1, <1>2, Answerable, RecordedTyped, RepeatsUpdated
<1>4. history' \in Observations
  BY <1>1, Answerable DEF RefuseRepeat, Observations
<1>5. stranded' \in BOOLEAN /\ open' \in 0..MaxCalls
  BY PushTyped, Limits DEF RefuseRepeat
<1>a. round' = round /\ faults' = faults
  BY DEF RefuseRepeat
<1>6. CASE gates.repeats + 1 >= RepeatStrikeLimit
  <2>1. pc' = "billing" /\ outcome' = "no_progress" /\ iteration' = iteration
    BY <1>6 DEF RefuseRepeat, End
  <2>2. TypeOK'
    BY <1>a, <1>3, <1>4, <1>5, <2>1, <1>1, RespondTyped DEF TInv, TypeOK, Outcomes
  <2> QED
    BY <1>1, <2>1, <2>2, RespondTyped DEF TInv, Gated, Position, Requested
<1>7. CASE ~(gates.repeats + 1 >= RepeatStrikeLimit)
  <2>1. pc' = "loop" /\ outcome' = outcome /\ iteration' = iteration + 1
    BY <1>7 DEF RefuseRepeat, Continue
  <2>2. iteration' \in 0..MaxIterations /\ outcome = "none"
    BY <1>1, <2>1, Limits DEF TInv, TypeOK, Position
  <2>3. TypeOK'
    BY <1>a, <1>3, <1>4, <1>5, <2>1, <2>2, <1>1, RespondTyped DEF TInv, TypeOK, Outcomes
  <2>4. Gated'
    BY <1>1, <1>3, <1>7, Answerable, Limits DEF Gated
  <2> QED
    BY <1>1, <2>1, <2>3, <2>4, RespondTyped DEF TInv, Position, Requested
<1> QED
  BY <1>6, <1>7

LEMMA RefuseRepeatFailsTyped ==
    ASSUME TInv, NEW calls \in Rounds, NEW stored \in 0..(Len(calls) - 1),
           RefuseRepeatFails(calls, stored)
    PROVE  TInv'
<1>1. pc = "chat" /\ Respond /\ pc' = "billing" /\ outcome' = "error"
      /\ iteration' = iteration /\ round' = round
  BY DEF RefuseRepeatFails, End
<1>2. gates' = [Recorded(calls) EXCEPT !.repeats = gates.repeats + 1]
  BY <1>1, RecordedTyped DEF RefuseRepeatFails
<1>3. gates' \in GateStates
  BY <1>1, <1>2, Answerable, RecordedTyped, RepeatsUpdated
<1>4. history' \in Observations
  BY <1>1, Answerable DEF RefuseRepeatFails, Observations
<1>5. stranded' \in BOOLEAN
  BY PushTyped DEF RefuseRepeatFails
<1>6. open' \in 0..MaxCalls
  BY RoundLength, Limits DEF RefuseRepeatFails
<1>7. faults' \in 0..MaxFaults
  BY FaultTyped DEF RefuseRepeatFails
<1>8. TypeOK'
  BY <1>1, <1>3, <1>4, <1>5, <1>6, <1>7, RespondTyped DEF TInv, TypeOK, Outcomes
<1> QED
  BY <1>1, <1>8, RespondTyped DEF TInv, Gated, Position, Requested

LEMMA StruckTyped ==
    ASSUME TInv, pc = "tools", NEW results \in [DOMAIN round -> Results]
    PROVE  /\ Struck(results) \in GateStates
           /\ Struck(results).repeats = gates.repeats
           /\ Struck(results).blocked = gates.blocked
           /\ Struck(results).policy = gates.policy
<1>1. StrikesAfter(results) \in [Calls -> Nat]
  BY StrikesTyped DEF TInv
<1> QED
  BY <1>1 DEF Struck, TInv, TypeOK, GateStates

(* What the gate leaves is within its limits, or halts the turn. *)
LEMMA GateTyped ==
    ASSUME TInv, pc = "tools", NEW results \in [DOMAIN round -> Results]
    PROVE  /\ Gate(results) \in GateStates
           /\ Gate(results).repeats = gates.repeats
           /\ Gate(results).blocked = gates.blocked + 1
           /\ Gate(results).policy = PolicyAfter(results)
           /\ \A r \in Rules : /\ r \in BlockedBy(results) =>
                                    PolicyAfter(results)[r] = gates.policy[r] + 1
                               /\ r \notin BlockedBy(results) =>
                                    PolicyAfter(results)[r] = gates.policy[r]
<1>1. /\ gates.policy \in [Rules -> 0..PolicyStrikeLimit]
      /\ \A r \in Rules : gates.policy[r] < PolicyStrikeLimit
      /\ gates.blocked + 1 \in 0..PolicyRoundLimit
  BY Limits DEF TInv, TypeOK, Gated, GateStates
<1>2. ASSUME NEW r \in Rules
      PROVE  /\ r \in BlockedBy(results) => PolicyAfter(results)[r] = gates.policy[r] + 1
             /\ r \notin BlockedBy(results) => PolicyAfter(results)[r] = gates.policy[r]
  <2>1. r \in BlockedBy(results) <=> \E n \in DOMAIN results : results[n] = r
    BY DEF BlockedBy
  <2>2. PolicyAfter(results)[r] =
            gates.policy[r] + IF \E n \in DOMAIN results : results[n] = r THEN 1 ELSE 0
    BY DEF PolicyAfter
  <2>3. gates.policy[r] \in Nat
    BY <1>1
  <2> QED
    BY <2>1, <2>2, <2>3
<1>3. \A r \in Rules : PolicyAfter(results)[r] \in 0..PolicyStrikeLimit
  BY <1>1, <1>2, Limits
<1>4. PolicyAfter(results) \in [Rules -> 0..PolicyStrikeLimit]
  BY <1>3 DEF PolicyAfter
<1>5. Struck(results) \in GateStates /\ Struck(results).blocked = gates.blocked
      /\ Struck(results).repeats = gates.repeats
  BY StruckTyped
<1>6. Gate(results) =
          [Struck(results) EXCEPT !.policy = PolicyAfter(results), !.blocked = gates.blocked + 1]
  BY <1>5 DEF Gate
<1>7. Gate(results) \in GateStates
  BY <1>1, <1>4, <1>5, <1>6 DEF GateStates
<1>8. Gate(results).repeats = gates.repeats /\ Gate(results).blocked = gates.blocked + 1
      /\ Gate(results).policy = PolicyAfter(results)
  BY <1>5, <1>6 DEF GateStates
<1> QED
  BY <1>2, <1>7, <1>8

(* Which of the three ways a round takes. *)
LEMMA FinishToolsEnds ==
    ASSUME NEW results, NEW lost, NEW noticed, FinishTools(results, lost, noticed)
    PROVE  \/ /\ ToolHalt(results) /\ gates' = Struck(results)
              /\ pc' = "billing" /\ outcome' = "tool_halt" /\ iteration' = iteration
           \/ /\ ~ToolHalt(results) /\ BlockedBy(results) = {} /\ gates' = Struck(results)
              /\ pc' = "loop" /\ outcome' = outcome /\ iteration' = iteration + 1
           \/ /\ BlockedBy(results) # {} /\ gates' = Gate(results) /\ PolicyHalt(results)
              /\ pc' = "billing" /\ outcome' = "policy_halt" /\ iteration' = iteration
           \/ /\ BlockedBy(results) # {} /\ gates' = Gate(results) /\ ~PolicyHalt(results)
              /\ pc' = "loop" /\ outcome' = outcome /\ iteration' = iteration + 1
<1>1. CASE ToolHalt(results)
  BY <1>1 DEF FinishTools, End
<1>2. CASE ~ToolHalt(results) /\ BlockedBy(results) = {}
  BY <1>2 DEF FinishTools, Continue
<1>3. CASE ~ToolHalt(results) /\ BlockedBy(results) # {} /\ PolicyHalt(results)
  BY <1>3 DEF FinishTools, End
<1>4. CASE ~ToolHalt(results) /\ BlockedBy(results) # {} /\ ~PolicyHalt(results)
  BY <1>4 DEF FinishTools, Continue
<1> QED
  BY <1>1, <1>2, <1>3, <1>4

LEMMA FinishToolsTyped ==
    ASSUME TInv, NEW results \in [DOMAIN round -> Results],
           NEW lost \in SUBSET DOMAIN round, NEW noticed \in BOOLEAN,
           FinishTools(results, lost, noticed)
    PROVE  TInv'
<1>1. /\ pc = "tools" /\ round' = NoRound /\ cancelled' = cancelled
      /\ failed' = failed /\ attempt' = attempt /\ usage' = usage
      /\ budget' = budget /\ reply' = reply /\ turns' = turns /\ hung' = hung
  BY DEF FinishTools, turn, meter
<1>2. Cardinality(lost) \in 0..MaxCalls
  BY <1>1, LostBounded DEF TInv
<1>3. faults' \in 0..MaxFaults
  BY <1>2, Limits DEF FinishTools, TInv, TypeOK
<1>4. open' \in 0..MaxCalls
  BY <1>2, Limits DEF FinishTools
<1>5. stranded' \in BOOLEAN
  BY DEF FinishTools, TInv, TypeOK
<1>6. history' \in Observations
  BY DEF FinishTools, Observe, BlockedBy, TInv, TypeOK, Observations
<1>7. gates' \in GateStates
  BY <1>1, FinishToolsEnds, StruckTyped, GateTyped
<1>8. /\ pc' \in {"loop", "billing"} /\ outcome' \in Outcomes
      /\ (outcome' = "none" <=> pc' # "billing") /\ iteration' \in 0..MaxIterations
  BY <1>1, FinishToolsEnds, Limits DEF TInv, TypeOK, Position, Outcomes
<1>9. TypeOK'
  BY <1>1, <1>3, <1>4, <1>5, <1>6, <1>7, <1>8 DEF TInv, TypeOK
<1>10. Gated'
  <2> SUFFICES ASSUME pc' = "loop"
               PROVE  /\ gates'.repeats < RepeatStrikeLimit
                      /\ gates'.blocked < PolicyRoundLimit
                      /\ \A r \in Rules : gates'.policy[r] < PolicyStrikeLimit
    BY <1>8 DEF Gated
  <2>1. /\ gates.repeats < RepeatStrikeLimit /\ gates.blocked < PolicyRoundLimit
        /\ \A r \in Rules : gates.policy[r] < PolicyStrikeLimit
    BY <1>1 DEF TInv, Gated
  <2>2. CASE gates' = Struck(results)
    BY <1>1, <2>1, <2>2, StruckTyped
  <2>3. CASE gates' = Gate(results) /\ ~PolicyHalt(results)
    <3>1. /\ gates.blocked + 1 < PolicyRoundLimit
          /\ \A r \in BlockedBy(results) : PolicyAfter(results)[r] < PolicyStrikeLimit
      <4>1. /\ ~(gates.blocked + 1 >= PolicyRoundLimit)
            /\ \A r \in BlockedBy(results) : ~(PolicyAfter(results)[r] >= PolicyStrikeLimit)
        BY <2>3 DEF PolicyHalt
      <4>2. gates.blocked + 1 \in Nat
            /\ \A r \in BlockedBy(results) : PolicyAfter(results)[r] \in Nat
        BY <1>1, GateTyped DEF TInv, TypeOK, GateStates, BlockedBy
      <4> QED
        BY <4>1, <4>2, Limits
    <3> QED
      BY <1>1, <2>1, <2>3, <3>1, GateTyped
  <2> QED
    BY <2>2, <2>3, FinishToolsEnds
<1>11. Position'
  BY <1>1, <1>8 DEF TInv, Position, Requested
<1> QED
  BY <1>9, <1>10, <1>11 DEF TInv

LEMMA FinishToolsFailsTyped ==
    ASSUME TInv, NEW results \in [DOMAIN round -> Results], FinishToolsFails(results)
    PROVE  TInv'
<1>1. /\ pc = "tools" /\ pc' = "billing" /\ outcome' = "error"
      /\ open' = 0 /\ round' = NoRound
      /\ gates' = Struck(results)
      /\ iteration' = iteration /\ stranded' = stranded /\ cancelled' = cancelled
      /\ failed' = failed /\ attempt' = attempt /\ usage' = usage
      /\ budget' = budget /\ reply' = reply /\ turns' = turns /\ hung' = hung
  BY DEF FinishToolsFails, End, turn, meter
<1>3. gates' \in GateStates
  BY <1>1, StruckTyped
<1>4. history' \in Observations
  BY DEF FinishToolsFails, Observe, BlockedBy, TInv, TypeOK, Observations
<1>5. faults' \in 0..MaxFaults
  BY FaultTyped DEF FinishToolsFails
<1>6. TypeOK'
  BY <1>1, <1>3, <1>4, <1>5, Limits DEF TInv, TypeOK, Outcomes
<1> QED
  BY <1>1, <1>6 DEF TInv, Gated, Position, Requested

LEMMA StepTyped == TInv /\ [Next]_vars => TInv'
<1> SUFFICES ASSUME TInv, [Next]_vars PROVE TInv'
  OBVIOUS
<1>1. CASE UNCHANGED vars
  BY <1>1 DEF vars, TInv, TypeOK, Position, Gated, Requested
<1>2. CASE Next
  BY <1>2, QuietTyped, AnswerTyped, RespondCallsTyped, RefuseRepeatTyped,
     RefuseRepeatFailsTyped, FinishToolsTyped, FinishToolsFailsTyped DEF Next, TurnStep
<1> QED
  BY <1>1, <1>2

LEMMA InitIInv == Init => IInv
<1> SUFFICES ASSUME Init PROVE IInv
  OBVIOUS
<1>1. \A r \in Rules : gates.policy[r] = 0
  BY FreshTyped DEF Init
<1>2. gates.repeats = 0
  BY FreshTyped DEF Init
<1> QED
  BY <1>1, <1>2, InitTyped DEF Init, IInv, Metered, Settled, Warned, NoHistory, Requested

-----------------------------------------------------------------------------
(* What is observed: every action's effect on `history` *)

LEMMA RequestSeen ==
    ASSUME history \in Observations, NEW next, Request(next)
    PROVE  /\ history'.seen = history.shown /\ history'.shown = history.shown
           /\ history'.cut = history.cut
           /\ history'.drawn = history.drawn /\ history'.dropped = history.dropped
BY DEF Request, Observations

LEMMA RoundShown ==
    ASSUME history \in Observations, NEW what, NEW c,
           history' = [Observe(what) EXCEPT !.cut = c]
    PROVE  /\ history'.shown = history.shown \cup what /\ history'.seen = history.seen
           /\ history'.cut = c
           /\ history'.drawn = history.drawn /\ history'.dropped = history.dropped
BY DEF Observe, Observations

LEMMA RoundObserved ==
    ASSUME history \in Observations, NEW what
    PROVE  /\ Observe(what).shown = history.shown \cup what
           /\ Observe(what).seen = history.seen
           /\ Observe(what).cut = history.cut
           /\ Observe(what).drawn = history.drawn /\ Observe(what).dropped = history.dropped
BY DEF Observe, Observations

LEMMA AnswerShown ==
    ASSUME history \in Observations, NEW what,
           history' = [Draw(1) EXCEPT !.shown = @ \cup what]
    PROVE  /\ history'.shown = history.shown \cup what /\ history'.seen = history.seen
           /\ history'.cut = history.cut
           /\ history'.drawn = history.drawn + 1 /\ history'.dropped = history.dropped
BY DEF Draw, Observations

LEMMA Cut ==
    ASSUME NEW h \in Observations
    PROVE  /\ [h EXCEPT !.cut = TRUE].shown = h.shown /\ [h EXCEPT !.cut = TRUE].seen = h.seen
           /\ [h EXCEPT !.cut = TRUE].cut
           /\ [h EXCEPT !.cut = TRUE].drawn = h.drawn
           /\ [h EXCEPT !.cut = TRUE].dropped = h.dropped
BY DEF Observations

LEMMA Billing ==
    ASSUME Bill
    PROVE  /\ history'.shown = {} /\ history'.seen = {}
           /\ history'.cut = history.cut
           /\ history'.drawn = 0 /\ history'.dropped = 0
BY DEF Bill, NoHistory

-----------------------------------------------------------------------------
(* Draws *)

LEMMA SameMeter ==
    ASSUME TInv, Metered, UNCHANGED meter, pc # "billing",
           history'.drawn = history.drawn, history'.dropped = history.dropped
    PROVE  Metered'
BY DEF Metered, meter

LEMMA Asked ==
    ASSUME TInv, Metered, pc = "loop", usage' = usage, NEW next, Request(next)
    PROVE  Metered'
BY RequestSeen DEF Request, Metered, TInv, TypeOK, Position, Requested

LEMMA Answered ==
    ASSUME TInv, Metered, Requested, Respond,
           history'.drawn = history.drawn + 1, history'.dropped = history.dropped
    PROVE  Metered'
BY DEF Respond, Requested, Metered, TInv, TypeOK, Observations

LEMMA MeteredStep == IInv /\ [Next]_vars => Metered'
<1> SUFFICES ASSUME IInv, [Next]_vars PROVE Metered'
  OBVIOUS
<1>a. TInv /\ Metered /\ history \in Observations
  BY DEF IInv, TInv, TypeOK
<1>1. CASE UNCHANGED vars
  BY <1>a, <1>1 DEF vars, Metered
<1>2. CASE (\E p \in Policies : Submit(p)) \/ Cancel \/ Hang \/ Begin \/ IterateCancelled
           \/ IterateFails
  BY <1>a, <1>2, SameMeter DEF Submit, Cancel, Hang, Begin, IterateCancelled, IterateFails
<1>3. CASE Iterate \/ Squeeze
  BY <1>a, <1>3, Asked DEF Iterate, Squeeze
<1>4. ASSUME NEW kind \in Failures, Redraw(kind)  PROVE Metered'
  <2>1. Billed(kind) \in Nat
    BY BilledTyped
  <2>2. history'.drawn = history.drawn + Billed(kind) /\ history'.dropped = history.dropped
    BY <1>a, <1>4, <2>1, DrawTyped DEF Redraw
  <2> QED
    BY <1>a, <1>4, <2>1, <2>2 DEF Redraw, Requested, Metered, TInv, TypeOK, Observations
<1>5. ASSUME NEW kind \in Failures, GiveUp(kind)  PROVE Metered'
  <2>1. Billed(kind) \in Nat
    BY BilledTyped
  <2>2. history'.drawn = history.drawn + Billed(kind) /\ history'.dropped = history.dropped
    BY <1>a, <1>5, <2>1, DrawTyped DEF GiveUp
  <2> QED
    BY <1>a, <1>5, <2>1, <2>2 DEF GiveUp, Requested, Metered, TInv, TypeOK, Observations, End
<1>6. CASE CancelRequest
  <2>1. history'.drawn = history.drawn /\ history'.dropped = failed
    BY <1>a, <1>6 DEF CancelRequest, Observations
  <2> QED
    BY <1>a, <1>6, <2>1 DEF CancelRequest, Requested, Metered, TInv, TypeOK, Observations, End
<1>7. CASE RespondText
  BY <1>a, <1>7, AnswerShown, DrawTyped, Answered DEF RespondText, Requested
<1>8. CASE RespondSqueezed \/ RespondFails
  BY <1>a, <1>8, DrawTyped, Answered DEF RespondSqueezed, RespondFails, Requested
<1>9. ASSUME NEW calls \in Rounds, RespondCalls(calls) \/ RefuseRepeat(calls)  PROVE Metered'
  BY <1>a, <1>9, AnswerShown, DrawTyped, Answered DEF RespondCalls, RefuseRepeat, Requested
<1>10. ASSUME NEW calls \in Rounds, NEW stored \in 0..(Len(calls) - 1),
              RefuseRepeatFails(calls, stored)
       PROVE  Metered'
  <2>1. history' = [Draw(1) EXCEPT !.cut = TRUE]
    BY <1>10 DEF RefuseRepeatFails
  <2>2. history'.drawn = history.drawn + 1 /\ history'.dropped = history.dropped
    BY <1>a, <2>1, DrawTyped, Cut
  <2> QED
    BY <1>a, <1>10, <2>2, Answered DEF RefuseRepeatFails, Requested
<1>11. CASE CancelTools
  BY <1>a, <1>11, Cut, SameMeter DEF CancelTools
<1>12. ASSUME NEW results, FinishToolsFails(results)  PROVE Metered'
  BY <1>a, <1>12, RoundObserved, SameMeter DEF FinishToolsFails
<1>13. ASSUME NEW results, NEW lost, NEW noticed, FinishTools(results, lost, noticed)
       PROVE  Metered'
  <2>1. history'.drawn = history.drawn /\ history'.dropped = history.dropped
    BY <1>a, <1>13, RoundObserved DEF FinishTools, Observe, Observations
  <2> QED
    BY <1>a, <1>13, <2>1, SameMeter DEF FinishTools
<1>14. CASE Bill
  <2>1. failed = 0
    BY <1>a, <1>14 DEF Bill, TInv, Position, Requested
  <2>2. usage' = 0 /\ failed' = 0
    BY <1>14, <2>1 DEF Bill
  <2> QED
    BY <1>14, <2>2, Billing DEF Metered
<1>15. CASE Reopen
  BY <1>a, <1>15, SameMeter DEF Reopen
<1> QED
  BY <1>1, <1>2, <1>3, <1>4, <1>5, <1>6, <1>7, <1>8, <1>9, <1>10, <1>11, <1>12, <1>13,
     <1>14, <1>15 DEF Next, TurnStep

-----------------------------------------------------------------------------
(* Results *)

LEMMA SameConversation ==
    ASSUME Settled, UNCHANGED conversation, history'.cut <=> history.cut,
           pc # "tools", pc' # "tools"
    PROVE  Settled'
BY DEF Settled, conversation

LEMMA Pushed ==
    ASSUME TypeOK, Settled, PushOther, open' = 0, history'.cut <=> history.cut, pc # "tools"
    PROVE  Settled'
<1> SUFFICES ASSUME ~history'.cut PROVE ~stranded' /\ open' = 0
  BY DEF Settled
<1>1. ~stranded /\ ~(open > 0)
  BY DEF Settled
<1>2. ~stranded'
  BY <1>1 DEF PushOther
<1> QED
  BY <1>2

LEMMA SettledStep == IInv /\ [Next]_vars => Settled'
<1> SUFFICES ASSUME IInv, [Next]_vars PROVE Settled'
  OBVIOUS
<1>a. TypeOK /\ Settled /\ history \in Observations
  BY DEF IInv, TInv, TypeOK
<1>1. CASE UNCHANGED vars
  BY <1>a, <1>1 DEF vars, Settled
<1>2. CASE (\E p \in Policies : Submit(p)) \/ IterateCancelled
  BY <1>a, <1>2, SameConversation DEF Submit, IterateCancelled, End
<1>b. CASE Cancel \/ Hang
  BY <1>a, <1>b DEF Cancel, Hang, Settled, conversation
<1>c. CASE Begin \/ IterateFails
  BY <1>a, <1>c, SameConversation, Pushed DEF Begin, IterateFails, End
<1>3. CASE Iterate \/ Squeeze
  <2>1. history'.cut = history.cut
    BY <1>a, <1>3, RequestSeen DEF Iterate, Squeeze
  <2> QED
    BY <1>a, <1>3, <2>1, SameConversation, Pushed DEF Iterate, Squeeze, Request
<1>4. ASSUME NEW kind \in Failures, Redraw(kind) \/ GiveUp(kind)  PROVE Settled'
  <2>1. history'.cut = history.cut
    BY <1>a, <1>4, BilledTyped, DrawTyped DEF Redraw, GiveUp
  <2> QED
    BY <1>a, <1>4, <2>1, SameConversation DEF Redraw, GiveUp, Requested, End
<1>6. CASE CancelRequest
  <2>1. history'.cut = history.cut
    BY <1>a, <1>6 DEF CancelRequest, Observations
  <2> QED
    BY <1>a, <1>6, <2>1, SameConversation DEF CancelRequest, Requested, End
<1>7. CASE RespondText
  <2>1. history'.cut = history.cut
    BY <1>a, <1>7, AnswerShown, DrawTyped DEF RespondText
  <2> QED
    BY <1>a, <1>7, <2>1, Pushed DEF RespondText
<1>8. CASE RespondSqueezed \/ RespondFails
  <2>1. history'.cut = history.cut
    BY <1>a, <1>8, DrawTyped DEF RespondSqueezed, RespondFails
  <2> QED
    BY <1>a, <1>8, <2>1, Pushed, SameConversation DEF RespondSqueezed, RespondFails, Requested, End
<1>9. ASSUME NEW calls \in Rounds, RespondCalls(calls)  PROVE Settled'
  <2>1. history'.cut = history.cut
    BY <1>a, <1>9, DrawTyped DEF RespondCalls
  <2> QED
    <3>1. pc = "chat" /\ pc' = "tools" /\ PushOther
      BY <1>9 DEF RespondCalls
    <3>2. ~history.cut => ~stranded /\ ~(open > 0)
      BY <1>a, <3>1 DEF Settled
    <3>3. ~history.cut => ~stranded'
      BY <3>1, <3>2 DEF PushOther
    <3> QED
      BY <2>1, <3>1, <3>3 DEF Settled
<1>d. ASSUME NEW calls \in Rounds, RefuseRepeat(calls)  PROVE Settled'
  <2>1. history'.cut = history.cut
    BY <1>a, <1>d, AnswerShown DEF RefuseRepeat
  <2> QED
    BY <1>a, <1>d, <2>1, Pushed DEF RefuseRepeat
<1>10. ASSUME NEW calls \in Rounds, NEW stored \in 0..(Len(calls) - 1),
              RefuseRepeatFails(calls, stored)
       PROVE  Settled'
  <2>1. history' = [Draw(1) EXCEPT !.cut = TRUE]
    BY <1>10 DEF RefuseRepeatFails
  <2>2. history'.cut
    BY <1>a, <2>1, DrawTyped, Cut
  <2> QED
    BY <2>2 DEF Settled
<1>11. CASE CancelTools
  BY <1>a, <1>11, Cut DEF CancelTools, Settled
<1>12. ASSUME NEW results, FinishToolsFails(results)  PROVE Settled'
  <2>1. history'.cut = history.cut
    BY <1>a, <1>12, RoundObserved DEF FinishToolsFails
  <2> QED
    BY <1>a, <1>12, <2>1 DEF FinishToolsFails, Settled
<1>13. ASSUME NEW results, NEW lost, NEW noticed, FinishTools(results, lost, noticed)
       PROVE  Settled'
  <2>1. history'.cut <=> history.cut \/ lost # {}
    BY <1>a, <1>13 DEF FinishTools, Observe, Observations
  <2>2. CASE lost # {}
    BY <2>1, <2>2 DEF Settled
  <2>3. CASE lost = {}
    <3>1. Cardinality(lost) = 0
      BY <2>3, FS_EmptySet
    <3>2. open' = 0 /\ (stranded' <=> stranded)
      BY <1>a, <1>13, <2>3, <3>1 DEF FinishTools, TypeOK
    <3> QED
      BY <1>a, <2>1, <2>3, <3>2 DEF Settled
  <2> QED
    BY <2>2, <2>3
<1>14. CASE Bill
  BY <1>a, <1>14, Billing, SameConversation DEF Bill
<1>15. CASE Reopen
  BY <1>a, <1>15 DEF Reopen, Settled
<1> QED
  BY <1>1, <1>2, <1>3, <1>4, <1>6, <1>7, <1>8, <1>9, <1>10, <1>11, <1>12, <1>13,
     <1>14, <1>15, <1>b, <1>c, <1>d DEF Next, TurnStep

-----------------------------------------------------------------------------
(* Warnings *)

(* Nothing struck, nothing forgotten. *)
LEMMA SameWarned ==
    ASSUME Warned, gates'.policy = gates.policy,
           gates'.repeats = gates.repeats,
           history'.shown = history.shown, history'.seen = history.seen,
           history.cut => history'.cut, pc # "billing",
           pc' = pc \/ ~(Requested \/ pc = "tools")' \/ (pc = "chat" /\ pc' = "tools")
    PROVE  Warned'
BY DEF Warned, Requested

LEMMA AskedWarned ==
    ASSUME TypeOK, Warned, pc = "loop", gates' = gates, NEW next, Request(next)
    PROVE  Warned'
<1>1. /\ history'.seen = history.shown /\ history'.shown = history.shown
      /\ history'.cut = history.cut
  BY RequestSeen DEF TypeOK
<1> QED
  BY <1>1 DEF Warned

(* After a round the policy strikes of the rules it ran into were shown. *)
LEMMA FinishToolsWarned ==
    ASSUME IInv, NEW results \in [DOMAIN round -> Results],
           NEW lost \in SUBSET DOMAIN round, NEW noticed \in BOOLEAN,
           FinishTools(results, lost, noticed)
    PROVE  Warned'
<1>a. TInv /\ Warned /\ history \in Observations
  BY DEF IInv, TInv, TypeOK
<1>b. pc = "tools" /\ pc' \in {"loop", "billing"}
  BY FinishToolsEnds DEF FinishTools
<1> DEFINE stored == [i \in DOMAIN results \ lost |-> results[i]]
<1>1. history' = [Observe(BlockedBy(stored)) EXCEPT !.cut = @ \/ lost # {}]
  BY DEF FinishTools
<1>2. /\ history'.shown = history.shown \cup BlockedBy(stored)
      /\ history'.cut <=> history.cut \/ lost # {}
  <2> HIDE DEF stored
  <2> QED
    BY <1>a, <1>1 DEF Observe, Observations
<1>3. lost = {} => BlockedBy(stored) = BlockedBy(results)
  <2>1. lost = {} => stored = results
    OBVIOUS
  <2> QED
    BY <2>1
<1>4. gates'.repeats = gates.repeats
  BY <1>a, <1>b, FinishToolsEnds, StruckTyped, GateTyped
<1>5. ASSUME NEW r \in Rules, gates'.policy[r] > 0
      PROVE  r \in history'.shown \/ history'.cut
  <2>1. CASE r \in BlockedBy(results)
    BY <1>2, <1>3, <2>1
  <2>2. CASE r \notin BlockedBy(results)
    <3>1. gates'.policy[r] = gates.policy[r]
      BY <1>a, <1>b, <2>2, FinishToolsEnds, StruckTyped, GateTyped
    <3> QED
      BY <1>a, <1>2, <1>5, <3>1 DEF Warned
  <2> QED
    BY <2>1, <2>2
<1> QED
  BY <1>a, <1>b, <1>2, <1>4, <1>5 DEF Warned, Requested

LEMMA WarnedStep == IInv /\ [Next]_vars => Warned'
<1> SUFFICES ASSUME IInv, [Next]_vars PROVE Warned'
  OBVIOUS
<1>a. TypeOK /\ TInv /\ Warned /\ history \in Observations
  BY DEF IInv, TInv, TypeOK
<1>1. CASE UNCHANGED vars
  BY <1>a, <1>1 DEF vars, Warned, Requested
<1>2. CASE (\E p \in Policies : Submit(p)) \/ Cancel \/ Hang \/ Begin \/ IterateCancelled
           \/ IterateFails \/ Reopen
  BY <1>a, <1>2, SameWarned
  DEF Submit, Cancel, Hang, Begin, IterateCancelled, IterateFails, Reopen, End, Requested
<1>3. CASE Iterate \/ Squeeze
  BY <1>a, <1>3, AskedWarned DEF Iterate, Squeeze
<1>4. ASSUME NEW kind \in Failures, Redraw(kind) \/ GiveUp(kind)  PROVE Warned'
  <2>1. /\ history'.shown = history.shown /\ history'.seen = history.seen
        /\ history'.cut = history.cut
    BY <1>a, <1>4, BilledTyped, DrawTyped DEF Redraw, GiveUp
  <2> QED
    BY <1>a, <1>4, <2>1, SameWarned DEF Redraw, GiveUp, Requested, End
<1>6. CASE CancelRequest
  <2>1. /\ history'.shown = history.shown /\ history'.seen = history.seen
        /\ history'.cut = history.cut
    BY <1>a, <1>6 DEF CancelRequest, Observations
  <2> QED
    BY <1>a, <1>6, <2>1, SameWarned DEF CancelRequest, Requested, End
<1>7. CASE RespondText
  <2>1. /\ history.shown \subseteq history'.shown /\ history'.cut = history.cut
    BY <1>a, <1>7, AnswerShown, DrawTyped DEF RespondText
  <2>2. gates'.policy = gates.policy /\ gates'.repeats = gates.repeats
    BY <1>a, <1>7 DEF RespondText, TypeOK, GateStates
  <2>3. pc = "chat" /\ pc' \in {"loop", "billing"}
    BY <1>7 DEF RespondText, Continue, End
  <2> QED
    BY <1>a, <2>1, <2>2, <2>3 DEF Warned, Requested
<1>8. CASE RespondSqueezed \/ RespondFails
  <2>1. /\ history'.shown = history.shown /\ history'.seen = history.seen
        /\ history'.cut = history.cut
    BY <1>a, <1>8, DrawTyped DEF RespondSqueezed, RespondFails
  <2> QED
    BY <1>a, <1>8, <2>1, SameWarned DEF RespondSqueezed, RespondFails, Requested, End
<1>9. ASSUME NEW calls \in Rounds, RespondCalls(calls)  PROVE Warned'
  <2>1. /\ history'.shown = history.shown /\ history'.seen = history.seen
        /\ history'.cut = history.cut
    BY <1>a, <1>9, DrawTyped DEF RespondCalls
  <2>2. pc = "chat" /\ pc' = "tools"
    BY <1>9 DEF RespondCalls
  <2>3. gates'.policy = gates.policy /\ gates'.repeats = 0
    <3>1. gates' = [Recorded(calls) EXCEPT !.repeats = 0]
      BY <1>9 DEF RespondCalls
    <3> QED
      BY <1>a, <2>2, <3>1, Limits, RecordedTyped, RepeatsUpdated
  <2> QED
    BY <1>a, <2>1, <2>2, <2>3 DEF Warned, Requested
<1>d. ASSUME NEW calls \in Rounds, RefuseRepeat(calls)  PROVE Warned'
  <2>1. /\ history'.shown = history.shown \cup {"repeat"} /\ history'.cut = history.cut
    BY <1>a, <1>d, AnswerShown DEF RefuseRepeat
  <2>2. pc = "chat" /\ pc' \in {"loop", "billing"}
    BY <1>d DEF RefuseRepeat, Continue, End
  <2>3. gates'.policy = gates.policy
    <3>1. gates' = [Recorded(calls) EXCEPT !.repeats = gates.repeats + 1]
      BY <1>a, <1>d, <2>2, RecordedTyped DEF RefuseRepeat
    <3> QED
      BY <1>a, <2>2, <3>1, Answerable, RecordedTyped, RepeatsUpdated
  <2> QED
    BY <1>a, <2>1, <2>2, <2>3 DEF Warned, Requested
<1>10. ASSUME NEW calls \in Rounds, NEW stored \in 0..(Len(calls) - 1),
              RefuseRepeatFails(calls, stored)
       PROVE  Warned'
  <2>1. history' = [Draw(1) EXCEPT !.cut = TRUE]
    BY <1>10 DEF RefuseRepeatFails
  <2>2. history'.cut
    BY <1>a, <2>1, DrawTyped, Cut
  <2>3. pc' = "billing"
    BY <1>10 DEF RefuseRepeatFails, End
  <2> QED
    BY <2>2, <2>3 DEF Warned, Requested
<1>11. CASE CancelTools
  BY <1>a, <1>11, Cut, SameWarned DEF CancelTools, End, Requested
<1>12. ASSUME NEW results \in [DOMAIN round -> Results], FinishToolsFails(results)
       PROVE  Warned'
  <2>1. /\ history.shown \subseteq history'.shown /\ history'.cut = history.cut
    BY <1>a, <1>12, RoundObserved DEF FinishToolsFails
  <2>2. pc = "tools" /\ pc' = "billing" /\ gates' = Struck(results)
    BY <1>12 DEF FinishToolsFails, End
  <2>3. gates'.policy = gates.policy
    BY <1>a, <2>2, StruckTyped
  <2> QED
    BY <1>a, <2>1, <2>2, <2>3 DEF Warned, Requested
<1>13. ASSUME NEW results \in [DOMAIN round -> Results], NEW lost \in SUBSET DOMAIN round,
              NEW noticed \in BOOLEAN, FinishTools(results, lost, noticed)
       PROVE  Warned'
  BY <1>13, FinishToolsWarned
<1>14. CASE Bill
  <2>1. gates'.repeats = 0 /\ \A r \in Rules : gates'.policy[r] = 0
    BY <1>14, FreshTyped DEF Bill
  <2>2. pc' = "idle"
    BY <1>14 DEF Bill
  <2> QED
    BY <2>1, <2>2 DEF Warned, Requested
<1> QED
  BY <1>1, <1>2, <1>3, <1>4, <1>6, <1>7, <1>8, <1>9, <1>10, <1>11, <1>12, <1>13,
     <1>14, <1>d DEF Next, TurnStep

-----------------------------------------------------------------------------
(* Halts *)

LEMMA PolicyHaltsThere ==
    ASSUME Next, outcome = "none", outcome' = "policy_halt"
    PROVE  \E results \in [DOMAIN round -> Results] :
               \E lost \in SUBSET DOMAIN round, noticed \in BOOLEAN :
                   FinishTools(results, lost, noticed)
BY DEF Next, TurnStep, Submit, Cancel, Hang, Begin, Iterate, IterateCancelled, IterateFails, Squeeze,
       SqueezeError, Redraw, GiveUp, CancelRequest, RespondText, RespondSqueezed, RespondFails,
       RespondCalls, RefuseRepeat, RefuseRepeatFails, CancelTools, FinishToolsFails, Bill,
       Reopen, End, Continue

LEMMA RepeatHaltsThere ==
    ASSUME Next, outcome = "none", outcome' = "no_progress"
    PROVE  \E calls \in Rounds : RefuseRepeat(calls)
<1>1. ASSUME NEW results, NEW lost, NEW noticed, FinishTools(results, lost, noticed)
      PROVE  FALSE
  BY <1>1, FinishToolsEnds
<1> QED
  BY <1>1
  DEF Next, TurnStep, Submit, Cancel, Hang, Begin, Iterate, IterateCancelled, IterateFails, Squeeze,
      SqueezeError, Redraw, GiveUp, CancelRequest, RespondText, RespondSqueezed, RespondFails,
      RespondCalls, RefuseRepeatFails, CancelTools, FinishToolsFails, Bill, Reopen, End, Continue

LEMMA PolicyHaltStep ==
    ASSUME IInv, ~history.cut, NEW results \in [DOMAIN round -> Results], NEW lost, NEW noticed,
           FinishTools(results, lost, noticed), outcome' = "policy_halt", outcome = "none"
    PROVE  \/ gates'.blocked >= PolicyRoundLimit
           \/ \E r \in history.seen \cap Rules : gates'.policy[r] > gates.policy[r]
<1>1. TInv /\ Warned /\ pc = "tools" /\ history \in Observations /\ gates \in GateStates
  BY DEF IInv, FinishTools, TInv, TypeOK
<1>2. gates' = Gate(results) /\ PolicyHalt(results)
  BY FinishToolsEnds
<1>3. CASE gates.blocked + 1 >= PolicyRoundLimit
  BY <1>1, <1>2, <1>3, GateTyped
<1>4. CASE \E r \in BlockedBy(results) : PolicyAfter(results)[r] >= PolicyStrikeLimit
  <2>1. PICK r \in BlockedBy(results) : PolicyAfter(results)[r] >= PolicyStrikeLimit
    BY <1>4
  <2>2. r \in Rules /\ gates.policy[r] \in Nat
    BY <1>1 DEF BlockedBy, GateStates
  <2>3. gates'.policy[r] = gates.policy[r] + 1 /\ PolicyAfter(results)[r] = gates.policy[r] + 1
    BY <1>1, <1>2, <2>1, <2>2, GateTyped
  <2>4. gates.policy[r] > 0
    BY <2>1, <2>2, <2>3, Limits
  <2>5. r \in history.seen
    BY <1>1, <2>2, <2>4 DEF Warned
  <2> QED
    BY <2>2, <2>3, <2>5
<1> QED
  BY <1>2, <1>3, <1>4 DEF PolicyHalt

LEMMA RepeatHaltStep ==
    ASSUME IInv, NEW calls \in Rounds, RefuseRepeat(calls), outcome' = "no_progress",
           outcome = "none"
    PROVE  "repeat" \in history.seen
<1>1. TInv /\ Warned /\ pc = "chat"
  BY DEF IInv, RefuseRepeat
<1>2. gates.repeats + 1 >= RepeatStrikeLimit
  BY DEF RefuseRepeat, Continue
<1>3. gates.repeats > 0
  BY <1>1, <1>2, Answerable, Limits
<1> QED
  BY <1>1, <1>3 DEF Warned, Requested

-----------------------------------------------------------------------------
(* A turn comes to an end: what TurnEnds rests on besides fairness. *)

(* An iteration is its request, the retries of its completion, the round.  *)
OneIteration == MaxRetries + 3
Iterations(n) == n * OneIteration

(* Bounds the steps left until the turn is billed, wherever it is. *)
StepsLeft ==
    CASE pc = "idle"    -> 0
      [] pc = "begin"   -> Iterations(MaxIterations + 1) + 2
      [] pc = "loop"    -> Iterations(MaxIterations - iteration + 1) + 1
      [] Requested      -> Iterations(MaxIterations - iteration) + MaxRetries - attempt + 3
      [] pc = "tools"   -> Iterations(MaxIterations - iteration) + 2
      [] pc = "billing" -> 1

TurnBounded == StepsLeft \in 0..((MaxIterations + 1) * (MaxRetries + 3) + 2)

TurnShrinks ==
    [][pc # "idle" => StepsLeft' <= StepsLeft /\ (TurnStep => StepsLeft' < StepsLeft)]_vars

LEMMA IterationsFacts ==
    /\ \A n \in Nat : Iterations(n) \in Nat /\ Iterations(n + 1) = Iterations(n) + MaxRetries + 3
    /\ \A m, n \in Nat : m <= n => Iterations(m) <= Iterations(n)
<1>1. OneIteration \in Nat /\ OneIteration = MaxRetries + 3
  BY Limits DEF OneIteration
<1> HIDE DEF OneIteration
<1>2. \A n \in Nat : n * OneIteration \in Nat
                     /\ (n + 1) * OneIteration = n * OneIteration + OneIteration
  BY <1>1
<1>3. ASSUME NEW m \in Nat, NEW n \in Nat, m <= n
      PROVE  m * OneIteration <= n * OneIteration
  <2>1. PICK d \in Nat : n = m + d
    <3>1. n - m \in Nat /\ n = m + (n - m)
      BY <1>3
    <3> QED
      BY <3>1
  <2>2. (m + d) * OneIteration = m * OneIteration + d * OneIteration
    BY <1>1
  <2> QED
    BY <1>1, <1>2, <2>1, <2>2
<1> QED
  BY <1>1, <1>2, <1>3, Limits DEF Iterations

(* What the iterations after this one may take, and what all may. *)
LEMMA RestFacts ==
    ASSUME TInv
    PROVE  /\ iteration \in Nat /\ iteration <= MaxIterations /\ attempt \in 0..MaxRetries
           /\ MaxIterations - iteration \in Nat
           /\ Iterations(MaxIterations - iteration) \in Nat
           /\ Iterations(MaxIterations - iteration + 1)
                 = Iterations(MaxIterations - iteration) + MaxRetries + 3
           /\ Iterations(MaxIterations + 1) \in Nat
           /\ Iterations(MaxIterations - iteration + 1) <= Iterations(MaxIterations + 1)
<1>1. /\ iteration \in Nat /\ iteration <= MaxIterations /\ attempt \in 0..MaxRetries
      /\ MaxIterations - iteration \in Nat /\ MaxIterations - iteration + 1 \in Nat
      /\ MaxIterations + 1 \in Nat
      /\ MaxIterations - iteration + 1 <= MaxIterations + 1
  BY Limits DEF TInv, TypeOK
<1> QED
  BY <1>1, IterationsFacts

(* StepsLeft, stage by stage. *)
LEMMA Stages ==
    ASSUME TInv
    PROVE  /\ pc = "idle" => StepsLeft = 0
           /\ pc = "begin" => StepsLeft = Iterations(MaxIterations + 1) + 2
           /\ pc = "loop" => StepsLeft = Iterations(MaxIterations - iteration + 1) + 1
           /\ Requested => StepsLeft = Iterations(MaxIterations - iteration)
                                         + MaxRetries - attempt + 3
           /\ pc = "tools" => StepsLeft = Iterations(MaxIterations - iteration) + 2
           /\ pc = "billing" => StepsLeft = 1
BY DEF StepsLeft, Requested

LEMMA Bounded == TInv => TurnBounded
<1> SUFFICES ASSUME TInv PROVE TurnBounded
  OBVIOUS
<1>1. pc \in {"idle", "begin", "loop", "chat", "tools", "squeeze", "billing"}
  BY DEF TInv, TypeOK
<1>2. StepsLeft \in 0..(Iterations(MaxIterations + 1) + 2)
  BY <1>1, Stages, RestFacts, Limits DEF Requested
<1> QED
  BY <1>2 DEF TurnBounded, Iterations, OneIteration

LEMMA EndShrinks ==
    ASSUME TInv, pc \notin {"idle", "billing"}, pc' = "billing"
    PROVE  StepsLeft' < StepsLeft
<1>1. StepsLeft' = 1
  BY DEF StepsLeft, Requested
<1>2. pc \in {"begin", "loop", "chat", "tools", "squeeze"}
  BY DEF TInv, TypeOK
<1> QED
  BY <1>1, <1>2, Stages, RestFacts, Limits DEF Requested

LEMMA ContinueShrinks ==
    ASSUME TInv, pc \in {"chat", "tools"}, pc' = "loop", iteration' = iteration + 1
    PROVE  StepsLeft' < StepsLeft
<1>1. StepsLeft' = Iterations(MaxIterations - iteration' + 1) + 1
  BY DEF StepsLeft, Requested
<1>2. MaxIterations - iteration' + 1 = MaxIterations - iteration
  BY RestFacts, Limits
<1> QED
  BY <1>1, <1>2, Stages, RestFacts, Limits DEF Requested

(* The steps that go on to the next stage. *)
LEMMA AdvanceShrinks ==
    ASSUME TInv, Begin \/ Iterate \/ Squeeze \/ Bill
                 \/ (\E kind \in Failures : Redraw(kind))
                 \/ (\E calls \in Rounds : RespondCalls(calls))
    PROVE  StepsLeft' < StepsLeft
<1>1. CASE Begin
  <2>1. CASE pc' = "billing"
    BY <1>1, <2>1, EndShrinks DEF Begin
  <2>2. CASE pc' = "loop"
    <3>1. StepsLeft' = Iterations(MaxIterations - iteration + 1) + 1
      BY <1>1, <2>2 DEF Begin, StepsLeft, Requested
    <3>2. pc = "begin"
      BY <1>1 DEF Begin
    <3> QED
      BY <3>1, <3>2, Stages, RestFacts, Limits
  <2> QED
    BY <1>1, <2>1, <2>2 DEF Begin, End
<1>2. CASE Iterate \/ Squeeze
  <2>1. pc = "loop" /\ pc' \in {"chat", "squeeze"} /\ attempt' = 0 /\ iteration' = iteration
    BY <1>2 DEF Iterate, Squeeze, Request
  <2>2. StepsLeft' = Iterations(MaxIterations - iteration) + MaxRetries + 3
    BY <2>1, RestFacts, Limits DEF StepsLeft, Requested
  <2> QED
    BY <2>1, <2>2, Stages, RestFacts, Limits
<1>3. CASE Bill
  <2>1. pc = "billing" /\ pc' = "idle"
    BY <1>3 DEF Bill
  <2>2. StepsLeft' = 0
    BY <2>1 DEF StepsLeft, Requested
  <2> QED
    BY <2>1, <2>2, Stages
<1>4. ASSUME NEW kind \in Failures, Redraw(kind) PROVE StepsLeft' < StepsLeft
  <2>1. Requested /\ Requested' /\ attempt' = attempt + 1 /\ iteration' = iteration /\ pc' = pc
    BY <1>4 DEF Redraw, Requested
  <2>2. StepsLeft' = Iterations(MaxIterations - iteration) + MaxRetries - (attempt + 1) + 3
    BY <2>1 DEF StepsLeft, Requested
  <2> QED
    BY <2>1, <2>2, Stages, RestFacts, Limits
<1>5. ASSUME NEW calls \in Rounds, RespondCalls(calls) PROVE StepsLeft' < StepsLeft
  <2>1. pc = "chat" /\ pc' = "tools" /\ iteration' = iteration
    BY <1>5 DEF RespondCalls
  <2>2. StepsLeft' = Iterations(MaxIterations - iteration) + 2
    BY <2>1 DEF StepsLeft, Requested
  <2> QED
    BY <2>1, <2>2, Stages, RestFacts, Limits DEF Requested
<1> QED
  BY <1>1, <1>2, <1>3, <1>4, <1>5

(* Every other step of the turn ends it or goes on to the next iteration. *)
LEMMA StepShrinks == TInv /\ TurnStep => StepsLeft' < StepsLeft
<1> SUFFICES ASSUME TInv, TurnStep PROVE StepsLeft' < StepsLeft
  OBVIOUS
<1> DEFINE Ends == pc \notin {"idle", "billing"} /\ pc' = "billing"
           Continues == pc \in {"chat", "tools"} /\ pc' = "loop" /\ iteration' = iteration + 1
<1>1. CASE \/ IterateCancelled \/ IterateFails \/ CancelRequest \/ CancelTools
           \/ RespondSqueezed \/ RespondFails
           \/ \E kind \in Failures : GiveUp(kind)
  <2>1. Ends
    BY <1>1 DEF IterateCancelled, IterateFails, CancelRequest, CancelTools, RespondSqueezed,
       RespondFails, GiveUp, End, Requested
  <2> QED
    BY <2>1, EndShrinks
<1>2. CASE RespondText
  <2>1. Ends \/ Continues
    BY <1>2 DEF RespondText, End, Continue
  <2> QED
    BY <2>1, EndShrinks, ContinueShrinks
<1>3. ASSUME NEW calls \in Rounds,
             \/ RefuseRepeat(calls)
             \/ \E stored \in 0..(Len(calls) - 1) : RefuseRepeatFails(calls, stored)
      PROVE  StepsLeft' < StepsLeft
  <2>1. Ends \/ Continues
    BY <1>3 DEF RefuseRepeat, RefuseRepeatFails, End, Continue
  <2> QED
    BY <2>1, EndShrinks, ContinueShrinks
<1>4. ASSUME NEW results \in [DOMAIN round -> Results],
             \/ FinishToolsFails(results)
             \/ \E lost \in SUBSET DOMAIN round, noticed \in BOOLEAN :
                   FinishTools(results, lost, noticed)
      PROVE  StepsLeft' < StepsLeft
  <2>1. CASE FinishToolsFails(results)
    <3>1. Ends
      BY <2>1 DEF FinishToolsFails, End
    <3> QED
      BY <3>1, EndShrinks
  <2>2. ASSUME NEW lost \in SUBSET DOMAIN round, NEW noticed \in BOOLEAN,
               FinishTools(results, lost, noticed)
        PROVE  StepsLeft' < StepsLeft
    <3>1. Ends \/ Continues
      BY <2>2, Zenon DEF FinishTools, End, Continue
    <3> QED
      BY <3>1, EndShrinks, ContinueShrinks
  <2> QED
    BY <1>4, <2>1, <2>2
<1> QED
  BY <1>1, <1>2, <1>3, <1>4, AdvanceShrinks DEF TurnStep

LEMMA NeverMore ==
    ASSUME TInv, TurnBounded, TurnBounded', [Next]_vars, pc # "idle"
    PROVE  StepsLeft' <= StepsLeft
<1>1. StepsLeft \in Nat /\ StepsLeft' \in Nat
  BY DEF TurnBounded
<1>2. CASE TurnStep
  BY <1>1, <1>2, StepShrinks
<1>3. CASE Cancel \/ Hang \/ UNCHANGED vars
  <2>1. UNCHANGED <<pc, iteration, attempt>>
    BY <1>3 DEF Cancel, Hang, vars, meter
  <2>2. StepsLeft' = StepsLeft
    BY <2>1 DEF StepsLeft, Requested
  <2> QED
    BY <1>1, <2>2
<1> QED
  BY <1>2, <1>3 DEF Next, Submit, Reopen

-----------------------------------------------------------------------------
(* The theorems *)

LEMMA Inductive == Spec => []IInv
<1>1. IInv /\ [Next]_vars => IInv'
  BY StepTyped, MeteredStep, SettledStep, WarnedStep DEF IInv
<1> QED
  BY InitIInv, <1>1, PTL DEF Spec

(* A turn's counters, gates and conversation stay within their types. *)
THEOREM TurnTypes == Spec => []TypeOK
<1>1. IInv => TypeOK
  BY DEF IInv, TInv
<1> QED
  BY Inductive, <1>1, PTL

(* No completion is asked for with a tool call that has no result, unless  *)
(* results were lost to a cancel or a failed write.                        *)
THEOREM AnsweredAlways == Spec => []AnsweredBeforeCompletion
<1>1. IInv => AnsweredBeforeCompletion
  BY DEF IInv, Settled, Requested, AnsweredBeforeCompletion
<1> QED
  BY Inductive, <1>1, PTL

(* The usage a turn is billed for is every draw but those a cancel dropped. *)
THEOREM BilledAlways == Spec => []DrawsBilled
<1>1. IInv => DrawsBilled
  <2> SUFFICES ASSUME IInv, pc = "billing" PROVE usage + history.dropped = history.drawn
    BY DEF DrawsBilled
  <2> QED
    BY DEF IInv, TInv, TypeOK, Position, Requested, Metered, Observations
<1> QED
  BY Inductive, <1>1, PTL

(* A turn is halted by the policy gate or for repeating itself only after  *)
(* the model was asked again with the guidance in its conversation.        *)
THEOREM SeenAlways == Spec => SeenBeforeHalt
<1>1. IInv /\ [Next]_vars => [PolicyHaltSeen /\ RepeatHaltSeen]_vars
  <2> SUFFICES ASSUME IInv, Next PROVE PolicyHaltSeen /\ RepeatHaltSeen
    OBVIOUS
  <2>1. PolicyHaltSeen
    BY PolicyHaltsThere, PolicyHaltStep DEF PolicyHaltSeen
  <2>2. RepeatHaltSeen
    BY RepeatHaltsThere, RepeatHaltStep DEF RepeatHaltSeen
  <2> QED
    BY <2>1, <2>2
<1> QED
  BY Inductive, <1>1, PTL DEF Spec, SeenBeforeHalt

(* A turn never takes more steps than its iterations, each with its request, *)
(* every retry of its completion and a round of tools, allow: every step of  *)
(* the turn brings the natural number StepsLeft down, and nothing else that  *)
(* happens meanwhile raises it.  So no turn goes round for ever; that it     *)
(* ends needs, besides, that it is not left waiting in a call (Hang), and    *)
(* the fairness of TurnStep: TurnEnds.                                       *)
THEOREM TurnShrinksAlways == Spec => []TurnBounded /\ TurnShrinks
<1> DEFINE Shrinks == pc # "idle" => StepsLeft' <= StepsLeft /\ (TurnStep => StepsLeft' < StepsLeft)
<1>1. IInv /\ TurnBounded /\ TurnBounded' /\ [Next]_vars => [Shrinks]_vars
  BY StepShrinks, NeverMore DEF IInv
<1>2. IInv => TurnBounded
  BY Bounded DEF IInv
<1> HIDE DEF Shrinks
<1>3. Spec => []TurnBounded
  BY Inductive, <1>2, PTL
<1>4. Spec => [][Shrinks]_vars
  BY Inductive, <1>1, <1>3, PTL DEF Spec
<1> QED
  BY <1>3, <1>4, PTL DEF TurnShrinks, Shrinks
=============================================================================
