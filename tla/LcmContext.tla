----------------------------- MODULE LcmContext -----------------------------
(***************************************************************************)
(* One conversation of the LCM context engine (src/context/lcm): the       *)
(* `messages` table that only grows, the `summaries` DAG, and              *)
(* `context_items`, the ordered list of raw messages and summaries that    *)
(* assemble() sends to the provider.  The agent's turn pushes messages;    *)
(* compaction replaces ranges of context_items by summaries, one SQLite    *)
(* transaction per summary with an LLM call awaited before each; a crash   *)
(* may fall between any two transactions, and reopening the conversation   *)
(* first repairs tool calls that never got a result.                       *)
(*                                                                         *)
(* A message is named by its position (seq + 1), a summary by its position *)
(* in the order of creation: derive_summary_id hashes the source ids, and  *)
(* SourcesNeverRepeat below is what makes those ids distinct.              *)
(***************************************************************************)
EXTENDS LcmConfig, Sequences, FiniteSets, FiniteSetsExt

CONSTANTS LeafBudget,     \* context.lcm.leaf_chunk_tokens
          Weights,        \* the token counts a message may have
          SummaryTokens,  \* the token counts a summary may have
          MaxMessages,    \* bound: a turn pushes no message beyond it
          MaxCalls        \* bound: tool calls of one assistant message

(* config.rs refuses a budget of zero. *)
ASSUME LcmAssumption ==
    /\ LeafBudget \in Nat \ {0}
    /\ Weights \subseteq Nat
    /\ SummaryTokens \subseteq Nat
    /\ MaxMessages \in Nat
    /\ MaxCalls \in Nat \ {0}

VARIABLES messages,   \* table messages, by seq: a sequence that only grows
          items,      \* table context_items: ordinal -> message or summary
          summaries,  \* table summaries with its links, by creation
          counts,     \* its column descendant_count
          phase,      \* what the engine's owner is doing
          resume,     \* the phase compaction returns to
          open,       \* the ToolCalls message whose results are being pushed
          eligible,   \* leaf pass: ordinals loaded and not yet summarized
          runs,       \* condensed pass: runs loaded and not yet condensed
          base        \* history: number of messages when last cleared

vars == <<messages, items, summaries, counts, phase, resume, open, eligible, runs, base>>
tables == <<messages, items, summaries, counts>>

(* "text" is an assistant or system message: nothing here tells them apart. *)
Roles == {"user", "text", "calls", "tool"}
Phases == {"idle", "turn", "leaf", "condense", "repair", "down"}

(* `call` and `slot`: a "tool" message answers call number `slot` of       *)
(* message `call`; a "calls" message makes calls 1..slot.                  *)
Message == [role : Roles, tokens : Weights, call : Nat, slot : Nat]

(* `sources` are message ids for a leaf and summary ids otherwise; `covers` *)
(* is every message below.                                                  *)
Summary == [depth : Nat, tokens : SummaryTokens, sources : SUBSET Nat,
            covers : SUBSET Nat]

Item == [kind : {"message", "summary"}, id : Nat]

-----------------------------------------------------------------------------
(* Reading the active context *)

Raw == {o \in DOMAIN items : items[o].kind = "message"}
Nodes == {o \in DOMAIN items : items[o].kind = "summary"}
MessageAt(o) == messages[items[o].id]
SummaryAt(o) == summaries[items[o].id]

(* The messages that the item at ordinal o stands for. *)
Covers(o) == IF o \in Raw THEN {items[o].id} ELSE SummaryAt(o).covers

(* The fresh_tail_count newest raw items, and the newest user item. *)
Tail_ == {o \in Raw : Cardinality({p \in Raw : p > o}) < FreshTail}
Pinned == {o \in Raw : /\ MessageAt(o).role = "user"
                       /\ \A p \in Raw : MessageAt(p).role = "user" => p <= o}

-----------------------------------------------------------------------------
(* Appending a message *)

(* Mutant: counts the rows instead of MAX(ordinal) + 1. *)
NextOrdinalByCount == Cardinality(DOMAIN items)

NextOrdinal == IF DOMAIN items = {} THEN 0 ELSE Max(DOMAIN items) + 1

(* push_message_sync: the row and its context item in one transaction. *)
Push(role, tokens, call, slot) ==
    /\ messages' = Append(messages, [role |-> role, tokens |-> tokens,
                                     call |-> call, slot |-> slot])
    /\ items' = [o \in DOMAIN items \cup {NextOrdinal} |->
                    IF o = NextOrdinal
                    THEN [kind |-> "message", id |-> Len(messages) + 1]
                    ELSE items[o]]
    /\ UNCHANGED <<summaries, counts, base>>

Room == Len(messages) < MaxMessages

(* run_turn pushes the user's message. *)
StartTurn(w) ==
    /\ phase = "idle" /\ Room
    /\ Push("user", w, 0, 0)
    /\ phase' = "turn"
    /\ UNCHANGED <<resume, open, eligible, runs>>

(* A reply, or a checkpoint, hint or policy notice. *)
PushText(w) ==
    /\ phase = "turn" /\ open = 0 /\ Room
    /\ Push("text", w, 0, 0)
    /\ UNCHANGED <<phase, resume, open, eligible, runs>>

(* The model asked for n tool calls. *)
PushToolCalls(n, w) ==
    /\ phase = "turn" /\ open = 0 /\ Room
    /\ Push("calls", w, 0, n)
    /\ open' = Len(messages) + 1
    /\ UNCHANGED <<phase, resume, eligible, runs>>

(* record_tool_results: every result is pushed, in call order. *)
PushResult(w) ==
    /\ phase = "turn" /\ open # 0
    /\ LET slot == Len(messages) - open + 1
       IN  /\ Push("tool", w, open, slot)
           /\ open' = IF slot = messages[open].slot THEN 0 ELSE open
    /\ UNCHANGED <<phase, resume, eligible, runs>>

(* The turn returns.  A cancel seen while the tools run drops all of their *)
(* results; once the first is pushed the turn pushes the rest.             *)
EndTurn ==
    /\ phase = "turn" /\ open \in {0, Len(messages)}
    /\ phase' = "idle"
    /\ open' = 0
    /\ UNCHANGED <<tables, resume, eligible, runs, base>>

-----------------------------------------------------------------------------
(* Compaction: the leaf pass *)

(* Mutant: forgets the pin. *)
LeafEligibleWithoutPin == Raw \ Tail_

(* load_leaf_chunks: raw items outside the fresh tail, without the pin. *)
LeafEligible == (Raw \ Tail_) \ Pinned

(* compact_if_urgent before a completion, compact_between_turns and        *)
(* force_compact between turns.  The thresholds compare with the prompt    *)
(* size the provider reported, which may be anything, so they do not       *)
(* restrict when this happens.                                             *)
StartCompaction ==
    /\ phase \in {"idle", "turn"} /\ open = 0
    /\ phase' = "leaf"
    /\ resume' = phase
    /\ eligible' = LeafEligible
    /\ UNCHANGED <<tables, open, runs, base>>

TokensOf(S) == MapThenSumSet(LAMBDA o : MessageAt(o).tokens, S)

(* The oldest chunk: it ends before the pin, and before the first message  *)
(* that would take it over the budget (the chunk's first is always in it).  *)
LeafChunk ==
    {o \in eligible :
        /\ \A p \in Pinned : p > Min(eligible) => p > o
        /\ \A q \in eligible : q <= o /\ q # Min(eligible) =>
               TokensOf({p \in eligible : p <= q}) <= LeafBudget}

(* Mutants: BETWEEN read as half open; as reaching one further. *)
DeletedExclusive(chunk) == {o \in DOMAIN items : Min(chunk) <= o /\ o < Max(chunk)}
DeletedOneMore(chunk) == {o \in DOMAIN items : Min(chunk) <= o /\ o <= Max(chunk) + 1}

(* DELETE ... BETWEEN first AND last, then one summary at the first. *)
DeletedOrdinals(chunk) == {o \in DOMAIN items : Min(chunk) <= o /\ o <= Max(chunk)}

ReplaceRange(chunk, sid) ==
    [o \in (DOMAIN items \ DeletedOrdinals(chunk)) \cup {Min(chunk)} |->
        IF o = Min(chunk) THEN [kind |-> "summary", id |-> sid] ELSE items[o]]

(* The new summary's row, with the count of the messages below it. *)
NewSummary(depth, t, sources, covers, count) ==
    /\ summaries' = Append(summaries, [depth |-> depth, tokens |-> t,
                                       sources |-> sources, covers |-> covers])
    /\ counts' = [s \in DOMAIN counts \cup {Len(summaries) + 1} |->
                     IF s = Len(summaries) + 1 THEN count ELSE counts[s]]

(* write_leaf_summary: one transaction. *)
WriteLeaf(t) ==
    /\ phase = "leaf" /\ eligible # {}
    /\ LET ids == {items[o].id : o \in LeafChunk}
       IN  NewSummary(0, t, ids, ids, Cardinality(LeafChunk))
    /\ items' = ReplaceRange(LeafChunk, Len(summaries) + 1)
    /\ eligible' = eligible \ LeafChunk
    /\ UNCHANGED <<messages, phase, resume, open, runs, base>>

-----------------------------------------------------------------------------
(* Compaction: the condensed pass *)

Between(o, p) == {q \in DOMAIN items : (o <= q /\ q <= p) \/ (p <= q /\ q <= o)}

(* The maximal run of summaries of one depth, unbroken by a message, at o. *)
RunAt(o) == {p \in Nodes : \A q \in Between(o, p) :
                 q \in Nodes /\ SummaryAt(q).depth = SummaryAt(o).depth}

SummaryTokensOf(S) == MapThenSumSet(LAMBDA o : SummaryAt(o).tokens, S)

LongEnough(R) == Cardinality(R) >= MinFanout

(* load_condensed_chunks: a run over the budget is skipped. *)
CondensedRuns == {R \in {RunAt(o) : o \in Nodes} :
                      LongEnough(R) /\ SummaryTokensOf(R) <= LeafBudget}

(* Mutant: the loop goes on when there is no run left. *)
LoadRunsForever ==
    /\ \/ phase = "leaf" /\ eligible = {}
       \/ phase = "condense" /\ runs = {}
    /\ runs' = CondensedRuns
    /\ phase' = "condense"
    /\ UNCHANGED <<tables, resume, open, eligible, base>>

(* The loop of run_compaction: load the runs, stop when there is none. *)
LoadRuns ==
    /\ \/ phase = "leaf" /\ eligible = {}
       \/ phase = "condense" /\ runs = {}
    /\ runs' = CondensedRuns
    /\ IF CondensedRuns = {}
       THEN phase' = resume /\ resume' = "idle"
       ELSE phase' = "condense" /\ UNCHANGED resume
    /\ UNCHANGED <<tables, open, eligible, base>>

OldestRun == CHOOSE R \in runs : \A S \in runs : Min(R) <= Min(S)

Descendants(R) == MapThenSumSet(LAMBDA o : counts[items[o].id], R)

(* write_condensed_summary: one transaction; the counts add up. *)
WriteCondensed(t) ==
    /\ phase = "condense" /\ runs # {}
    /\ LET R == OldestRun
       IN  /\ NewSummary(SummaryAt(Min(R)).depth + 1, t, {items[o].id : o \in R},
                         UNION {Covers(o) : o \in R}, Descendants(R))
           /\ items' = ReplaceRange(R, Len(summaries) + 1)
           /\ runs' = runs \ {R}
    /\ UNCHANGED <<messages, phase, resume, open, eligible, base>>

(* A storage error aborts the cycle between two transactions.  Before a    *)
(* completion it fails the turn, at a turn boundary it is only logged.     *)
CompactionFails ==
    /\ phase \in {"leaf", "condense"}
    /\ phase' = "idle" /\ resume' = "idle"
    /\ eligible' = {} /\ runs' = {}
    /\ UNCHANGED <<tables, open, base>>

-----------------------------------------------------------------------------
(* Clearing, crashing, reopening *)

(* clear: the active context only; messages and summaries stay. *)
Clear ==
    /\ phase = "idle"
    /\ items' = [o \in {} |-> [kind |-> "message", id |-> 0]]
    /\ base' = Len(messages)
    /\ UNCHANGED <<messages, summaries, counts, phase, resume, open, eligible, runs>>

(* The process dies: what was committed stays. *)
Crash ==
    /\ phase # "down"
    /\ phase' = "down"
    /\ resume' = "idle"
    /\ open' = 0 /\ eligible' = {} /\ runs' = {}
    /\ UNCHANGED <<tables, base>>

(* LcmEngine::new after a crash, switch_session back from another session. *)
Reopen ==
    /\ phase \in {"down", "idle"}
    /\ phase' = "repair"
    /\ UNCHANGED <<tables, resume, open, eligible, runs, base>>

CallsMessages == {i \in DOMAIN messages : messages[i].role = "calls"}

(* Mutant: repairs every call of the last round, answered or not. *)
UnansweredOrNot ==
    LET last == Max(CallsMessages)
        later == {i \in DOMAIN messages : i > last}
    IN  IF CallsMessages = {} \/ \E i \in later : messages[i].role # "tool"
        THEN {}
        ELSE 1..messages[last].slot

(* The calls of the newest ToolCalls message that have no result, when     *)
(* nothing but results follows it.                                         *)
Unanswered ==
    LET last == Max(CallsMessages)
        later == {i \in DOMAIN messages : i > last}
    IN  IF CallsMessages = {} \/ \E i \in later : messages[i].role # "tool"
        THEN {}
        ELSE {s \in 1..messages[last].slot :
                \A i \in later : ~(messages[i].call = last /\ messages[i].slot = s)}

(* repair_dangling_tool_calls: one push, its own transaction, per call. *)
Repair(w) ==
    /\ phase = "repair"
    /\ Unanswered # {}
    /\ Push("tool", w, Max(CallsMessages), Min(Unanswered))
    /\ UNCHANGED <<phase, resume, open, eligible, runs>>

RepairDone ==
    /\ phase = "repair"
    /\ Unanswered = {}
    /\ phase' = "idle"
    /\ UNCHANGED <<tables, resume, open, eligible, runs, base>>

-----------------------------------------------------------------------------
Init ==
    /\ messages = <<>> /\ summaries = <<>> /\ counts = <<>>
    /\ items = [o \in {} |-> [kind |-> "message", id |-> 0]]
    /\ phase = "idle" /\ resume = "idle"
    /\ open = 0 /\ eligible = {} /\ runs = {} /\ base = 0

CompactionStep == \/ \E t \in SummaryTokens : WriteLeaf(t) \/ WriteCondensed(t)
                  \/ LoadRuns

Next ==
    \/ \E w \in Weights :
          \/ StartTurn(w)
          \/ PushText(w)
          \/ \E n \in 1..MaxCalls : PushToolCalls(n, w)
          \/ PushResult(w)
          \/ Repair(w)
    \/ EndTurn
    \/ StartCompaction
    \/ CompactionStep
    \/ CompactionFails
    \/ Clear
    \/ Crash
    \/ Reopen
    \/ RepairDone

(* Compaction is one task of the actor: once started, its next step is     *)
(* taken as soon as the awaited LLM call returns, which the timeout of the *)
(* HTTP client and the deterministic last level guarantee.                 *)
Spec == Init /\ [][Next]_vars /\ WF_vars(CompactionStep)

-----------------------------------------------------------------------------
(* Properties *)

TypeOK ==
    /\ messages \in Seq(Message)
    /\ summaries \in Seq(Summary) /\ DOMAIN counts = DOMAIN summaries
    /\ items \in [DOMAIN items -> Item]
    /\ \A o \in Raw : items[o].id \in DOMAIN messages
    /\ \A o \in Nodes : items[o].id \in DOMAIN summaries
    /\ \A o \in DOMAIN items : o \in Nat /\ o < Len(messages)
    /\ phase \in Phases /\ resume \in {"idle", "turn"}
    /\ open \in Nat /\ base \in Nat
    /\ eligible \subseteq Nat
    /\ runs \subseteq SUBSET Nat

(* The active context is in conversation order and says nothing twice: what *)
(* stands at a lower ordinal was written earlier.  assemble() relies on it  *)
(* ("safe to send to the provider in array order"), though every            *)
(* transaction deletes by ordinal range and appends at MAX(ordinal) + 1.    *)
InOrder ==
    \A o, p \in DOMAIN items :
        o < p => \A m \in Covers(o), n \in Covers(p) : m < n

(* Two summaries of one depth never share a source, so the id hashed from  *)
(* the sources (the primary key) never collides and the DAG is a forest.   *)
SourcesNeverRepeat ==
    \A s, t \in DOMAIN summaries :
        s # t /\ summaries[s].depth = summaries[t].depth
            => summaries[s].sources \cap summaries[t].sources = {}

(* A tool call never has two results, whatever crash interrupted the turn  *)
(* or an earlier repair (repair_dangling_tool_calls is run at each open).  *)
AnsweredOnce ==
    \A i, j \in DOMAIN messages :
        /\ messages[i].role = "tool" /\ messages[j].role = "tool"
        /\ messages[i].call = messages[j].call
        /\ messages[i].slot = messages[j].slot
        => i = j

(* The fresh tail and the newest user request stay raw and in place until  *)
(* the operator clears: no pass over a stale list of ordinals takes them.  *)
ProtectedKept ==
    [][base' = base /\ messages' = messages /\ phase \in {"leaf", "condense"} =>
          \A o \in Tail_ \cup Pinned : o \in DOMAIN items' /\ items'[o] = items[o]]_vars

(* run_compaction: "Each step strictly reduces the number of summary items *)
(* in context_items, so the loop terminates."                              *)
CompactionEnds == phase \in {"leaf", "condense"} ~> phase \notin {"leaf", "condense"}

(* The messages that are raw in the context or below a stored summary. *)
Recallable == {items[o].id : o \in Raw}
                \cup UNION {summaries[s].covers : s \in DOMAIN summaries}

(* The engine keeps what a context engine promises: compaction, failures,  *)
(* crashes and repairs never make a message unreachable, only clear does.  *)
Promise == INSTANCE ContextPromise
              WITH length <- Len(messages), cleared <- base, recall <- Recallable
PromiseKept == Promise!Spec

(* Every message since the last clear is represented in the active context *)
(* (spec 14: "replace the message range in context_items with the new      *)
(* summary").  The code violates it: see the run lcm_dropped.              *)
NothingDropped ==
    \A m \in (base + 1)..Len(messages) : \E o \in DOMAIN items : m \in Covers(o)
=============================================================================
