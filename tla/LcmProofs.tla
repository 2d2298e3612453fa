------------------------------ MODULE LcmProofs ------------------------------
(***************************************************************************)
(* Theorems about the two views of the LCM engine, for every value of      *)
(* their constants: every step keeps an inductive invariant, so the safety *)
(* properties the run checks on a small instance hold of every execution.  *)
(*                                                                         *)
(* IInv of LcmContext adds to what the run checks what keeps it true: how  *)
(* a turn's open tool calls, the stale list of ordinals of the leaf pass   *)
(* and the stale runs of the condensed pass relate to the tables that have *)
(* changed since they were read; each step of a cycle leaves fewer to be   *)
(* made.  StoreInv of LcmStore, at the end, adds what each push, chunk and *)
(* link relies on across conversations, and with it the walk of lcm_expand *)
(* (LcmExpand) tells what it did not show.                                 *)
(***************************************************************************)
EXTENDS LcmContext, LcmExpand, FiniteSetTheorems, SequenceTheorems, WellFoundedInduction,
        TLAPS

-----------------------------------------------------------------------------
(* The least and the greatest element of a set of naturals.  The proofs    *)
(* use that strict inclusion of finite sets is well-founded: the intervals *)
(* 0..k of the members k of a set have a smallest one among them.          *)

(* A non-empty set of naturals has a least element. *)
LEMMA NatLeast ==
  ASSUME NEW S \in SUBSET Nat, S # {}
  PROVE \E m \in S : \A k \in S : m <= k
<1> DEFINE T == {0..k : k \in S}
<1>1. T \subseteq FiniteSubsetsOf(Nat)
  <2>1. ASSUME NEW k \in S PROVE 0..k \in SUBSET Nat /\ IsFiniteSet(0..k)
    <3>1. k \in Int /\ 0 \in Int OBVIOUS
    <3>2. IsFiniteSet(0..k) BY <3>1, FS_Interval
    <3> QED BY <3>2
  <2> QED BY <2>1 DEF FiniteSubsetsOf
<1>2. T # {}
  OBVIOUS
<1> HIDE DEF T
<1>3. PICK x \in T : \A y \in T : <<y, x>> \notin StrictSubsetOrdering(Nat)
  BY <1>1, <1>2, WFMin, FS_StrictSubsetOrderingWellFounded
<1>4. PICK m \in S : x = 0..m
  BY DEF T
<1>5. ASSUME NEW k \in S, k < m PROVE FALSE
  <2>1. 0..k \in T BY DEF T
  <2>2. 0..k \subseteq 0..m /\ 0..k # 0..m 
    <3>1. m \in 0..m /\ m \notin 0..k  BY <1>5
    <3> QED BY <1>5, <3>1
  <2>3. 0..k \in SUBSET Nat /\ 0..m \in SUBSET Nat OBVIOUS
  <2> QED BY <2>1, <2>2, <2>3, <1>3, <1>4 DEF StrictSubsetOrdering
<1>6. QED BY <1>5

(* Min returns it: the first ordinal of a chunk of context items. *)
LEMMA MinFact ==
  ASSUME NEW S \in SUBSET Nat, S # {}
  PROVE Min(S) \in S /\ \A k \in S : Min(S) <= k
BY NatLeast DEF Min

(* Max returns the greatest: the last ordinal of a chunk. *)
LEMMA MaxFact ==
  ASSUME NEW n \in Nat, NEW S \in SUBSET (0..n), S # {}
  PROVE Max(S) \in S /\ \A k \in S : k <= Max(S)
<1> DEFINE T == {n - k : k \in S}
<1>1. T \in SUBSET Nat /\ T # {}
  <2>1. \A k \in S : n - k \in Nat OBVIOUS
  <2>2. T \subseteq Nat BY <2>1
  <2>3. T # {} OBVIOUS
  <2> QED BY <2>2, <2>3
<1>2. PICK m \in T : \A k \in T : m <= k
  BY <1>1, NatLeast
<1>3. n - m \in S /\ \A k \in S : k <= n - m
  <2>1. PICK j \in S : m = n - j OBVIOUS
  <2>2. n - m = j BY <2>1
  <2>3. ASSUME NEW k \in S PROVE k <= n - m
     <3>1. m <= n - k BY <1>2
     <3> QED BY <3>1, <2>1
  <2> QED BY <2>2, <2>3
<1>4. QED BY <1>3 DEF Max

-----------------------------------------------------------------------------
(* The inductive invariant *)

CoversOK == \A s \in DOMAIN summaries :
    summaries[s].covers # {} /\ summaries[s].covers \subseteq DOMAIN messages

CallsOK == \A i \in DOMAIN messages :
    messages[i].role = "tool" => messages[i].call < i

(* The results pushed so far answer the open message's calls in order. *)
OpenOK == open # 0 =>
    /\ phase = "turn"
    /\ open \in DOMAIN messages
    /\ Len(messages) - open < messages[open].slot
    /\ \A i \in DOMAIN messages : i > open =>
           /\ messages[i].role = "tool"
           /\ messages[i].call = open
           /\ messages[i].slot = i - open

(* What is left of the leaf pass's list is still raw, unprotected, and     *)
(* nothing unprotected lies before one of its members but another.         *)
EligibleOK ==
    /\ phase # "leaf" => eligible = {}
    /\ eligible \subseteq Raw
    /\ eligible \cap (Tail_ \cup Pinned) = {}
    /\ \A r \in Raw, e \in eligible : r < e => r \in eligible \cup Pinned

(* The runs left to condense are still contiguous ranges of summaries. *)
RunsOK ==
    /\ phase # "condense" => runs = {}
    /\ \A R \in runs : R # {} /\ R \subseteq Nodes /\ DeletedOrdinals(R) = R
    /\ \A R, S \in runs : R # S => R \cap S = {}

(* A leaf's sources are messages and a condensed summary's are summaries,  *)
(* and what stands in the context is no source yet.                        *)
SourcesOK == \A s \in DOMAIN summaries :
    /\ summaries[s].depth = 0 => /\ summaries[s].sources \subseteq DOMAIN messages
                                 /\ \A o \in Raw : items[o].id \notin summaries[s].sources
    /\ summaries[s].depth > 0 => /\ summaries[s].sources \subseteq DOMAIN summaries
                                 /\ \A o \in Nodes : items[o].id \notin summaries[s].sources

IInv == /\ TypeOK /\ CoversOK /\ CallsOK /\ OpenOK /\ EligibleOK /\ RunsOK
        /\ SourcesOK /\ InOrder /\ SourcesNeverRepeat /\ AnsweredOnce

(* The conjuncts of TypeOK about the tables. *)
TablesOK ==
    /\ messages \in Seq(Message)
    /\ summaries \in Seq(Summary) /\ DOMAIN counts = DOMAIN summaries
    /\ items \in [DOMAIN items -> Item]
    /\ \A o \in Raw : items[o].id \in DOMAIN messages
    /\ \A o \in Nodes : items[o].id \in DOMAIN summaries
    /\ \A o \in DOMAIN items : o \in Nat /\ o < Len(messages)

(* What the steps that only move control leave alone. *)
TablesInv == TablesOK /\ CoversOK /\ CallsOK /\ SourcesOK
                /\ InOrder /\ SourcesNeverRepeat /\ AnsweredOnce

-----------------------------------------------------------------------------
(* Pushing a message *)

(* The new item goes behind all others and its ordinal is no larger than   *)
(* the number of messages (MAX(ordinal) + 1, although rows get deleted).   *)
LEMMA NextOrdinalFacts ==
  ASSUME TablesOK
  PROVE  /\ NextOrdinal \in Nat /\ NextOrdinal <= Len(messages)
         /\ \A o \in DOMAIN items : o < NextOrdinal
<1>1. Len(messages) \in Nat
  BY DEF TablesOK
<1>2. CASE DOMAIN items = {}
  BY <1>1, <1>2 DEF NextOrdinal
<1>3. CASE DOMAIN items # {}
  <2>1. DOMAIN items \in SUBSET (0..Len(messages))
    BY <1>1 DEF TablesOK
  <2>2. Max(DOMAIN items) \in DOMAIN items /\ \A o \in DOMAIN items : o <= Max(DOMAIN items)
    BY <1>1, <1>3, <2>1, MaxFact
  <2> QED BY <1>1, <1>3, <2>1, <2>2 DEF NextOrdinal, TablesOK
<1> QED BY <1>2, <1>3

(* The tables after a push: one message and one item more. *)
PushEffect(role, tokens, call, slot) ==
    /\ Len(messages) \in Nat /\ DOMAIN messages = 1..Len(messages)
    /\ messages' \in Seq(Message) /\ Len(messages') = Len(messages) + 1
    /\ DOMAIN messages' = 1..(Len(messages) + 1)
    /\ messages'[Len(messages) + 1] = [role |-> role, tokens |-> tokens,
                                       call |-> call, slot |-> slot]
    /\ \A i \in DOMAIN messages : messages'[i] = messages[i]
    /\ DOMAIN items' = DOMAIN items \cup {NextOrdinal}
    /\ NextOrdinal \notin DOMAIN items
    /\ items'[NextOrdinal] = [kind |-> "message", id |-> Len(messages) + 1]
    /\ \A o \in DOMAIN items : items'[o] = items[o]
    /\ Raw' = Raw \cup {NextOrdinal} /\ Nodes' = Nodes
    /\ items' \in [DOMAIN items' -> Item]

(* This is what Push does to tables that are in order. *)
LEMMA PushFacts ==
  ASSUME TablesOK, NEW role \in Roles, NEW tokens \in Weights,
         NEW call \in Nat, NEW slot \in Nat, Push(role, tokens, call, slot)
  PROVE  PushEffect(role, tokens, call, slot)
<1> DEFINE m == [role |-> role, tokens |-> tokens, call |-> call, slot |-> slot]
<1>1. m \in Message
  BY DEF Message
<1>2. /\ Len(messages) \in Nat /\ DOMAIN messages = 1..Len(messages)
      /\ messages \in Seq(Message) /\ messages' = Append(messages, m)
  BY DEF TablesOK, Push
<1> HIDE DEF m
<1>3. /\ messages' \in Seq(Message) /\ Len(messages') = Len(messages) + 1
      /\ DOMAIN messages' = 1..(Len(messages) + 1)
      /\ messages'[Len(messages) + 1] = m
      /\ \A i \in DOMAIN messages : messages'[i] = messages[i]
  BY <1>1, <1>2
<1>4. /\ DOMAIN items' = DOMAIN items \cup {NextOrdinal}
      /\ items'[NextOrdinal] = [kind |-> "message", id |-> Len(messages) + 1]
      /\ NextOrdinal \notin DOMAIN items
      /\ \A o \in DOMAIN items : items'[o] = items[o]
  BY NextOrdinalFacts DEF Push, TablesOK
<1>5. Raw' = Raw \cup {NextOrdinal} /\ Nodes' = Nodes
  BY <1>4 DEF Raw, Nodes
<1>6. items' \in [DOMAIN items' -> Item]
  <2>1. \A o \in DOMAIN items' : items'[o] \in Item
    BY <1>2, <1>4 DEF TablesOK, Item
  <2>2. items' = [o \in DOMAIN items' |-> items'[o]]
    BY <1>4 DEF Push
  <2> QED BY <2>1, <2>2
<1> QED BY <1>2, <1>3, <1>4, <1>5, <1>6 DEF m, PushEffect

(* A push keeps what is known of the tables; that its message answers no   *)
(* call for the second time is the pusher's concern.                       *)
LEMMA PushKeeps ==
  ASSUME TablesInv, NEW role \in Roles, NEW tokens \in Weights,
         NEW call \in Nat, NEW slot \in Nat, Push(role, tokens, call, slot),
         role = "tool" =>
            /\ call <= Len(messages)
            /\ \A i \in DOMAIN messages :
                   messages[i].role = "tool" /\ messages[i].call = call
                      => messages[i].slot # slot
  PROVE  TablesInv'
<1> USE DEF TablesInv
<1> DEFINE n == Len(messages) + 1
<1>0. summaries' = summaries /\ counts' = counts
  BY DEF Push
<1>p. PushEffect(role, tokens, call, slot)
  BY PushFacts
<1>n. /\ NextOrdinal \in Nat /\ NextOrdinal <= Len(messages)
      /\ \A o \in DOMAIN items : o < NextOrdinal
  BY NextOrdinalFacts
<1>1. TablesOK'
  <2>1. \A o \in DOMAIN items' : o \in Nat /\ o < Len(messages')
    BY <1>p, <1>n DEF PushEffect, TablesOK
  <2>2. \A o \in Raw' : items'[o].id \in DOMAIN messages'
    BY <1>p DEF PushEffect, TablesOK, Raw
  <2>3. \A o \in Nodes' : items'[o].id \in DOMAIN summaries'
    BY <1>0, <1>p DEF PushEffect, TablesOK, Nodes
  <2> QED BY <1>0, <2>1, <2>2, <2>3, <1>p DEF PushEffect, TablesOK
<1>2. CoversOK'
  BY <1>0, <1>p DEF PushEffect, CoversOK
<1>3. CallsOK'
  BY <1>p DEF PushEffect, CallsOK
<1>4. SourcesOK'
  BY <1>0, <1>p DEF PushEffect, SourcesOK, TablesOK, Raw, Nodes
<1>5. InOrder'
  <2> PICK at : at = NextOrdinal
    OBVIOUS
  <2>1. ASSUME NEW o \in DOMAIN items
        PROVE  Covers(o)' = Covers(o) /\ Covers(o) \subseteq 1..Len(messages)
    <3>1. items'[o] = items[o] /\ (o \in Raw' <=> o \in Raw)
      BY <1>p, <1>n DEF PushEffect
    <3>2. CASE o \in Raw
      BY <3>1, <3>2, <1>p DEF PushEffect, Covers, TablesOK
    <3>3. CASE o \in Nodes
      BY <1>0, <3>1, <3>3, <1>p DEF PushEffect, Covers, SummaryAt, Raw, Nodes, TablesOK, CoversOK
    <3> QED BY <3>2, <3>3 DEF Raw, Nodes, TablesOK, Item
  <2>2. Covers(at)' = {n}
    BY <1>p DEF PushEffect, Covers
  <2>3. ASSUME NEW o \in DOMAIN items', NEW p \in DOMAIN items', o < p,
               NEW k \in Covers(o)', NEW l \in Covers(p)'
        PROVE  k < l
    <3>1. o \in DOMAIN items
      BY <2>3, <1>p, <1>n DEF PushEffect, TablesOK
    <3>2. CASE p = at
      <4>1. l = n /\ k \in 1..Len(messages)
        BY <2>1, <2>2, <2>3, <3>1, <3>2
      <4> QED BY <4>1, <1>p DEF PushEffect
    <3>3. CASE p \in DOMAIN items
      BY <2>1, <2>3, <3>1, <3>3 DEF InOrder
    <3> QED BY <2>3, <3>2, <3>3, <1>p DEF PushEffect
  <2> QED BY <2>3 DEF InOrder
<1>6. SourcesNeverRepeat'
  BY <1>0 DEF SourcesNeverRepeat
<1>7. AnsweredOnce'
  <2>1. ASSUME NEW i \in DOMAIN messages', NEW j \in DOMAIN messages',
               messages'[i].role = "tool", messages'[j].role = "tool",
               messages'[i].call = messages'[j].call,
               messages'[i].slot = messages'[j].slot
        PROVE  i = j
    <3>0. DOMAIN messages' = DOMAIN messages \cup {n}
      BY <1>p DEF PushEffect
    <3>1. CASE i \in DOMAIN messages /\ j \in DOMAIN messages
      BY <1>p, <2>1, <3>1 DEF PushEffect, AnsweredOnce
    <3>2. CASE i = n /\ j \in DOMAIN messages
      BY <1>p, <2>1, <3>2 DEF PushEffect
    <3>3. CASE j = n /\ i \in DOMAIN messages
      BY <1>p, <2>1, <3>3 DEF PushEffect
    <3> QED BY <3>0, <3>1, <3>2, <3>3
  <2> QED BY <2>1 DEF AnsweredOnce
<1> QED BY <1>1, <1>2, <1>3, <1>4, <1>5, <1>6, <1>7

-----------------------------------------------------------------------------
(* Replacing a range of context items by a summary *)

(* Two items that stand for the same message or summary are one item. *)
LEMMA ItemsDistinct ==
  ASSUME TablesOK, CoversOK, InOrder, NEW o \in DOMAIN items, NEW p \in DOMAIN items,
         items[o] = items[p]
  PROVE  o = p
<1>1. Covers(o) = Covers(p)
  BY DEF Covers, Raw, SummaryAt
<1>2. PICK k \in Covers(o) : k \in Nat
  <2>1. CASE o \in Raw
    BY <2>1 DEF Covers, TablesOK
  <2>2. CASE o \in Nodes
    <3>1. o \notin Raw /\ items[o].id \in DOMAIN summaries
      BY <2>2 DEF Raw, Nodes, TablesOK
    <3>2. Covers(o) = summaries[items[o].id].covers
      BY <3>1 DEF Covers, SummaryAt
    <3>3. Covers(o) # {} /\ Covers(o) \subseteq DOMAIN messages
      BY <3>1, <3>2 DEF CoversOK
    <3> QED BY <3>3 DEF TablesOK
  <2> QED BY <2>1, <2>2 DEF Raw, Nodes, TablesOK, Item
<1>3. ~(o < p) /\ ~(p < o)
  BY <1>1, <1>2 DEF InOrder
<1> QED BY <1>3 DEF TablesOK

(* The first and the last ordinal of a chunk, and the range between them. *)
LEMMA RangeFacts ==
  ASSUME TablesOK, NEW C \in SUBSET DOMAIN items, C # {}
  PROVE  /\ Min(C) \in C /\ Max(C) \in C
         /\ \A o \in C : Min(C) <= o /\ o <= Max(C)
         /\ C \subseteq DeletedOrdinals(C)
         /\ \A o \in DOMAIN items : o \in Nat
<1>1. Len(messages) \in Nat /\ C \in SUBSET (0..Len(messages)) /\ C \in SUBSET Nat
  BY DEF TablesOK
<1>2. Min(C) \in C /\ \A o \in C : Min(C) <= o
  BY <1>1, MinFact
<1>3. Max(C) \in C /\ \A o \in C : o <= Max(C)
  BY <1>1, MaxFact
<1> QED BY <1>2, <1>3 DEF DeletedOrdinals, TablesOK

(* One transaction of either pass, for the chunk C of context items. *)
Summarize(C, depth, t, sources, covers, count) ==
    /\ C \subseteq DOMAIN items /\ C # {}
    /\ NewSummary(depth, t, sources, covers, count)
    /\ items' = ReplaceRange(C, Len(summaries) + 1)
    /\ messages' = messages

(* The tables after it. *)
Summarized(C, depth, t, sources, covers) ==
    /\ Len(summaries) \in Nat /\ DOMAIN summaries = 1..Len(summaries)
    /\ summaries' \in Seq(Summary)
    /\ DOMAIN summaries' = 1..(Len(summaries) + 1)
    /\ DOMAIN counts' = DOMAIN summaries'
    /\ \A s \in DOMAIN summaries : summaries'[s] = summaries[s]
    /\ summaries'[Len(summaries) + 1] = [depth |-> depth, tokens |-> t,
                                         sources |-> sources, covers |-> covers]
    /\ DOMAIN items' = (DOMAIN items \ DeletedOrdinals(C)) \cup {Min(C)}
    /\ items'[Min(C)] = [kind |-> "summary", id |-> Len(summaries) + 1]
    /\ \A o \in DOMAIN items \ DeletedOrdinals(C) : items'[o] = items[o]
    /\ items' \in [DOMAIN items' -> Item]
    /\ Raw' = Raw \ DeletedOrdinals(C)
    /\ Nodes' = (Nodes \ DeletedOrdinals(C)) \cup {Min(C)}

LEMMA SummarizeFacts ==
  ASSUME TablesOK, NEW C, NEW depth \in Nat, NEW t \in SummaryTokens,
         NEW sources \in SUBSET Nat, NEW covers \in SUBSET Nat, NEW count,
         Summarize(C, depth, t, sources, covers, count)
  PROVE  Summarized(C, depth, t, sources, covers)
<1> DEFINE row == [depth |-> depth, tokens |-> t, sources |-> sources, covers |-> covers]
<1>1. row \in Summary
  BY DEF Summary
<1>2. /\ Len(summaries) \in Nat /\ DOMAIN summaries = 1..Len(summaries)
      /\ summaries \in Seq(Summary) /\ summaries' = Append(summaries, row)
  BY DEF TablesOK, Summarize, NewSummary
<1> HIDE DEF row
<1>3. /\ summaries' \in Seq(Summary)
      /\ DOMAIN summaries' = 1..(Len(summaries) + 1)
      /\ \A s \in DOMAIN summaries : summaries'[s] = summaries[s]
      /\ summaries'[Len(summaries) + 1] = row
  BY <1>1, <1>2
<1>4. DOMAIN counts' = DOMAIN summaries'
  <2>1. DOMAIN counts' = DOMAIN counts \cup {Len(summaries) + 1}
    BY DEF Summarize, NewSummary
  <2> QED BY <1>2, <1>3, <2>1 DEF TablesOK
<1>5. Min(C) \in C /\ C \subseteq DeletedOrdinals(C) /\ C \subseteq DOMAIN items
  BY RangeFacts DEF Summarize
<1>6. /\ DOMAIN items' = (DOMAIN items \ DeletedOrdinals(C)) \cup {Min(C)}
      /\ items'[Min(C)] = [kind |-> "summary", id |-> Len(summaries) + 1]
      /\ \A o \in DOMAIN items \ DeletedOrdinals(C) : items'[o] = items[o]
  BY <1>5 DEF Summarize, ReplaceRange
<1>7. Raw' = Raw \ DeletedOrdinals(C) /\ Nodes' = (Nodes \ DeletedOrdinals(C)) \cup {Min(C)}
  BY <1>5, <1>6 DEF Raw, Nodes
<1>8. items' \in [DOMAIN items' -> Item]
  <2>1. \A o \in DOMAIN items' : items'[o] \in Item
    BY <1>2, <1>6 DEF TablesOK, Item
  <2>2. items' = [o \in DOMAIN items' |-> items'[o]]
    BY <1>6 DEF Summarize, ReplaceRange
  <2> QED BY <2>1, <2>2
<1> QED BY <1>2, <1>3, <1>4, <1>6, <1>7, <1>8 DEF row, Summarized

(* What an item stands for is a non-empty set of messages. *)
LEMMA CoversFacts ==
  ASSUME TablesOK, CoversOK, NEW o \in DOMAIN items
  PROVE  Covers(o) # {} /\ Covers(o) \subseteq DOMAIN messages
<1>1. CASE o \in Raw
  BY <1>1 DEF Covers, TablesOK
<1>2. CASE o \in Nodes
  <2>1. o \notin Raw /\ items[o].id \in DOMAIN summaries
    BY <1>2 DEF Raw, Nodes, TablesOK
  <2> QED BY <2>1 DEF Covers, SummaryAt, CoversOK
<1> QED BY <1>1, <1>2 DEF Raw, Nodes, TablesOK, Item

(* A summary of raw messages at depth 0, or of summaries above it, keeps   *)
(* what is known of the tables: order, references, and sources that differ *)
(* from those of every other summary of its depth.                         *)
LEMMA SummarizeKeeps ==
  ASSUME TablesInv, NEW C, NEW depth \in Nat, NEW t \in SummaryTokens,
         NEW sources, NEW covers, NEW count,
         Summarize(C, depth, t, sources, covers, count),
         sources = {items[o].id : o \in C},
         covers = UNION {Covers(o) : o \in C},
         (depth = 0 /\ C \subseteq Raw) \/ (depth > 0 /\ C \subseteq Nodes)
  PROVE  TablesInv'
<1> USE DEF TablesInv
<1> DEFINE sid == Len(summaries) + 1
<1>0. C \subseteq DOMAIN items /\ C # {} /\ messages' = messages
  BY DEF Summarize
<1>1. /\ Min(C) \in C /\ Max(C) \in C /\ \A o \in C : Min(C) <= o /\ o <= Max(C)
      /\ C \subseteq DeletedOrdinals(C) /\ \A o \in DOMAIN items : o \in Nat
  BY <1>0, RangeFacts
<1>2. covers # {} /\ covers \subseteq DOMAIN messages
  <2>1. \A o \in C : Covers(o) # {} /\ Covers(o) \subseteq DOMAIN messages
    BY <1>0, CoversFacts
  <2> QED BY <1>0, <2>1
<1>3. /\ depth = 0 => sources \subseteq DOMAIN messages
      /\ depth > 0 => sources \subseteq DOMAIN summaries
  BY <1>0 DEF TablesOK
<1>4. sources \in SUBSET Nat /\ covers \in SUBSET Nat
  <2>1. DOMAIN messages \subseteq Nat /\ DOMAIN summaries \subseteq Nat
    BY DEF TablesOK
  <2> QED BY <1>2, <1>3, <2>1
<1>5. Summarized(C, depth, t, sources, covers)
  BY <1>4, SummarizeFacts
<1> PICK first : first = Min(C)
  OBVIOUS
<1>d. \A o \in DOMAIN items' : o # first => o \in DOMAIN items \ DeletedOrdinals(C)
  BY <1>5 DEF Summarized
<1>6. TablesOK'
  <2>1. \A o \in Raw' : items'[o].id \in DOMAIN messages'
    BY <1>0, <1>5 DEF Summarized, TablesOK, Raw
  <2>2. \A o \in Nodes' : items'[o].id \in DOMAIN summaries'
    BY <1>5 DEF Summarized, TablesOK, Nodes
  <2>3. \A o \in DOMAIN items' : o \in Nat /\ o < Len(messages')
    BY <1>0, <1>1, <1>5 DEF Summarized, TablesOK
  <2>4. messages' \in Seq(Message) /\ summaries' \in Seq(Summary)
        /\ DOMAIN counts' = DOMAIN summaries' /\ items' \in [DOMAIN items' -> Item]
    BY <1>0, <1>5 DEF Summarized, TablesOK
  <2> QED BY <2>1, <2>2, <2>3, <2>4 DEF TablesOK
<1>7. CoversOK'
  <2>1. ASSUME NEW s \in DOMAIN summaries'
        PROVE  summaries'[s].covers # {} /\ summaries'[s].covers \subseteq DOMAIN messages
    <3>1. CASE s \in DOMAIN summaries
      BY <1>5, <3>1 DEF Summarized, CoversOK
    <3>2. CASE s = sid
      BY <1>2, <1>5, <3>2 DEF Summarized
    <3> QED BY <1>5, <3>1, <3>2 DEF Summarized
  <2> QED BY <1>0, <2>1 DEF CoversOK
<1>8. CallsOK' /\ AnsweredOnce'
  BY <1>0 DEF CallsOK, AnsweredOnce
<1>9. SourcesOK'
  <2>1. ASSUME NEW s \in DOMAIN summaries', summaries'[s].depth = 0
        PROVE  /\ summaries'[s].sources \subseteq DOMAIN messages'
               /\ \A o \in Raw' : items'[o].id \notin summaries'[s].sources
    <3>1. CASE s \in DOMAIN summaries
      BY <1>0, <1>5, <2>1, <3>1 DEF Summarized, SourcesOK, Raw
    <3>2. CASE s = sid
      <4>1. summaries'[s].sources = sources /\ depth = 0 /\ C \subseteq Raw
        BY <1>5, <2>1, <3>2 DEF Summarized
      <4>2. ASSUME NEW o \in Raw', items'[o].id \in sources PROVE FALSE
        <5>1. o \in Raw /\ o \notin DeletedOrdinals(C) /\ items'[o] = items[o]
          BY <1>5, <4>2 DEF Summarized, Raw
        <5>2. PICK c \in C : items[o].id = items[c].id
          BY <4>2, <5>1
        <5>3. items[o] = items[c]
          <6>1. items[o] \in Item /\ items[c] \in Item
            BY <4>1, <5>1, <5>2 DEF Raw, TablesOK
          <6>2. items[o].kind = items[c].kind
            BY <4>1, <5>1, <5>2 DEF Raw
          <6> QED BY <5>2, <6>1, <6>2 DEF Item
        <5> QED BY <1>0, <1>1, <5>1, <5>3, ItemsDistinct DEF Raw
      <4> QED BY <1>0, <1>3, <4>1, <4>2
    <3> QED BY <1>5, <3>1, <3>2 DEF Summarized
  <2>2. ASSUME NEW s \in DOMAIN summaries', summaries'[s].depth > 0
        PROVE  /\ summaries'[s].sources \subseteq DOMAIN summaries'
               /\ \A o \in Nodes' : items'[o].id \notin summaries'[s].sources
    <3>0. sid \notin DOMAIN summaries /\ DOMAIN summaries \subseteq DOMAIN summaries'
      BY <1>5 DEF Summarized
    <3>1. CASE s \in DOMAIN summaries
      <4>1. /\ summaries'[s].sources \subseteq DOMAIN summaries
            /\ \A o \in Nodes : items[o].id \notin summaries'[s].sources
        BY <1>5, <2>2, <3>1 DEF Summarized, SourcesOK
      <4> QED BY <1>5, <3>0, <4>1 DEF Summarized, Nodes
    <3>2. CASE s = sid
      <4>1. summaries'[s].sources = sources /\ depth > 0 /\ C \subseteq Nodes
        BY <1>5, <2>2, <3>2 DEF Summarized
      <4>2. ASSUME NEW o \in Nodes', items'[o].id \in sources PROVE FALSE
        <5>0. o # first
          BY <1>3, <1>5, <3>0, <4>1, <4>2 DEF Summarized
        <5>1. o \in Nodes /\ o \notin DeletedOrdinals(C) /\ items'[o] = items[o]
          BY <1>5, <4>2, <5>0 DEF Summarized, Nodes
        <5>2. PICK c \in C : items[o].id = items[c].id
          BY <4>2, <5>1
        <5>3. items[o] = items[c]
          <6>1. items[o] \in Item /\ items[c] \in Item
            BY <4>1, <5>1, <5>2 DEF Nodes, TablesOK
          <6>2. items[o].kind = items[c].kind
            BY <4>1, <5>1, <5>2 DEF Nodes
          <6> QED BY <5>2, <6>1, <6>2 DEF Item
        <5> QED BY <1>0, <1>1, <5>1, <5>3, ItemsDistinct DEF Nodes
      <4> QED BY <1>3, <3>0, <4>1, <4>2
    <3> QED BY <1>5, <3>1, <3>2 DEF Summarized
  <2> QED BY <2>1, <2>2 DEF SourcesOK
<1>10. InOrder'
  <2>1. \A o \in DOMAIN items \ DeletedOrdinals(C) :
            o \in DOMAIN items' /\ o # first /\ Covers(o)' = Covers(o)
    <3>1. ASSUME NEW o \in DOMAIN items, o \notin DeletedOrdinals(C)
          PROVE  o \in DOMAIN items' /\ o # first /\ Covers(o)' = Covers(o)
      <4>1. items'[o] = items[o] /\ o \in DOMAIN items' /\ o # first
            /\ (o \in Raw' <=> o \in Raw)
        BY <1>1, <1>5, <3>1 DEF Summarized
      <4>2. o \notin Raw => items[o].id \in DOMAIN summaries
        BY DEF Raw, Nodes, TablesOK, Item
      <4> QED BY <1>5, <4>1, <4>2 DEF Summarized, Covers, SummaryAt
    <3> QED BY <3>1
  <2>2. Covers(first)' = covers
    <3>1. first \notin Raw' /\ items'[first].id = sid
      BY <1>1, <1>5 DEF Summarized
    <3> QED BY <1>5, <3>1 DEF Covers, SummaryAt, Summarized
  <2>3. ASSUME NEW o \in DOMAIN items', NEW p \in DOMAIN items', o < p,
               NEW k \in Covers(o)', NEW l \in Covers(p)'
        PROVE  k < l
    <3>1. CASE o # first /\ p # first
      <4>1. /\ o \in DOMAIN items /\ p \in DOMAIN items
            /\ Covers(o)' = Covers(o) /\ Covers(p)' = Covers(p)
        BY <1>5, <2>1, <2>3, <3>1 DEF Summarized
      <4> QED BY <2>3, <4>1 DEF InOrder
    <3>2. CASE o = first
      <4>1. p \in DOMAIN items \ DeletedOrdinals(C) /\ p # first
        <5>1. first \in Nat
          BY <1>0, <1>1
        <5>2. p # first
          BY <2>3, <3>2, <5>1
        <5> QED BY <1>d, <2>3, <5>2
      <4>2. Covers(p)' = Covers(p) /\ Max(C) < p
        BY <1>0, <1>1, <2>1, <2>3, <3>2, <4>1 DEF DeletedOrdinals
      <4>3. PICK c \in C : k \in Covers(c)
        BY <2>2, <2>3, <3>2
      <4>4. c < p
        BY <1>0, <1>1, <4>1, <4>2, <4>3
      <4> QED BY <1>0, <2>3, <4>1, <4>2, <4>3, <4>4 DEF InOrder
    <3>3. CASE p = first
      <4>0. o \in DOMAIN items \ DeletedOrdinals(C) /\ o # first
        <5>1. first \in Nat
          BY <1>0, <1>1
        <5>2. o # first
          BY <2>3, <3>3, <5>1
        <5> QED BY <1>d, <2>3, <5>2
      <4>1. o \in DOMAIN items /\ Covers(o)' = Covers(o)
        BY <2>1, <4>0
      <4>2. PICK c \in C : l \in Covers(c)
        BY <2>2, <2>3, <3>3
      <4>3. o < c
        BY <1>0, <1>1, <2>3, <3>3, <4>1, <4>2
      <4> QED BY <1>0, <2>3, <4>1, <4>2, <4>3 DEF InOrder
    <3> QED BY <3>1, <3>2, <3>3
  <2> QED BY <2>3 DEF InOrder
<1>11. SourcesNeverRepeat'
  <2>1. ASSUME NEW s \in DOMAIN summaries, summaries[s].depth = depth
        PROVE  summaries[s].sources \cap sources = {}
    BY <2>1 DEF SourcesOK
  <2>2. \A s, r \in DOMAIN summaries :
            s # r /\ summaries[s].depth = summaries[r].depth
                => summaries[s].sources \cap summaries[r].sources = {}
    BY DEF SourcesNeverRepeat
  <2> QED BY <1>5, <2>1, <2>2 DEF Summarized, SourcesNeverRepeat
<1> QED BY <1>6, <1>7, <1>8, <1>9, <1>10, <1>11

-----------------------------------------------------------------------------
(* What the two passes choose *)

(* What lies behind a member of the fresh tail is in the fresh tail. *)
LEMMA TailIsLast ==
  ASSUME TablesOK, NEW t \in Tail_, NEW r \in Raw, r > t
  PROVE  r \in Tail_
<1> DEFINE After(o) == {p \in Raw : p > o}
<1>1. Raw \subseteq 0..Len(messages) /\ Len(messages) \in Nat
  BY DEF TablesOK, Raw
<1>2. IsFiniteSet(0..Len(messages))
  BY <1>1, FS_Interval
<1>3. After(t) \in SUBSET (0..Len(messages)) /\ After(r) \in SUBSET After(t)
  <2>1. t \in Nat /\ r \in Nat /\ \A p \in Raw : p \in Nat
    BY DEF Tail_, Raw, TablesOK
  <2>2. \A p \in Raw : p > r => p > t
    BY <2>1
  <2> QED BY <1>1, <2>2
<1>4. IsFiniteSet(After(t)) /\ IsFiniteSet(After(r))
  BY <1>2, <1>3, FS_Subset
<1>5. /\ Cardinality(After(r)) \in Nat /\ Cardinality(After(t)) \in Nat
      /\ Cardinality(After(r)) <= Cardinality(After(t))
  BY <1>3, <1>4, FS_CardinalityType, FS_Subset
<1>6. Cardinality(After(t)) < FreshTail
  BY DEF Tail_
<1>7. Cardinality(After(r)) < FreshTail
  BY <1>5, <1>6, LcmConfigAssumption
<1> QED BY <1>7 DEF Tail_

(* A chunk is a prefix of what is left of the list; the range it deletes   *)
(* holds no other raw item, and nothing that is protected.                 *)
LEMMA LeafChunkFacts ==
  ASSUME TablesOK, EligibleOK, eligible # {}
  PROVE  /\ LeafChunk \subseteq eligible /\ LeafChunk # {}
         /\ LeafChunk \subseteq DOMAIN items
         /\ \A e \in eligible \ LeafChunk, o \in LeafChunk : o < e
         /\ Raw \cap DeletedOrdinals(LeafChunk) = LeafChunk
         /\ DeletedOrdinals(LeafChunk) \cap (Tail_ \cup Pinned) = {}
<1>1. /\ eligible \in SUBSET Nat /\ eligible \subseteq Raw /\ Raw \subseteq DOMAIN items
      /\ \A o \in DOMAIN items : o \in Nat
  BY DEF EligibleOK, Raw, TablesOK
<1> PICK low : low = Min(eligible)
  OBVIOUS
<1>2. low \in eligible /\ low \in Nat /\ \A e \in eligible : e \in Nat /\ low <= e
  BY <1>1, MinFact
<1>3. \A o : o \in LeafChunk <=>
          /\ o \in eligible
          /\ \A p \in Pinned : p > low => p > o
          /\ \A q \in eligible : q <= o /\ q # low =>
                 TokensOf({p \in eligible : p <= q}) <= LeafBudget
  BY DEF LeafChunk
<1>4. LeafChunk \subseteq eligible /\ LeafChunk \subseteq DOMAIN items /\ low \in LeafChunk
  <2>1. \A q \in eligible : q <= low => q = low
    BY <1>2
  <2> QED BY <1>1, <1>2, <1>3, <2>1
<1>5. ASSUME NEW o \in LeafChunk, NEW p \in eligible, p <= o
      PROVE  p \in LeafChunk
  <2>1. o \in Nat /\ p \in Nat /\ \A q \in Pinned : q \in Nat
    BY <1>1, <1>4 DEF Pinned
  <2>2. \A q \in Pinned : q > low => q > p
    BY <1>3, <1>5, <2>1
  <2>3. \A q \in eligible : q <= p => q <= o
    BY <1>2, <1>5, <2>1
  <2>4. \A q \in eligible : q <= p /\ q # low =>
            TokensOf({k \in eligible : k <= q}) <= LeafBudget
    BY <1>3, <2>3
  <2> QED BY <1>3, <2>2, <2>4
<1>6. ASSUME NEW e \in eligible \ LeafChunk, NEW o \in LeafChunk
      PROVE  o < e
  <2>1. e \in Nat /\ o \in Nat /\ e \in eligible
    BY <1>2, <1>4
  <2>2. ~(e <= o)
    BY <1>5, <2>1
  <2> QED BY <2>1, <2>2
<1> PICK first, last : first = Min(LeafChunk) /\ last = Max(LeafChunk)
  OBVIOUS
<1>7. /\ first \in LeafChunk /\ last \in LeafChunk
      /\ LeafChunk \subseteq DeletedOrdinals(LeafChunk)
      /\ \A o \in DeletedOrdinals(LeafChunk) : first <= o /\ o <= last
  BY <1>4, RangeFacts DEF DeletedOrdinals
<1>8. ASSUME NEW r \in Raw, r \in DeletedOrdinals(LeafChunk)
      PROVE  r \in LeafChunk
  <2>1. r \in Nat /\ first \in Nat /\ last \in Nat /\ first <= r /\ r <= last
    BY <1>1, <1>4, <1>7, <1>8
  <2>2. CASE r = last
    BY <1>7, <2>2
  <2>3. CASE r < last
    <3>1. r \in eligible \/ r \in Pinned
      BY <1>4, <1>7, <2>3 DEF EligibleOK
    <3>2. CASE r \in eligible
      BY <1>5, <1>7, <2>1, <3>2
    <3>3. CASE r \in Pinned
      <4>1. r # low /\ low <= first
        BY <1>2, <1>4, <1>7, <3>3 DEF EligibleOK
      <4>2. r > low
        BY <1>2, <2>1, <4>1
      <4>3. r > last
        BY <1>3, <1>7, <3>3, <4>2
      <4> QED BY <2>1, <4>3
    <3> QED BY <3>1, <3>2, <3>3
  <2> QED BY <2>1, <2>2, <2>3
<1>9. DeletedOrdinals(LeafChunk) \cap (Tail_ \cup Pinned) = {}
  BY <1>4, <1>8 DEF EligibleOK, Tail_, Pinned
<1> QED BY <1>1, <1>4, <1>6, <1>7, <1>8, <1>9

(* The runs that are loaded are disjoint contiguous ranges of summaries. *)
LEMMA CondensedRunsFacts ==
  ASSUME TablesOK
  PROVE  /\ \A R \in CondensedRuns : R # {} /\ R \subseteq Nodes /\ DeletedOrdinals(R) = R
         /\ \A R, S \in CondensedRuns : R # S => R \cap S = {}
<1>0. Nodes \subseteq DOMAIN items /\ \A o \in DOMAIN items : o \in Nat
  BY DEF TablesOK, Nodes
<1>1. ASSUME NEW o \in Nodes, NEW p \in RunAt(o), NEW q \in RunAt(o), NEW x \in DOMAIN items,
             p <= x, x <= q
      PROVE  x \in RunAt(o)
  <2>1. p \in Nodes /\ q \in Nodes
    BY DEF RunAt
  <2>2. x \in Between(o, p) \cup Between(o, q)
    BY <1>0, <1>1, <2>1 DEF Between
  <2>3. Between(o, x) \subseteq Between(o, p) \cup Between(o, q)
    BY <1>0, <1>1, <2>1 DEF Between
  <2> QED BY <2>2, <2>3 DEF RunAt
<1>2. ASSUME NEW o \in Nodes
      PROVE  o \in RunAt(o) /\ RunAt(o) \subseteq Nodes /\ DeletedOrdinals(RunAt(o)) = RunAt(o)
  <2>1. Between(o, o) = {o}
    BY <1>0 DEF Between
  <2>2. o \in RunAt(o) /\ RunAt(o) \subseteq Nodes
    BY <2>1 DEF RunAt
  <2>3. /\ Min(RunAt(o)) \in RunAt(o) /\ Max(RunAt(o)) \in RunAt(o)
        /\ RunAt(o) \subseteq DeletedOrdinals(RunAt(o))
    BY <1>0, <2>2, RangeFacts
  <2>4. DeletedOrdinals(RunAt(o)) \subseteq RunAt(o)
    BY <1>1, <2>3 DEF DeletedOrdinals
  <2> QED BY <2>2, <2>3, <2>4
<1>3. ASSUME NEW o \in Nodes, NEW p \in Nodes, NEW x \in RunAt(o), x \in RunAt(p)
      PROVE  RunAt(o) \subseteq RunAt(p)
  <2> SUFFICES ASSUME NEW y \in RunAt(o) PROVE y \in RunAt(p)
    OBVIOUS
  <2>1. x \in Nodes /\ y \in Nodes
    BY DEF RunAt
  <2>2. Between(p, y) \subseteq Between(p, x) \cup Between(o, x) \cup Between(o, y)
    BY <1>0, <2>1 DEF Between
  <2>3. SummaryAt(x).depth = SummaryAt(o).depth /\ SummaryAt(x).depth = SummaryAt(p).depth
    BY <1>0, <1>3, <2>1 DEF RunAt, Between
  <2> QED BY <1>3, <2>1, <2>2, <2>3 DEF RunAt
<1>4. \A R \in CondensedRuns : \E o \in Nodes : R = RunAt(o)
  BY DEF CondensedRuns
<1>5. ASSUME NEW R \in CondensedRuns, NEW S \in CondensedRuns, NEW x \in R, x \in S
      PROVE  R = S
  BY <1>3, <1>4, <1>5
<1> QED BY <1>2, <1>4, <1>5

(* There is an oldest run while there is one. *)
LEMMA OldestRunFacts ==
  ASSUME TablesOK, RunsOK, runs # {}
  PROVE  OldestRun \in runs
<1> DEFINE firsts == {Min(R) : R \in runs}
<1>1. firsts \in SUBSET Nat /\ firsts # {}
  <2>1. ASSUME NEW R \in runs PROVE Min(R) \in Nat
    <3>1. R \in SUBSET Nat /\ R # {}
      BY DEF RunsOK, Nodes, TablesOK
    <3> QED BY <3>1, MinFact
  <2> QED BY <2>1
<1>2. PICK m \in firsts : \A k \in firsts : m <= k
  BY <1>1, NatLeast
<1>3. \E R \in runs : \A S \in runs : Min(R) <= Min(S)
  BY <1>2
<1> QED BY <1>3 DEF OldestRun

-----------------------------------------------------------------------------
(* What the engine's owner is doing *)

(* The conjuncts of IInv about what the engine's owner is doing. *)
ControlOK ==
    /\ phase \in Phases /\ resume \in {"idle", "turn"}
    /\ open \in Nat /\ base \in Nat
    /\ eligible \subseteq Nat /\ runs \subseteq SUBSET Nat
    /\ OpenOK /\ EligibleOK /\ RunsOK

(* The invariant is a part about the tables and a part about control. *)
LEMMA InvParts == IInv <=> TablesInv /\ ControlOK
BY DEF IInv, TypeOK, TablesInv, TablesOK, ControlOK

(* The same of the next state. *)
LEMMA InvPartsNext == IInv' <=> TablesInv' /\ ControlOK'
BY DEF IInv, TypeOK, TablesInv, TablesOK, ControlOK

(* Between turns, in a turn without open calls, in a repair or when down,  *)
(* neither pass has a list in hand; an open call means a turn.             *)
LEMMA ControlFacts ==
  ASSUME ControlOK
  PROVE  /\ phase # "turn" => open = 0
         /\ phase # "leaf" => eligible = {}
         /\ phase # "condense" => runs = {}
BY DEF ControlOK, OpenOK, EligibleOK, RunsOK

(* A step that leaves the tables alone keeps what is known of them. *)
LEMMA TablesSame ==
  ASSUME TablesInv, UNCHANGED tables
  PROVE  /\ TablesInv' /\ Raw' = Raw /\ Nodes' = Nodes
         /\ Tail_' = Tail_ /\ Pinned' = Pinned
<1>1. messages' = messages /\ items' = items /\ summaries' = summaries /\ counts' = counts
  BY DEF tables
<1>2. Raw' = Raw /\ Nodes' = Nodes
  BY <1>1 DEF Raw, Nodes
<1>3. Tail_' = Tail_ /\ Pinned' = Pinned
  BY <1>1, <1>2 DEF Tail_, Pinned, MessageAt
<1>4. TablesOK' /\ CoversOK' /\ CallsOK'
  BY <1>1, <1>2 DEF TablesInv, TablesOK, CoversOK, CallsOK
<1>5. SourcesOK' /\ SourcesNeverRepeat' /\ AnsweredOnce'
  BY <1>1, <1>2 DEF TablesInv, SourcesOK, SourcesNeverRepeat, AnsweredOnce
<1>6. InOrder'
  BY <1>1, <1>2 DEF TablesInv, InOrder, Covers, SummaryAt
<1> QED BY <1>2, <1>3, <1>4, <1>5, <1>6 DEF TablesInv

(* The messages, by position, and the calls they make or answer. *)
LEMMA MessagesTyped ==
  ASSUME TablesOK
  PROVE  /\ Len(messages) \in Nat /\ DOMAIN messages = 1..Len(messages)
         /\ \A i \in DOMAIN messages : messages[i].slot \in Nat /\ messages[i].call \in Nat
<1>1. messages \in Seq(Message)
  BY DEF TablesOK
<1>2. /\ Len(messages) \in Nat /\ DOMAIN messages = 1..Len(messages)
      /\ \A i \in DOMAIN messages : messages[i] \in Message
  BY <1>1
<1> QED BY <1>2 DEF Message

(* With no call open and neither pass at work, control is in order. *)
LEMMA QuietControl ==
  ASSUME ControlOK, phase' \in {"idle", "turn", "repair", "down"},
         resume' \in {"idle", "turn"}, base' \in Nat,
         open' = 0, eligible' = {}, runs' = {}
  PROVE  ControlOK'
<1>1. OpenOK' /\ EligibleOK' /\ RunsOK'
  BY DEF OpenOK, EligibleOK, RunsOK
<1> QED BY <1>1 DEF ControlOK, Phases

-----------------------------------------------------------------------------
(* The steps of a turn *)

(* The user's message, a reply or a notice. *)
LEMMA PushTextStep ==
  ASSUME IInv, NEW w \in Weights, StartTurn(w) \/ PushText(w)
  PROVE  IInv'
<1>1. TablesInv /\ ControlOK
  BY InvParts
<1>2. TablesInv'
  <2>1. CASE StartTurn(w)
    BY <1>1, <2>1, PushKeeps DEF StartTurn, Roles
  <2>2. CASE PushText(w)
    BY <1>1, <2>2, PushKeeps DEF PushText, Roles
  <2> QED BY <2>1, <2>2
<1>3. /\ phase' = "turn" /\ open' = 0 /\ eligible' = {} /\ runs' = {}
      /\ resume' = resume /\ base' = base
  BY <1>1, ControlFacts DEF StartTurn, PushText, Push
<1>4. ControlOK'
  BY <1>1, <1>3, QuietControl DEF ControlOK
<1> QED BY <1>2, <1>4, InvPartsNext

(* The request for n tool calls: they are open, and none is answered. *)
LEMMA PushToolCallsStep ==
  ASSUME IInv, NEW w \in Weights, NEW n \in 1..MaxCalls, PushToolCalls(n, w)
  PROVE  IInv'
<1>1. TablesInv /\ ControlOK /\ TablesOK
  BY InvParts DEF TablesInv
<1>2. n \in Nat /\ n >= 1
  BY LcmAssumption
<1>3. Push("calls", w, 0, n)
  BY DEF PushToolCalls
<1>4. TablesInv'
  BY <1>1, <1>2, <1>3, PushKeeps DEF Roles
<1>5. PushEffect("calls", w, 0, n)
  BY <1>1, <1>2, <1>3, PushFacts DEF Roles
<1>6. /\ phase' = "turn" /\ open' = Len(messages) + 1 /\ eligible' = {} /\ runs' = {}
      /\ resume' = resume /\ base' = base
  BY <1>1, ControlFacts DEF PushToolCalls, Push
<1>7. OpenOK'
  BY <1>2, <1>5, <1>6 DEF OpenOK, PushEffect
<1>8. EligibleOK' /\ RunsOK'
  BY <1>6 DEF EligibleOK, RunsOK
<1>9. ControlOK'
  BY <1>1, <1>5, <1>6, <1>7, <1>8 DEF ControlOK, Phases, PushEffect
<1> QED BY <1>4, <1>9, InvPartsNext

(* A result: the next call in order, which no message answers yet. *)
LEMMA PushResultStep ==
  ASSUME IInv, NEW w \in Weights, PushResult(w)
  PROVE  IInv'
<1>1. TablesInv /\ ControlOK /\ TablesOK /\ CallsOK /\ OpenOK
  BY InvParts DEF TablesInv, ControlOK
<1> PICK o, slot : o = open /\ slot = Len(messages) - open + 1
  OBVIOUS
<1>2. /\ Len(messages) \in Nat /\ DOMAIN messages = 1..Len(messages)
      /\ o \in DOMAIN messages /\ messages[o].slot \in Nat
      /\ Len(messages) - o < messages[o].slot
      /\ \A i \in DOMAIN messages : i > o =>
             messages[i].role = "tool" /\ messages[i].call = o /\ messages[i].slot = i - o
  BY <1>1, MessagesTyped DEF OpenOK, PushResult
<1>3. slot \in Nat /\ o \in Nat /\ o <= Len(messages)
  BY <1>2
<1>4. Push("tool", w, o, slot)
  BY DEF PushResult
<1>5. ASSUME NEW i \in DOMAIN messages, messages[i].role = "tool", messages[i].call = o
      PROVE  messages[i].slot # slot
  <2>1. o < i /\ i <= Len(messages)
    BY <1>1, <1>2, <1>5 DEF CallsOK
  <2>2. messages[i].slot = i - o
    BY <1>2, <1>5, <2>1
  <2> QED BY <1>2, <1>3, <2>1, <2>2
<1>6. TablesInv'
  BY <1>1, <1>3, <1>4, <1>5, PushKeeps DEF Roles
<1>7. PushEffect("tool", w, o, slot)
  BY <1>1, <1>3, <1>4, PushFacts DEF Roles
<1>8. /\ phase' = "turn" /\ eligible' = {} /\ runs' = {}
      /\ open' = IF slot = messages[o].slot THEN 0 ELSE o
      /\ resume' = resume /\ base' = base
  BY <1>1, ControlFacts DEF PushResult, Push
<1>9. OpenOK'
  <2> SUFFICES ASSUME open' # 0 PROVE OpenOK'
    BY DEF OpenOK
  <2>1. open' = o /\ slot # messages[o].slot
    BY <1>8
  <2>2. /\ o \in DOMAIN messages' /\ messages'[o] = messages[o]
        /\ Len(messages') - o < messages'[o].slot
    BY <1>2, <1>3, <1>7, <2>1 DEF PushEffect
  <2>3. ASSUME NEW i \in DOMAIN messages', i > o
        PROVE  messages'[i].role = "tool" /\ messages'[i].call = o
               /\ messages'[i].slot = i - o
    <3>1. CASE i \in DOMAIN messages
      BY <1>2, <1>7, <2>3, <3>1 DEF PushEffect
    <3>2. CASE i = Len(messages) + 1
      BY <1>2, <1>3, <1>7, <3>2 DEF PushEffect
    <3> QED BY <1>7, <3>1, <3>2 DEF PushEffect
  <2> QED BY <1>8, <2>1, <2>2, <2>3 DEF OpenOK
<1>10. EligibleOK' /\ RunsOK'
  BY <1>8 DEF EligibleOK, RunsOK
<1>11. ControlOK'
  BY <1>1, <1>3, <1>8, <1>9, <1>10 DEF ControlOK, Phases
<1> QED BY <1>6, <1>11, InvPartsNext

(* A repair answers the first call of the last round that has no result. *)
LEMMA RepairFacts ==
  ASSUME TablesOK, Unanswered # {}
  PROVE  /\ Max(CallsMessages) \in Nat /\ Max(CallsMessages) <= Len(messages)
         /\ Min(Unanswered) \in Nat
         /\ \A i \in DOMAIN messages : i > Max(CallsMessages) =>
                ~(messages[i].call = Max(CallsMessages) /\ messages[i].slot = Min(Unanswered))
<1> PICK last, slot : last = Max(CallsMessages) /\ slot = Min(Unanswered)
  OBVIOUS
<1>2. /\ Len(messages) \in Nat /\ DOMAIN messages = 1..Len(messages)
      /\ \A i \in DOMAIN messages : messages[i].slot \in Nat
  BY MessagesTyped
<1>3. /\ CallsMessages # {}
      /\ Unanswered = {s \in 1..messages[last].slot :
             \A i \in DOMAIN messages :
                 i > last => ~(messages[i].call = last /\ messages[i].slot = s)}
  BY DEF Unanswered
<1>4. last \in DOMAIN messages
  <2>1. CallsMessages \in SUBSET (0..Len(messages)) /\ CallsMessages \subseteq DOMAIN messages
    BY <1>2 DEF CallsMessages
  <2> QED BY <1>2, <1>3, <2>1, MaxFact
<1>5. slot \in Unanswered
  <2>1. Unanswered \in SUBSET Nat
    BY <1>3
  <2> QED BY <2>1, MinFact
<1> QED BY <1>2, <1>3, <1>4, <1>5

(* So no call is answered twice. *)
LEMMA RepairStep ==
  ASSUME IInv, NEW w \in Weights, Repair(w)
  PROVE  IInv'
<1>1. TablesInv /\ ControlOK /\ TablesOK /\ CallsOK
  BY InvParts DEF TablesInv
<1> PICK last, slot : last = Max(CallsMessages) /\ slot = Min(Unanswered)
  OBVIOUS
<1>6. /\ slot \in Nat /\ last \in Nat /\ last <= Len(messages)
      /\ \A i \in DOMAIN messages :
             i > last => ~(messages[i].call = last /\ messages[i].slot = slot)
  BY <1>1, RepairFacts DEF Repair
<1>7. ASSUME NEW i \in DOMAIN messages, messages[i].role = "tool", messages[i].call = last
      PROVE  messages[i].slot # slot
  BY <1>1, <1>6, <1>7 DEF CallsOK
<1>8. Push("tool", w, last, slot)
  BY DEF Repair
<1>9. TablesInv'
  BY <1>1, <1>6, <1>7, <1>8, PushKeeps DEF Roles
<1>10. ControlOK'
  <2>1. /\ phase' = "repair" /\ open' = 0 /\ eligible' = {} /\ runs' = {}
        /\ resume' = resume /\ base' = base
    BY <1>1, ControlFacts DEF Repair, Push
  <2> QED BY <1>1, <2>1, QuietControl DEF ControlOK
<1> QED BY <1>9, <1>10, InvPartsNext

-----------------------------------------------------------------------------
(* The steps of compaction *)

(* The list it reads: raw, unprotected, and all that is so before its last. *)
LEMMA StartCompactionStep ==
  ASSUME IInv, StartCompaction
  PROVE  IInv'
<1>1. TablesInv /\ ControlOK /\ TablesOK
  BY InvParts DEF TablesInv
<1>2. TablesInv' /\ Raw' = Raw /\ Tail_' = Tail_ /\ Pinned' = Pinned
  BY <1>1, TablesSame DEF StartCompaction
<1>3. /\ phase' = "leaf" /\ open' = 0 /\ runs' = {} /\ eligible' = LeafEligible
      /\ resume' \in {"idle", "turn"} /\ base' = base
  BY <1>1, ControlFacts DEF StartCompaction
<1>4. ASSUME NEW r \in Raw, NEW e \in LeafEligible, r < e
      PROVE  r \in LeafEligible \cup Pinned
  <2>1. r \notin Tail_
    BY <1>1, <1>4, TailIsLast DEF LeafEligible, TablesOK, Raw
  <2> QED BY <2>1 DEF LeafEligible
<1>5. EligibleOK' /\ OpenOK' /\ RunsOK'
  BY <1>2, <1>3, <1>4 DEF EligibleOK, OpenOK, RunsOK, LeafEligible
<1>6. LeafEligible \subseteq Nat
  BY <1>1 DEF LeafEligible, Raw, TablesOK
<1>7. ControlOK'
  BY <1>1, <1>3, <1>5, <1>6 DEF ControlOK, Phases
<1> QED BY <1>2, <1>7, InvPartsNext

(* A chunk of raw items becomes a leaf; what is left of the list still is  *)
(* what the list was of the tables as they now stand.                      *)
LEMMA WriteLeafStep ==
  ASSUME IInv, NEW t \in SummaryTokens, WriteLeaf(t)
  PROVE  /\ IInv'
         /\ \A o \in Tail_ \cup Pinned : o \in DOMAIN items' /\ items'[o] = items[o]
<1>1. TablesInv /\ ControlOK /\ TablesOK /\ EligibleOK
  BY InvParts DEF TablesInv, ControlOK
<1> PICK C, D, ids, count : /\ C = LeafChunk /\ D = DeletedOrdinals(LeafChunk)
                            /\ ids = {items[o].id : o \in LeafChunk}
                            /\ count = Cardinality(LeafChunk)
  OBVIOUS
<1>2. /\ C \subseteq eligible /\ C # {} /\ C \subseteq DOMAIN items /\ C \subseteq Raw
      /\ \A e \in eligible \ C, o \in C : o < e
      /\ Raw \cap D = C /\ D \cap (Tail_ \cup Pinned) = {}
  BY <1>1, LeafChunkFacts DEF WriteLeaf, EligibleOK
<1>3. ids = UNION {Covers(o) : o \in C} /\ ids \in SUBSET Nat
  BY <1>1, <1>2 DEF Covers, TablesOK
<1>4. Summarize(C, 0, t, ids, ids, count)
  BY <1>2 DEF WriteLeaf, Summarize
<1>5. TablesInv'
  BY <1>1, <1>2, <1>3, <1>4, SummarizeKeeps
<1>6. Summarized(C, 0, t, ids, ids)
  BY <1>1, <1>3, <1>4, SummarizeFacts
<1>7. /\ Raw' = Raw \ D /\ Raw' = Raw \ C
      /\ \A o \in Raw' : o \in Nat /\ o \in Raw /\ items'[o] = items[o]
                         /\ MessageAt(o)' = MessageAt(o)
  BY <1>1, <1>2, <1>6 DEF Summarized, WriteLeaf, Raw, TablesOK, MessageAt
<1>8. /\ phase' = "leaf" /\ open' = 0 /\ runs' = {} /\ eligible' = eligible \ C
      /\ resume' = resume /\ base' = base
  BY <1>1, ControlFacts DEF WriteLeaf
<1>9. \A o \in Tail_ \cup Pinned : o \in DOMAIN items' /\ items'[o] = items[o]
  BY <1>2, <1>6, <1>7 DEF Summarized, Tail_, Pinned, Raw
<1>10. ASSUME NEW e \in eligible \ C PROVE e \in Raw' /\ e \notin Tail_' /\ e \notin Pinned'
  <2>1. e \in Raw /\ e \in Raw' /\ e \notin Tail_ /\ e \notin Pinned /\ e \in Nat
    BY <1>1, <1>7 DEF EligibleOK
  <2>2. {p \in Raw' : p > e} = {p \in Raw : p > e}
    <3>1. \A p \in C : p \in Nat /\ p < e
      BY <1>1, <1>2 DEF Raw, TablesOK
    <3> QED BY <1>7, <2>1, <3>1
  <2>3. e \notin Tail_'
    BY <2>1, <2>2 DEF Tail_
  <2>4. ASSUME e \in Pinned' PROVE FALSE
    <3>1. MessageAt(e).role = "user"
          /\ \A p \in Raw' : MessageAt(p).role = "user" => p <= e
      BY <1>7, <2>1, <2>4 DEF Pinned
    <3>2. \A p \in C : p <= e
      BY <1>1, <1>2, <2>1 DEF Raw, TablesOK
    <3> QED BY <1>7, <2>1, <3>1, <3>2 DEF Pinned
  <2> QED BY <2>1, <2>3, <2>4
<1>11. ASSUME NEW r \in Raw', NEW e \in eligible \ C, r < e
       PROVE  r \in (eligible \ C) \cup Pinned'
  <2>1. r \in eligible \ C \/ r \in Pinned
    BY <1>1, <1>7, <1>11 DEF EligibleOK
  <2>2. CASE r \in Pinned
    BY <1>7, <2>2 DEF Pinned
  <2> QED BY <2>1, <2>2
<1>12. EligibleOK' /\ OpenOK' /\ RunsOK'
  BY <1>8, <1>10, <1>11 DEF EligibleOK, OpenOK, RunsOK
<1>13. ControlOK'
  BY <1>1, <1>8, <1>12 DEF ControlOK, Phases
<1> QED BY <1>5, <1>9, <1>13, InvPartsNext

(* The runs it reads; when there is none the cycle is over. *)
LEMMA LoadRunsStep ==
  ASSUME IInv, LoadRuns
  PROVE  IInv'
<1>1. TablesInv /\ ControlOK /\ TablesOK
  BY InvParts DEF TablesInv
<1>2. TablesInv' /\ Nodes' = Nodes /\ items' = items
  BY <1>1, TablesSame DEF LoadRuns, tables
<1>3. /\ open' = 0 /\ eligible' = {} /\ runs' = CondensedRuns
      /\ phase' \in {"condense", "idle", "turn"} /\ resume' \in {"idle", "turn"}
      /\ CondensedRuns # {} => phase' = "condense"
      /\ base' = base
  BY <1>1, ControlFacts DEF LoadRuns, ControlOK
<1>4. /\ \A R \in CondensedRuns : R # {} /\ R \subseteq Nodes /\ DeletedOrdinals(R) = R
      /\ \A R, S \in CondensedRuns : R # S => R \cap S = {}
  BY <1>1, CondensedRunsFacts
<1>5. EligibleOK' /\ OpenOK'
  BY <1>3 DEF EligibleOK, OpenOK
<1>6. RunsOK'
  BY <1>2, <1>3, <1>4 DEF RunsOK, DeletedOrdinals
<1>7. CondensedRuns \subseteq SUBSET Nat
  BY <1>1, <1>4 DEF Nodes, TablesOK
<1>8. ControlOK'
  BY <1>1, <1>3, <1>5, <1>6, <1>7 DEF ControlOK, Phases
<1> QED BY <1>2, <1>8, InvPartsNext

(* The oldest run becomes one summary; the others are where they were. *)
LEMMA WriteCondensedStep ==
  ASSUME IInv, NEW t \in SummaryTokens, WriteCondensed(t)
  PROVE  /\ IInv'
         /\ \A o \in Tail_ \cup Pinned : o \in DOMAIN items' /\ items'[o] = items[o]
<1>1. TablesInv /\ ControlOK /\ TablesOK /\ RunsOK /\ CoversOK
  BY InvParts DEF TablesInv, ControlOK
<1> PICK R, depth, ids, covers, count :
        /\ R = OldestRun /\ depth = SummaryAt(Min(R)).depth + 1
        /\ ids = {items[o].id : o \in R} /\ covers = UNION {Covers(o) : o \in R}
        /\ count = Descendants(R)
  OBVIOUS
<1>2. /\ R \in runs /\ R # {} /\ R \subseteq Nodes /\ R \subseteq DOMAIN items
      /\ DeletedOrdinals(R) = R
  BY <1>1, OldestRunFacts DEF WriteCondensed, RunsOK, Nodes
<1>3. Min(R) \in R
  BY <1>1, <1>2, RangeFacts
<1>4. depth \in Nat /\ depth > 0
  <2>1. items[Min(R)].id \in DOMAIN summaries /\ summaries \in Seq(Summary)
    BY <1>1, <1>2, <1>3 DEF TablesOK
  <2>2. summaries[items[Min(R)].id] \in Summary
    BY <2>1
  <2> QED BY <2>2 DEF SummaryAt, Summary
<1>5. ids \in SUBSET Nat /\ covers \in SUBSET Nat
  <2>1. \A o \in R : items[o].id \in Nat
    BY <1>1, <1>2 DEF TablesOK, Item
  <2>2. \A o \in R : Covers(o) \subseteq Nat
    BY <1>1, <1>2, CoversFacts DEF TablesOK
  <2> QED BY <2>1, <2>2
<1>6. Summarize(R, depth, t, ids, covers, count)
  BY <1>2 DEF WriteCondensed, Summarize
<1>7. TablesInv'
  BY <1>1, <1>2, <1>4, <1>6, SummarizeKeeps
<1>8. Summarized(R, depth, t, ids, covers)
  BY <1>1, <1>4, <1>5, <1>6, SummarizeFacts
<1>9. /\ phase' = "condense" /\ open' = 0 /\ eligible' = {} /\ runs' = runs \ {R}
      /\ resume' = resume /\ base' = base
  BY <1>1, ControlFacts DEF WriteCondensed
<1>10. \A o \in Tail_ \cup Pinned : o \in DOMAIN items' /\ items'[o] = items[o]
  <2>1. \A o \in Tail_ \cup Pinned : o \in Raw /\ o \notin R /\ o \in DOMAIN items
    BY <1>2 DEF Tail_, Pinned, Raw, Nodes
  <2> QED BY <1>2, <1>8, <2>1 DEF Summarized
<1>11. ASSUME NEW S \in runs \ {R}
       PROVE  S # {} /\ S \subseteq Nodes' /\ DeletedOrdinals(S)' = S
  <2>1. S # {} /\ S \subseteq Nodes /\ DeletedOrdinals(S) = S /\ S \cap R = {}
    BY <1>1, <1>2, <1>11 DEF RunsOK
  <2>2. S \subseteq Nodes' /\ DOMAIN items' \subseteq DOMAIN items
    BY <1>2, <1>3, <1>8, <2>1 DEF Summarized
  <2>3. S \subseteq DOMAIN items'
    BY <2>2 DEF Nodes
  <2> QED BY <2>1, <2>2, <2>3 DEF DeletedOrdinals
<1>12. EligibleOK' /\ OpenOK'
  BY <1>9 DEF EligibleOK, OpenOK
<1>13. RunsOK'
  BY <1>1, <1>9, <1>11 DEF RunsOK
<1>14. ControlOK'
  BY <1>1, <1>9, <1>12, <1>13 DEF ControlOK, Phases
<1> QED BY <1>7, <1>10, <1>14, InvPartsNext

-----------------------------------------------------------------------------
(* The other steps, and the invariant *)

(* A turn ends, a cycle is aborted, the process dies, the conversation is  *)
(* reopened and its repair completed: the tables stay as they are.         *)
LEMMA QuietStep ==
  ASSUME IInv, EndTurn \/ CompactionFails \/ Crash \/ Reopen \/ RepairDone
  PROVE  IInv' /\ UNCHANGED <<tables, base>>
<1>1. TablesInv /\ ControlOK
  BY InvParts
<1>2. UNCHANGED <<tables, base>>
  BY DEF EndTurn, CompactionFails, Crash, Reopen, RepairDone
<1>3. /\ phase' \in {"idle", "repair", "down"} /\ resume' \in {"idle", "turn"}
      /\ open' = 0 /\ eligible' = {} /\ runs' = {}
  BY <1>1, ControlFacts DEF EndTurn, CompactionFails, Crash, Reopen, RepairDone, ControlOK
<1>4. TablesInv'
  BY <1>1, <1>2, TablesSame
<1>5. ControlOK'
  BY <1>1, <1>2, <1>3, QuietControl DEF ControlOK
<1> QED BY <1>2, <1>4, <1>5, InvPartsNext

(* The operator clears the active context, and nothing else. *)
LEMMA ClearStep ==
  ASSUME IInv, Clear
  PROVE  IInv'
<1>1. TablesInv /\ ControlOK
  BY InvParts
<1>2. /\ messages' = messages /\ summaries' = summaries /\ counts' = counts
      /\ DOMAIN items' = {} /\ items' \in [DOMAIN items' -> Item]
      /\ phase' = "idle" /\ base' = Len(messages)
      /\ open' = 0 /\ eligible' = {} /\ runs' = {} /\ resume' = resume
  BY <1>1, ControlFacts DEF Clear
<1>3. Raw' = {} /\ Nodes' = {}
  BY <1>2 DEF Raw, Nodes
<1>4. TablesOK' /\ CoversOK' /\ CallsOK'
  BY <1>1, <1>2, <1>3 DEF TablesInv, TablesOK, CoversOK, CallsOK
<1>5. SourcesOK' /\ SourcesNeverRepeat' /\ AnsweredOnce' /\ InOrder'
  BY <1>1, <1>2, <1>3 DEF TablesInv, SourcesOK, SourcesNeverRepeat, AnsweredOnce, InOrder
<1>6. Len(messages) \in Nat
  BY <1>1 DEF TablesInv, TablesOK
<1>7. ControlOK'
  BY <1>1, <1>2, <1>6, QuietControl DEF ControlOK
<1> QED BY <1>4, <1>5, <1>7, InvPartsNext DEF TablesInv

(* Stuttering. *)
LEMMA StutterStep ==
  ASSUME IInv, UNCHANGED vars
  PROVE  IInv'
<1>1. TablesInv /\ ControlOK /\ UNCHANGED tables
  BY InvParts DEF vars, tables
<1>2. TablesInv' /\ Raw' = Raw /\ Nodes' = Nodes /\ Tail_' = Tail_ /\ Pinned' = Pinned
  BY <1>1, TablesSame
<1>3. OpenOK' /\ EligibleOK' /\ RunsOK'
  BY <1>1, <1>2 DEF vars, ControlOK, OpenOK, EligibleOK, RunsOK, DeletedOrdinals
<1>4. ControlOK'
  BY <1>1, <1>3 DEF vars, ControlOK
<1> QED BY <1>2, <1>4, InvPartsNext

(* The empty conversation satisfies the invariant ... *)
LEMMA InitInv == Init => IInv
<1> SUFFICES ASSUME Init PROVE IInv
  OBVIOUS
<1>1. /\ messages = <<>> /\ summaries = <<>> /\ counts = <<>> /\ DOMAIN items = {}
      /\ items \in [DOMAIN items -> Item]
      /\ phase = "idle" /\ resume = "idle"
      /\ open = 0 /\ eligible = {} /\ runs = {} /\ base = 0
  BY DEF Init
<1>2. Raw = {} /\ Nodes = {}
  BY <1>1 DEF Raw, Nodes
<1>3. TablesOK /\ CoversOK /\ CallsOK
  BY <1>1, <1>2 DEF TablesOK, CoversOK, CallsOK
<1>4. SourcesOK /\ SourcesNeverRepeat /\ AnsweredOnce /\ InOrder
  BY <1>1, <1>2 DEF SourcesOK, SourcesNeverRepeat, AnsweredOnce, InOrder
<1>5. OpenOK /\ EligibleOK /\ RunsOK
  BY <1>1 DEF OpenOK, EligibleOK, RunsOK
<1> QED BY <1>1, <1>3, <1>4, <1>5, InvParts DEF TablesInv, ControlOK, Phases

(* ... and every step keeps it. *)
LEMMA NextInv == IInv /\ [Next]_vars => IInv'
<1> SUFFICES ASSUME IInv, [Next]_vars PROVE IInv'
  OBVIOUS
<1>1. ASSUME NEW w \in Weights, StartTurn(w) \/ PushText(w) PROVE IInv'
  BY <1>1, PushTextStep
<1>2. ASSUME NEW w \in Weights, NEW n \in 1..MaxCalls, PushToolCalls(n, w) PROVE IInv'
  BY <1>2, PushToolCallsStep
<1>3. ASSUME NEW w \in Weights, PushResult(w) PROVE IInv'
  BY <1>3, PushResultStep
<1>4. ASSUME NEW w \in Weights, Repair(w) PROVE IInv'
  BY <1>4, RepairStep
<1>5. CASE StartCompaction
  BY <1>5, StartCompactionStep
<1>6. ASSUME NEW t \in SummaryTokens, WriteLeaf(t) PROVE IInv'
  BY <1>6, WriteLeafStep
<1>7. ASSUME NEW t \in SummaryTokens, WriteCondensed(t) PROVE IInv'
  BY <1>7, WriteCondensedStep
<1>8. CASE LoadRuns
  BY <1>8, LoadRunsStep
<1>9. CASE EndTurn \/ CompactionFails \/ Crash \/ Reopen \/ RepairDone
  BY <1>9, QuietStep
<1>10. CASE Clear
  BY <1>10, ClearStep
<1>11. CASE UNCHANGED vars
  BY <1>11, StutterStep
<1> QED BY <1>1, <1>2, <1>3, <1>4, <1>5, <1>6, <1>7, <1>8, <1>9, <1>10, <1>11
        DEF Next, CompactionStep

-----------------------------------------------------------------------------
(* The theorems *)

(* The invariant holds throughout: of the tables, and of every list or run *)
(* a pass has read from them, which later transactions make stale.         *)
THEOREM Invariance == Spec => []IInv
BY InitInv, NextInv, PTL DEF Spec

(* Types, references between the tables, and ordinals below the number of  *)
(* messages although MAX(ordinal) + 1 skips those that were deleted.       *)
THEOREM TypeCorrect == Spec => []TypeOK
<1>1. IInv => TypeOK
  BY DEF IInv
<1> QED BY <1>1, Invariance, PTL

(* What assemble() sends is in conversation order and never repeats a      *)
(* message, for any tail, fanout, budget and token counts.                 *)
THEOREM ContextInOrder == Spec => []InOrder
<1>1. IInv => InOrder
  BY DEF IInv
<1> QED BY <1>1, Invariance, PTL

(* Summaries of one depth share no source, so derive_summary_id gives each *)
(* its own primary key and the links form a forest.                        *)
THEOREM SourcesDisjoint == Spec => []SourcesNeverRepeat
<1>1. IInv => SourcesNeverRepeat
  BY DEF IInv
<1> QED BY <1>1, Invariance, PTL

(* No tool call has two results, however turns, crashes, switches and      *)
(* repairs (one transaction per call, each interruptible) follow.          *)
THEOREM CallsAnsweredOnce == Spec => []AnsweredOnce
<1>1. IInv => AnsweredOnce
  BY DEF IInv
<1> QED BY <1>1, Invariance, PTL

(* The passes work on lists read before their first transaction, and yet   *)
(* never take an item of the fresh tail as it now is, or the pinned one.   *)
THEOREM ProtectedStay == Spec => ProtectedKept
<1> DEFINE Kept == \A o \in Tail_ \cup Pinned : o \in DOMAIN items' /\ items'[o] = items[o]
           Step == base' = base /\ messages' = messages /\ phase \in {"leaf", "condense"}
<1>1. IInv /\ [Next]_vars => (Step => Kept)
  <2> SUFFICES ASSUME IInv, [Next]_vars, Step PROVE Kept
    OBVIOUS
  <2>1. Tail_ \cup Pinned \subseteq DOMAIN items
    BY DEF Tail_, Pinned, Raw
  <2>2. CASE items' = items
    BY <2>1, <2>2
  <2>3. ASSUME NEW t \in SummaryTokens, WriteLeaf(t) PROVE Kept
    BY <2>3, WriteLeafStep
  <2>4. ASSUME NEW t \in SummaryTokens, WriteCondensed(t) PROVE Kept
    BY <2>4, WriteCondensedStep
  <2>5. CASE LoadRuns \/ CompactionFails \/ Crash \/ UNCHANGED vars
    BY <2>2, <2>5 DEF LoadRuns, CompactionFails, Crash, vars, tables
  <2>6. phase # "turn" /\ phase # "idle" /\ phase # "repair" /\ phase # "down"
    OBVIOUS
  <2>7. ~ \E w \in Weights : \/ StartTurn(w) \/ PushText(w) \/ PushResult(w) \/ Repair(w)
                             \/ \E n \in 1..MaxCalls : PushToolCalls(n, w)
    BY <2>6 DEF StartTurn, PushText, PushResult, Repair, PushToolCalls
  <2>8. ~(EndTurn \/ StartCompaction \/ Clear \/ Reopen \/ RepairDone)
    BY <2>6 DEF EndTurn, StartCompaction, Clear, Reopen, RepairDone
  <2> QED BY <2>3, <2>4, <2>5, <2>7, <2>8 DEF Next, CompactionStep
<1>2. Spec => [][Step => Kept]_vars
  BY <1>1, Invariance, PTL DEF Spec
<1> QED BY <1>2 DEF ProtectedKept

-----------------------------------------------------------------------------
(* Compaction comes to an end: what CompactionEnds rests on besides fairness. *)

Compacting == phase \in {"leaf", "condense"}

(* A raw message may become part of a leaf, and a leaf of a condensed one. *)
ItemsLeft == 2 * Cardinality(Raw) + Cardinality(Nodes)

(* Bounds the steps left: a transaction replaces at least one raw item or  *)
(* two summaries by one summary, and the next one may be preceded by a load. *)
StepsLeft == 2 * ItemsLeft + (IF runs = {} THEN 1 ELSE 0)

RunsLong == \A R \in runs : Cardinality(R) >= MinFanout

CondensingShrinks ==
    [][phase = "condense" /\ summaries' # summaries =>
           Cardinality(Nodes') < Cardinality(Nodes)]_vars

CompactionShrinks == [][Compacting => StepsLeft' < StepsLeft \/ ~Compacting']_vars

LEMMA ItemsFinite ==
  ASSUME TablesOK
  PROVE  /\ IsFiniteSet(Raw) /\ Cardinality(Raw) \in Nat
         /\ IsFiniteSet(Nodes) /\ Cardinality(Nodes) \in Nat
<1>1. /\ Len(messages) \in Nat /\ Raw \subseteq 0..Len(messages)
      /\ Nodes \subseteq 0..Len(messages)
  BY DEF TablesOK, Raw, Nodes
<1>2. IsFiniteSet(0..Len(messages))
  BY <1>1, FS_Interval
<1> QED BY <1>1, <1>2, FS_Subset, FS_CardinalityType

(* A non-empty part of a finite set is taken out, and one element put in.  *)
LEMMA TakenOut ==
  ASSUME NEW S, IsFiniteSet(S), NEW C \in SUBSET S, NEW x
  PROVE  /\ IsFiniteSet((S \ C) \cup {x})
         /\ Cardinality(C) \in Nat /\ Cardinality(S) \in Nat
         /\ Cardinality(S \ C) = Cardinality(S) - Cardinality(C)
         /\ Cardinality((S \ C) \cup {x}) \in Nat
         /\ Cardinality((S \ C) \cup {x}) <= Cardinality(S) - Cardinality(C) + 1
         /\ C # {} => Cardinality(C) > 0
<1>1. IsFiniteSet(C) /\ S \cap C = C
  BY FS_Subset
<1>2. /\ Cardinality(C) \in Nat /\ Cardinality(S) \in Nat
      /\ C # {} => Cardinality(C) # 0
  BY <1>1, FS_CardinalityType, FS_EmptySet
<1>3. IsFiniteSet(S \ C) /\ Cardinality(S \ C) = Cardinality(S) - Cardinality(C)
  BY <1>1, FS_Difference
<1> PICK T : T = S \ C
  OBVIOUS
<1>4. /\ IsFiniteSet(T \cup {x}) /\ Cardinality(T) \in Nat
      /\ Cardinality(T \cup {x}) = IF x \in T THEN Cardinality(T) ELSE Cardinality(T) + 1
  BY <1>3, FS_AddElement, FS_CardinalityType
<1>5. Cardinality(T \cup {x}) \in Nat
  BY <1>4, FS_CardinalityType
<1> QED BY <1>2, <1>3, <1>4, <1>5

LEMMA WriteLeafShrinks ==
  ASSUME IInv, NEW t \in SummaryTokens, WriteLeaf(t)
  PROVE  StepsLeft' < StepsLeft
<1>1. TablesOK /\ EligibleOK
  BY DEF IInv, TypeOK, TablesOK
<1> PICK C, D, ids : /\ C = LeafChunk /\ D = DeletedOrdinals(LeafChunk)
                     /\ ids = {items[o].id : o \in LeafChunk}
  OBVIOUS
<1>2. /\ C \subseteq Raw /\ C # {} /\ C \subseteq DOMAIN items /\ Raw \cap D = C
  BY <1>1, LeafChunkFacts DEF WriteLeaf, EligibleOK
<1>3. ids \in SUBSET Nat
  BY <1>1, <1>2 DEF TablesOK
<1>4. Summarize(C, 0, t, ids, ids, Cardinality(C))
  BY <1>2 DEF WriteLeaf, Summarize
<1>5. Summarized(C, 0, t, ids, ids)
  BY <1>1, <1>3, <1>4, SummarizeFacts
<1>6. Raw' = Raw \ C /\ Nodes' \subseteq Nodes \cup {Min(C)}
  BY <1>2, <1>5 DEF Summarized
<1>7. /\ IsFiniteSet(Raw) /\ Cardinality(Raw) \in Nat /\ Cardinality(Nodes) \in Nat
      /\ IsFiniteSet(Nodes)
  BY <1>1, ItemsFinite
<1> PICK low : low = Min(C)
  OBVIOUS
<1>8. Cardinality(Raw') < Cardinality(Raw) /\ Cardinality(Raw') \in Nat
  <2>1. /\ Cardinality(Raw \ C) = Cardinality(Raw) - Cardinality(C)
        /\ Cardinality(C) \in Nat /\ Cardinality(C) > 0
    BY <1>2, <1>7, TakenOut
  <2>2. Cardinality(Raw \ C) \in Nat
    BY <1>7, FS_Difference, FS_CardinalityType
  <2> QED BY <1>6, <1>7, <2>1, <2>2
<1>9. Cardinality(Nodes') <= Cardinality(Nodes) + 1 /\ Cardinality(Nodes') \in Nat
  <2> PICK N, M : N = Nodes \cup {low} /\ M = Nodes'
    OBVIOUS
  <2>1. IsFiniteSet(N) /\ Cardinality(N) <= Cardinality(Nodes) + 1
    <3>1. /\ IsFiniteSet(N)
          /\ Cardinality(N) = IF low \in Nodes THEN Cardinality(Nodes) ELSE Cardinality(Nodes) + 1
      BY <1>7, FS_AddElement, Zenon
    <3> QED BY <1>7, <3>1
  <2>2. M \in SUBSET N
    BY <1>6
  <2>3. /\ IsFiniteSet(M) /\ Cardinality(M) <= Cardinality(N)
        /\ Cardinality(M) \in Nat /\ Cardinality(N) \in Nat
    BY <2>1, <2>2, FS_Subset, FS_CardinalityType
  <2> QED BY <1>7, <2>1, <2>3
<1>10. runs' = runs
  BY DEF WriteLeaf
<1> QED BY <1>7, <1>8, <1>9, <1>10 DEF StepsLeft, ItemsLeft

LEMMA WriteCondensedShrinks ==
  ASSUME IInv, RunsLong, NEW t \in SummaryTokens, WriteCondensed(t)
  PROVE  StepsLeft' < StepsLeft /\ Cardinality(Nodes') < Cardinality(Nodes)
<1>1. TablesOK /\ RunsOK /\ CoversOK
  BY DEF IInv, TypeOK, TablesOK
<1> PICK R, depth, ids, covers, count :
        /\ R = OldestRun /\ depth = SummaryAt(Min(R)).depth + 1
        /\ ids = {items[o].id : o \in R} /\ covers = UNION {Covers(o) : o \in R}
        /\ count = Descendants(R)
  OBVIOUS
<1>2. /\ R \in runs /\ R # {} /\ R \subseteq Nodes /\ R \subseteq DOMAIN items
      /\ DeletedOrdinals(R) = R
  BY <1>1, OldestRunFacts DEF WriteCondensed, RunsOK, Nodes
<1>3. Min(R) \in R
  BY <1>1, <1>2, RangeFacts
<1>4. depth \in Nat
  <2>1. items[Min(R)].id \in DOMAIN summaries /\ summaries \in Seq(Summary)
    BY <1>1, <1>2, <1>3 DEF TablesOK
  <2>2. summaries[items[Min(R)].id] \in Summary
    BY <2>1
  <2> QED BY <2>2 DEF SummaryAt, Summary
<1>5. ids \in SUBSET Nat /\ covers \in SUBSET Nat
  <2>1. \A o \in R : items[o].id \in Nat
    BY <1>1, <1>2 DEF TablesOK, Item
  <2>2. \A o \in R : Covers(o) \subseteq Nat
    BY <1>1, <1>2, CoversFacts DEF TablesOK
  <2> QED BY <2>1, <2>2
<1>6. Summarize(R, depth, t, ids, covers, count)
  BY <1>2 DEF WriteCondensed, Summarize
<1>7. Summarized(R, depth, t, ids, covers)
  BY <1>1, <1>4, <1>5, <1>6, SummarizeFacts
<1>8. Raw' = Raw /\ Nodes' = (Nodes \ R) \cup {Min(R)}
  BY <1>2, <1>7 DEF Summarized, Raw, Nodes
<1>9. /\ IsFiniteSet(Nodes) /\ Cardinality(Nodes) \in Nat /\ Cardinality(Nodes') \in Nat
      /\ Cardinality(Raw) \in Nat
  <2>1. IsFiniteSet(Nodes) /\ Cardinality(Nodes) \in Nat /\ Cardinality(Raw) \in Nat
    BY <1>1, ItemsFinite
  <2> PICK low : low = Min(R)
    OBVIOUS
  <2>2. Cardinality((Nodes \ R) \cup {low}) \in Nat
    BY <1>2, <2>1, TakenOut
  <2> QED BY <1>8, <2>1, <2>2
<1>10. Cardinality(R) >= 2 /\ Cardinality(R) \in Nat
  <2>1. Cardinality(R) \in Nat /\ Cardinality(R) >= MinFanout
    BY <1>2, <1>9, TakenOut DEF RunsLong
  <2> QED BY <2>1, LcmConfigAssumption
<1>11. Cardinality(Nodes') <= Cardinality(Nodes) - Cardinality(R) + 1
  BY <1>2, <1>8, <1>9, TakenOut
<1>12. Cardinality(Nodes') + 1 <= Cardinality(Nodes)
  BY <1>9, <1>10, <1>11
<1> QED BY <1>8, <1>9, <1>12 DEF StepsLeft, ItemsLeft

LEMMA LoadRunsShrinks ==
  ASSUME IInv, LoadRuns
  PROVE  StepsLeft' < StepsLeft \/ ~Compacting'
<1>1. TablesOK /\ RunsOK /\ resume \in {"idle", "turn"}
  BY DEF IInv, TypeOK, TablesOK
<1>2. runs = {} /\ items' = items /\ runs' = CondensedRuns
  BY <1>1 DEF LoadRuns, RunsOK, tables
<1>3. Raw' = Raw /\ Nodes' = Nodes
  BY <1>2 DEF Raw, Nodes
<1>4. CASE CondensedRuns = {}
  BY <1>1, <1>4 DEF LoadRuns, Compacting
<1>5. CASE CondensedRuns # {}
  BY <1>1, <1>2, <1>3, <1>5, ItemsFinite DEF StepsLeft, ItemsLeft
<1> QED BY <1>4, <1>5

LEMMA RunsLongStep == IInv /\ RunsLong /\ [Next]_vars => RunsLong'
<1> SUFFICES ASSUME IInv, RunsLong, [Next]_vars PROVE RunsLong'
  OBVIOUS
<1>1. CASE runs' \subseteq runs
  BY <1>1 DEF RunsLong
<1>2. CASE LoadRuns
  BY <1>2 DEF LoadRuns, CondensedRuns, LongEnough, RunsLong
<1>3. ASSUME NEW t \in SummaryTokens, WriteLeaf(t) \/ WriteCondensed(t)
      PROVE  runs' \subseteq runs
  BY <1>3 DEF WriteLeaf, WriteCondensed
<1>4. CASE CompactionFails \/ Crash
  BY <1>1, <1>4 DEF CompactionFails, Crash
<1>5. CASE \/ EndTurn \/ StartCompaction \/ Clear \/ Reopen \/ RepairDone \/ UNCHANGED vars
           \/ \E w \in Weights : \/ StartTurn(w) \/ PushText(w) \/ PushResult(w) \/ Repair(w)
                                 \/ \E n \in 1..MaxCalls : PushToolCalls(n, w)
  BY <1>1, <1>5 DEF EndTurn, StartCompaction, Clear, Reopen, RepairDone, vars, StartTurn,
     PushText, PushResult, Repair, PushToolCalls
<1> QED BY <1>1, <1>2, <1>3, <1>4, <1>5 DEF Next, CompactionStep

LEMMA RunsLongAlways == Spec => [](IInv /\ RunsLong)
<1>1. Init => RunsLong
  BY DEF Init, RunsLong
<1> QED BY <1>1, InitInv, NextInv, RunsLongStep, PTL DEF Spec

(* A transaction of the condensed pass is no step of another action. *)
LEMMA OnlyCondensed ==
  ASSUME [Next]_vars, phase = "condense", summaries' # summaries
  PROVE  \E t \in SummaryTokens : WriteCondensed(t)
<1>1. ~ \E t \in SummaryTokens : WriteLeaf(t)
  BY DEF WriteLeaf
<1>2. ~ \/ EndTurn \/ StartCompaction \/ CompactionFails \/ Clear \/ Crash \/ Reopen
        \/ RepairDone \/ LoadRuns \/ UNCHANGED vars
  BY DEF EndTurn, StartCompaction, CompactionFails, Clear, Crash, Reopen, RepairDone,
     LoadRuns, vars, tables
<1>3. ~ \E w \in Weights : \/ StartTurn(w) \/ PushText(w) \/ PushResult(w) \/ Repair(w)
                           \/ \E n \in 1..MaxCalls : PushToolCalls(n, w)
  BY DEF StartTurn, PushText, PushResult, Repair, PushToolCalls, Push
<1> QED BY <1>1, <1>2, <1>3 DEF Next, CompactionStep

(* run_compaction: "Each step strictly reduces the number of summary items *)
(* in context_items", whatever runs were loaded how long ago: each still   *)
(* is a range of at least MinFanout summaries when it is replaced by one.  *)
THEOREM CondensingShrinksAlways == Spec => CondensingShrinks
<1> DEFINE Shrinks == phase = "condense" /\ summaries' # summaries =>
                          Cardinality(Nodes') < Cardinality(Nodes)
<1>1. IInv /\ RunsLong /\ [Next]_vars => Shrinks
  BY OnlyCondensed, WriteCondensedShrinks
<1> HIDE DEF Shrinks
<1>2. IInv /\ RunsLong /\ [Next]_vars => [Shrinks]_vars
  BY <1>1
<1>3. Spec => [][Shrinks]_vars
  BY <1>2, RunsLongAlways, PTL DEF Spec
<1> QED BY <1>3, PTL DEF CondensingShrinks, Shrinks

(* While a cycle runs, there are its own steps and what ends it. *)
LEMMA OnlyCompaction ==
  ASSUME [Next]_vars, Compacting, Compacting', vars' # vars
  PROVE  CompactionStep
<1>1. ~ (EndTurn \/ StartCompaction \/ CompactionFails \/ Clear \/ Crash \/ Reopen \/ RepairDone)
  BY DEF EndTurn, StartCompaction, CompactionFails, Clear, Crash, Reopen, RepairDone, Compacting
<1>2. ~ \E w \in Weights : \/ StartTurn(w) \/ PushText(w) \/ PushResult(w) \/ Repair(w)
                           \/ \E n \in 1..MaxCalls : PushToolCalls(n, w)
  BY DEF StartTurn, PushText, PushResult, Repair, PushToolCalls, Compacting
<1> QED BY <1>1, <1>2 DEF Next

(* "so the loop terminates": every step that is taken while a cycle runs   *)
(* ends the cycle or brings the natural number StepsLeft down, which at    *)
(* its start is at most four times the items of the context, and one.      *)
(* With the fairness of CompactionStep this makes CompactionEnds true.     *)
THEOREM CompactionShrinksAlways == Spec => []( StepsLeft \in Nat ) /\ CompactionShrinks
<1> DEFINE Shrinks == Compacting => StepsLeft' < StepsLeft \/ ~Compacting'
<1>1. IInv /\ RunsLong /\ [Next]_vars /\ vars' # vars => Shrinks
  BY OnlyCompaction, WriteLeafShrinks, WriteCondensedShrinks, LoadRunsShrinks DEF CompactionStep
<1>2. IInv => StepsLeft \in Nat
  <2>1. IInv => TablesOK
    BY DEF IInv, TypeOK, TablesOK
  <2> QED BY <2>1, ItemsFinite DEF StepsLeft, ItemsLeft
<1> HIDE DEF Shrinks
<1>3. IInv /\ RunsLong /\ [Next]_vars => [Shrinks]_vars
  BY <1>1
<1>4. Spec => [][Shrinks]_vars
  BY <1>3, RunsLongAlways, PTL DEF Spec
<1>5. Spec => [](StepsLeft \in Nat)
  BY <1>2, RunsLongAlways, PTL
<1> QED BY <1>4, <1>5, PTL DEF CompactionShrinks, Shrinks

-----------------------------------------------------------------------------
(* The refinement of ContextPromise *)

(* What can be recalled after a push: the new message too. *)
LEMMA PushRecalls ==
  ASSUME TablesOK, NEW role \in Roles, NEW tokens \in Weights,
         NEW call \in Nat, NEW slot \in Nat, Push(role, tokens, call, slot)
  PROVE  Promise!Record
<1>1. PushEffect(role, tokens, call, slot)
  BY PushFacts
<1>2. summaries' = summaries /\ base' = base
  BY DEF Push
<1>3. {items'[o].id : o \in Raw'} = {items[o].id : o \in Raw} \cup {Len(messages) + 1}
  BY <1>1 DEF PushEffect, Raw
<1>4. Recallable' = Recallable \cup {Len(messages')}
  BY <1>1, <1>2, <1>3 DEF Recallable, PushEffect
<1> QED BY <1>1, <1>2, <1>4 DEF Promise!Record, PushEffect

(* What can be recalled after a transaction of the leaf pass is the same:  *)
(* the raw items it deletes are exactly the new summary's sources. *)
LEMMA WriteLeafRecalls ==
  ASSUME IInv, NEW t \in SummaryTokens, WriteLeaf(t)
  PROVE  Recallable' = Recallable
<1>1. TablesOK /\ EligibleOK
  BY DEF IInv, TypeOK, TablesOK
<1> PICK C, D, ids, count : /\ C = LeafChunk /\ D = DeletedOrdinals(LeafChunk)
                            /\ ids = {items[o].id : o \in LeafChunk}
                            /\ count = Cardinality(LeafChunk)
  OBVIOUS
<1>2. C # {} /\ C \subseteq DOMAIN items /\ C \subseteq Raw /\ Raw \cap D = C
  BY <1>1, LeafChunkFacts DEF WriteLeaf, EligibleOK
<1>3. ids \in SUBSET Nat
  BY <1>1, <1>2 DEF TablesOK
<1>4. Summarize(C, 0, t, ids, ids, count)
  BY <1>2 DEF WriteLeaf, Summarize
<1>5. Summarized(C, 0, t, ids, ids)
  BY <1>1, <1>3, <1>4, SummarizeFacts
<1>6. Raw' = Raw \ C /\ \A o \in Raw' : items'[o] = items[o]
  BY <1>2, <1>5 DEF Summarized, WriteLeaf, Raw
<1>7. {items[o].id : o \in Raw} = {items'[o].id : o \in Raw'} \cup ids
  BY <1>2, <1>6
<1>8. UNION {summaries'[s].covers : s \in DOMAIN summaries'}
        = (UNION {summaries[s].covers : s \in DOMAIN summaries}) \cup ids
  <2> DEFINE new == Len(summaries) + 1
  <2>1. DOMAIN summaries' = DOMAIN summaries \cup {new}
    BY <1>5 DEF Summarized
  <2>2. summaries'[new].covers = ids
    BY <1>5 DEF Summarized
  <2>3. \A s \in DOMAIN summaries : summaries'[s].covers = summaries[s].covers
    BY <1>5 DEF Summarized
  <2> HIDE DEF new
  <2> QED BY <2>1, <2>2, <2>3
<1> QED BY <1>7, <1>8 DEF Recallable

(* Nor does the condensed pass change it: no raw item goes, and what the   *)
(* new summary covers its children cover already.                          *)
LEMMA WriteCondensedRecalls ==
  ASSUME IInv, NEW t \in SummaryTokens, WriteCondensed(t)
  PROVE  Recallable' = Recallable
<1>1. TablesOK /\ RunsOK /\ CoversOK
  BY DEF IInv, TypeOK, TablesOK
<1> PICK R, depth, ids, covers, count :
        /\ R = OldestRun /\ depth = SummaryAt(Min(R)).depth + 1
        /\ ids = {items[o].id : o \in R} /\ covers = UNION {Covers(o) : o \in R}
        /\ count = Descendants(R)
  OBVIOUS
<1>2. R # {} /\ R \subseteq Nodes /\ R \subseteq DOMAIN items /\ DeletedOrdinals(R) = R
  BY <1>1, OldestRunFacts DEF WriteCondensed, RunsOK, Nodes
<1>3. depth \in Nat
  <2>1. Min(R) \in R
    BY <1>1, <1>2, RangeFacts
  <2>2. items[Min(R)].id \in DOMAIN summaries /\ summaries \in Seq(Summary)
    BY <1>1, <1>2, <2>1 DEF TablesOK
  <2>3. summaries[items[Min(R)].id] \in Summary
    BY <2>2
  <2> QED BY <2>3 DEF SummaryAt, Summary
<1>4. covers \subseteq UNION {summaries[s].covers : s \in DOMAIN summaries}
  <2>1. \A o \in R : items[o].id \in DOMAIN summaries /\ o \notin Raw
    BY <1>1, <1>2 DEF TablesOK, Nodes, Raw
  <2> QED BY <2>1 DEF Covers, SummaryAt
<1>5. ids \in SUBSET Nat /\ covers \in SUBSET Nat
  <2>1. \A o \in R : items[o].id \in Nat
    BY <1>1, <1>2 DEF TablesOK, Item
  <2>2. \A o \in R : Covers(o) \subseteq Nat
    BY <1>1, <1>2, CoversFacts DEF TablesOK
  <2> QED BY <2>1, <2>2
<1>6. Summarize(R, depth, t, ids, covers, count)
  BY <1>2 DEF WriteCondensed, Summarize
<1>7. Summarized(R, depth, t, ids, covers)
  BY <1>1, <1>3, <1>5, <1>6, SummarizeFacts
<1>8. Raw' = Raw /\ \A o \in Raw : items'[o] = items[o]
  BY <1>2, <1>7 DEF Summarized, Raw, Nodes
<1>9. UNION {summaries'[s].covers : s \in DOMAIN summaries'}
        = UNION {summaries[s].covers : s \in DOMAIN summaries}
  BY <1>4, <1>7 DEF Summarized
<1> QED BY <1>8, <1>9 DEF Recallable

(* Every step of the engine is a step of the promise, or invisible. *)
LEMMA StepKeepsPromise ==
  ASSUME IInv, [Next]_vars
  PROVE  [Promise!Record \/ Promise!Forget]_Promise!promised
<1>1. TablesOK
  BY DEF IInv, TypeOK, TablesOK
<1>2. ASSUME Recallable' = Recallable, messages' = messages, base' = base
      PROVE  UNCHANGED Promise!promised
  BY <1>2 DEF Promise!promised
<1>3. ASSUME NEW w \in Weights, StartTurn(w) \/ PushText(w) PROVE Promise!Record
  BY <1>1, <1>3, PushRecalls DEF StartTurn, PushText, Roles
<1>4. ASSUME NEW w \in Weights, NEW n \in 1..MaxCalls, PushToolCalls(n, w)
      PROVE  Promise!Record
  BY <1>1, <1>4, PushRecalls, LcmAssumption DEF PushToolCalls, Roles
<1>5. ASSUME NEW w \in Weights, PushResult(w) PROVE Promise!Record
  <2> PICK o, slot : o = open /\ slot = Len(messages) - open + 1
    OBVIOUS
  <2>1. open \in DOMAIN messages /\ Len(messages) \in Nat
    BY <1>1, <1>5, MessagesTyped DEF IInv, OpenOK, PushResult
  <2>2. o \in Nat /\ slot \in Nat
    BY <1>1, <2>1, MessagesTyped
  <2>3. Push("tool", w, o, slot)
    BY <1>5 DEF PushResult
  <2> QED BY <1>1, <2>2, <2>3, PushRecalls DEF Roles
<1>6. ASSUME NEW w \in Weights, Repair(w) PROVE Promise!Record
  <2> PICK last, slot : last = Max(CallsMessages) /\ slot = Min(Unanswered)
    OBVIOUS
  <2>1. last \in Nat /\ slot \in Nat
    BY <1>1, <1>6, RepairFacts DEF Repair
  <2>2. Push("tool", w, last, slot)
    BY <1>6 DEF Repair
  <2> QED BY <1>1, <2>1, <2>2, PushRecalls DEF Roles
<1>7. ASSUME NEW t \in SummaryTokens, WriteLeaf(t) \/ WriteCondensed(t)
      PROVE  UNCHANGED Promise!promised
  BY <1>2, <1>7, WriteLeafRecalls, WriteCondensedRecalls DEF WriteLeaf, WriteCondensed
<1>8. CASE Clear
  <2>1. Raw' = {} /\ summaries' = summaries
    BY <1>8 DEF Clear, Raw
  <2>2. Recallable' \subseteq Recallable
    BY <2>1 DEF Recallable
  <2> QED BY <1>8, <2>2 DEF Clear, Promise!Forget
<1>9. CASE \/ EndTurn \/ CompactionFails \/ Crash \/ Reopen \/ RepairDone
           \/ StartCompaction \/ LoadRuns \/ UNCHANGED vars
  <2>1. messages' = messages /\ items' = items /\ summaries' = summaries /\ base' = base
    BY <1>9 DEF EndTurn, CompactionFails, Crash, Reopen, RepairDone, StartCompaction,
                LoadRuns, vars, tables
  <2> QED BY <1>2, <2>1 DEF Recallable, Raw
<1> QED BY <1>3, <1>4, <1>5, <1>6, <1>7, <1>8, <1>9 DEF Next, CompactionStep

(* The engine implements the promise: compaction, failed cycles, crashes,  *)
(* switches and repairs lose no message; only clear makes one unreachable. *)
THEOREM KeepsPromise == Spec => PromiseKept
<1>1. Init => Promise!Init
  BY DEF Init, Promise!Init, Recallable, Raw
<1>2. IInv /\ [Next]_vars => [Promise!Record \/ Promise!Forget]_Promise!promised
  BY StepKeepsPromise
<1> QED BY <1>1, <1>2, Invariance, PTL DEF Spec, PromiseKept, Promise!Spec

-----------------------------------------------------------------------------
(* The store across conversations: what its inductive invariant says       *)

Entries == [type : {"message", "summary"}, id : Nat]
Contexts == UNION {[S -> Entries] : S \in SUBSET Nat}
Conversations == [messages : Seq(StoredMessage), context : Contexts, base : Nat]
StoredSummaries == [session : Sessions, depth : Nat, sources : SUBSET Nat,
                    files : SUBSET Payloads]
Chunks == [first : Nat, last : Nat, depth : Nat, sources : SUBSET Nat]
Pushing == [message : StoredMessage, written : BOOLEAN]
Engines == [up : BOOLEAN, active : Sessions, push : Pushing \cup {Nothing},
            cycle : {"idle", "leaf", "condense"}, todo : SUBSET Chunks]

StoreTypes ==
    /\ conv \in [Sessions -> Conversations]
    /\ dag \in Seq(StoredSummaries)
    /\ rows \in [Payloads -> Sessions \cup {Nothing}]
    /\ payload \in [Payloads -> {"absent", "torn", "whole"}]
    /\ engine \in Engines
    /\ cursor \in Sessions
    /\ breaks \in Nat

(* Of one conversation: its ordinals are below the number of messages, its *)
(* raw items are messages, a user's message came first, and a message that *)
(* is neither raw nor cleared is behind a summary.                         *)
Sound(c) ==
    /\ \A o \in DOMAIN c.context : o < Len(c.messages)
    /\ \A o \in RawItems(c) : c.context[o].id \in DOMAIN c.messages
    /\ c.base <= Len(c.messages)
    /\ c.messages # <<>> => c.messages[1].role = "user"
    /\ SummaryItems(c) = {} => \A i \in DOMAIN c.messages : i > c.base => i \in RawIds(c)

SoundStore == \A s \in Sessions : Sound(conv[s])

(* A summary in a context is one of that conversation. *)
Owned(k, s) == k \in DOMAIN dag /\ dag[k].session = s

(* A source of a condensed summary lies one level below it.                *)
LevelBelow(k, depth) == dag[k].depth + 1 = depth
OwnSummaries ==
    \A s \in Sessions : \A o \in SummaryItems(conv[s]) : Owned(conv[s].context[o].id, s)

(* The files of stored messages: row and file are there. *)
Kept(p) == p # Nothing => rows[p] \in Sessions /\ payload[p] # "absent"
FilesKept ==
    \A s \in Sessions : \A i \in DOMAIN conv[s].messages : Kept(conv[s].messages[i].file)

(* The push under way, beside which no cycle runs, has opened its file; the *)
(* first is a user's.                                                       *)
PushOK ==
    engine.push # Nothing =>
        /\ engine.cycle = "idle"
        /\ engine.push.message.file \in Payloads
        /\ payload[engine.push.message.file] # "absent"
        /\ Here.messages = <<>> => engine.push.message.role = "user"

(* What the condensed pass has loaded are summaries of the active          *)
(* conversation, for one above the leaves.                                 *)
ChunkOK(t) ==
    /\ t.depth > 0
    /\ t.first < Len(Here.messages)
    /\ \A k \in t.sources : Owned(k, engine.active) /\ LevelBelow(k, t.depth)
TodoOK ==
    /\ engine.todo # {} => engine.cycle = "condense"
    /\ \A t \in engine.todo : ChunkOK(t)

(* Every summary lists the files of its own sources. *)
LeafLinked(d) ==
    /\ dag[d].sources \subseteq DOMAIN conv[dag[d].session].messages
    /\ \A i \in dag[d].sources :
          LET p == conv[dag[d].session].messages[i].file IN p # Nothing => p \in dag[d].files
CondensedLinked(d) ==
    \A k \in dag[d].sources : /\ Owned(k, dag[d].session) /\ LevelBelow(k, dag[d].depth)
                              /\ dag[k].files \subseteq dag[d].files
Linked == \A d \in DOMAIN dag : /\ dag[d].depth = 0 => LeafLinked(d)
                                /\ dag[d].depth > 0 => CondensedLinked(d)

StoreInv == /\ StoreTypes /\ SoundStore /\ OwnSummaries /\ FilesKept
            /\ PushOK /\ TodoOK /\ Linked

-----------------------------------------------------------------------------
(* A conversation is pushed to *)

LEMMA EntryFacts ==
  /\ \A e \in Entries : e.type \in {"message", "summary"} /\ e.id \in Nat
  /\ \A n \in Nat : [type |-> "message", id |-> n] \in Entries
  /\ \A n \in Nat : [type |-> "summary", id |-> n] \in Entries
BY DEF Entries

LEMMA ContextFacts ==
  ASSUME NEW c \in Conversations
  PROVE  /\ DOMAIN c.context \subseteq Nat
         /\ \A o \in DOMAIN c.context : c.context[o] \in Entries
         /\ c.messages \in Seq(StoredMessage) /\ c.base \in Nat /\ c.context \in Contexts
         /\ DOMAIN c.messages = 1..Len(c.messages) /\ Len(c.messages) \in Nat
         /\ \A i \in DOMAIN c.messages : c.messages[i] \in StoredMessage
         /\ c = [messages |-> c.messages, context |-> c.context, base |-> c.base]
<1>1. /\ c.context \in Contexts /\ c.messages \in Seq(StoredMessage) /\ c.base \in Nat
      /\ c = [messages |-> c.messages, context |-> c.context, base |-> c.base]
  BY DEF Conversations
<1>2. PICK S \in SUBSET Nat : c.context \in [S -> Entries]
  BY <1>1 DEF Contexts
<1>3. DOMAIN c.context = S /\ \A o \in S : c.context[o] \in Entries
  BY <1>2
<1>4. /\ DOMAIN c.messages = 1..Len(c.messages) /\ Len(c.messages) \in Nat
      /\ \A i \in DOMAIN c.messages : c.messages[i] \in StoredMessage
  BY <1>1
<1> QED BY <1>1, <1>3, <1>4

LEMMA ConversationMade ==
  ASSUME NEW ms \in Seq(StoredMessage), NEW x \in Contexts, NEW b \in Nat
  PROVE  [messages |-> ms, context |-> x, base |-> b] \in Conversations
BY DEF Conversations

LEMMA FreeOrdinalFacts ==
  ASSUME NEW c \in Conversations, \A o \in DOMAIN c.context : o < Len(c.messages)
  PROVE  /\ FreeOrdinal(c) \in Nat /\ FreeOrdinal(c) <= Len(c.messages)
         /\ FreeOrdinal(c) \notin DOMAIN c.context
<1>1. DOMAIN c.context \subseteq 0..Len(c.messages) /\ Len(c.messages) \in Nat
  <2>1. DOMAIN c.context \subseteq Nat /\ Len(c.messages) \in Nat
    BY ContextFacts
  <2> QED BY <2>1
<1>2. CASE DOMAIN c.context = {}
  BY <1>1, <1>2 DEF FreeOrdinal
<1>3. CASE DOMAIN c.context # {}
  <2> DEFINE m == Max(DOMAIN c.context)
  <2>1. m \in DOMAIN c.context /\ \A k \in DOMAIN c.context : k <= m
    BY <1>1, <1>3, MaxFact
  <2>2. FreeOrdinal(c) = m + 1
    BY <1>3 DEF FreeOrdinal
  <2>3. m \in Nat /\ m < Len(c.messages)
    BY <2>1, <1>1
  <2> HIDE DEF m
  <2>4. m + 1 \notin DOMAIN c.context
    BY <2>1, <2>3
  <2> QED BY <1>1, <2>2, <2>3, <2>4
<1> QED BY <1>2, <1>3

(* What Pushed(c, m) is. *)
LEMMA PushedFacts ==
  ASSUME NEW c \in Conversations, Sound(c), NEW m \in StoredMessage
  PROVE  /\ Pushed(c, m) \in Conversations
         /\ Pushed(c, m).base = c.base
         /\ Len(Pushed(c, m).messages) = Len(c.messages) + 1
         /\ \A i \in DOMAIN c.messages : Pushed(c, m).messages[i] = c.messages[i]
         /\ Pushed(c, m).messages[Len(c.messages) + 1] = m
         /\ DOMAIN Pushed(c, m).context = DOMAIN c.context \cup {FreeOrdinal(c)}
         /\ \A o \in DOMAIN c.context : Pushed(c, m).context[o] = c.context[o]
         /\ Pushed(c, m).context[FreeOrdinal(c)] = [type |-> "message", id |-> Len(c.messages) + 1]
<1> DEFINE f == FreeOrdinal(c)
           n == Len(c.messages)
           x == Pushed(c, m).context
<1>1. f \in Nat /\ f \notin DOMAIN c.context
  BY FreeOrdinalFacts DEF Sound
<1>2. /\ Pushed(c, m).messages = Append(c.messages, m)
      /\ Pushed(c, m).base = c.base
      /\ x = [o \in DOMAIN c.context \cup {f} |->
                 IF o = f THEN [type |-> "message", id |-> n + 1] ELSE c.context[o]]
      /\ Pushed(c, m) = [messages |-> Pushed(c, m).messages, context |-> x,
                         base |-> Pushed(c, m).base]
  BY DEF Pushed, Entry
<1>3. /\ c.messages \in Seq(StoredMessage) /\ n \in Nat /\ c.base \in Nat
      /\ DOMAIN c.context \subseteq Nat /\ DOMAIN c.messages = 1..n
      /\ \A o \in DOMAIN c.context : c.context[o] \in Entries
  BY ContextFacts DEF n
<1> HIDE DEF f, n, x
<1>4. Append(c.messages, m) \in Seq(StoredMessage) /\ Len(Append(c.messages, m)) = n + 1
  BY <1>3 DEF n
<1>5. /\ \A i \in DOMAIN c.messages : Append(c.messages, m)[i] = c.messages[i]
      /\ Append(c.messages, m)[n + 1] = m
  BY <1>3 DEF n
<1>6. /\ DOMAIN x = DOMAIN c.context \cup {f}
      /\ \A o \in DOMAIN c.context : x[o] = c.context[o]
      /\ x[f] = [type |-> "message", id |-> n + 1]
  BY <1>1, <1>2
<1>7. x \in Contexts
  <2>1. DOMAIN c.context \cup {f} \in SUBSET Nat
    BY <1>1, <1>3
  <2>2. \A o \in DOMAIN c.context \cup {f} : x[o] \in Entries
    <3>1. x[f] \in Entries
      BY <1>3, <1>6, EntryFacts
    <3> QED BY <1>3, <1>6, <3>1
  <2>3. x \in [DOMAIN c.context \cup {f} -> Entries]
    BY <1>2, <2>2
  <2> QED BY <2>1, <2>3 DEF Contexts
<1>8. Pushed(c, m) \in Conversations
  <2>1. [messages |-> Append(c.messages, m), context |-> x, base |-> c.base] \in Conversations
    BY <1>3, <1>4, <1>7, ConversationMade
  <2> QED BY <1>2, <2>1
<1> QED BY <1>2, <1>4, <1>5, <1>6, <1>8 DEF f, n, x

(* A push keeps the conversation sound; the summaries stay where they are. *)
LEMMA PushedSound ==
  ASSUME NEW c \in Conversations, Sound(c), NEW m \in StoredMessage,
         c.messages = <<>> => m.role = "user"
  PROVE  /\ Sound(Pushed(c, m))
         /\ SummaryItems(Pushed(c, m)) = SummaryItems(c)
         /\ \A o \in SummaryItems(c) : Pushed(c, m).context[o] = c.context[o]
<1> DEFINE d == Pushed(c, m)
           n == Len(c.messages)
           f == FreeOrdinal(c)
<1>1. /\ d \in Conversations /\ d.base = c.base /\ Len(d.messages) = n + 1
      /\ \A i \in DOMAIN c.messages : d.messages[i] = c.messages[i]
      /\ d.messages[n + 1] = m
      /\ DOMAIN d.context = DOMAIN c.context \cup {f}
      /\ \A o \in DOMAIN c.context : d.context[o] = c.context[o]
      /\ d.context[f] = [type |-> "message", id |-> n + 1]
  BY PushedFacts
<1>2. /\ f \in Nat /\ f <= n /\ f \notin DOMAIN c.context
  BY FreeOrdinalFacts DEF Sound
<1>3. /\ n \in Nat /\ DOMAIN c.messages = 1..n /\ DOMAIN c.context \subseteq Nat
      /\ c.messages \in Seq(StoredMessage) /\ c.base \in Nat
  BY ContextFacts
<1>4. DOMAIN d.messages = 1..(n + 1)
  BY <1>1, ContextFacts
<1>5. /\ \A o \in DOMAIN c.context : o < n
      /\ \A o \in RawItems(c) : c.context[o].id \in DOMAIN c.messages
      /\ c.messages # <<>> => c.messages[1].role = "user"
      /\ c.base <= n
      /\ SummaryItems(c) = {} => \A i \in DOMAIN c.messages : i > c.base => i \in RawIds(c)
  BY DEF Sound
<1>6. n = 0 <=> c.messages = <<>>
  BY <1>3
<1> HIDE DEF d, n, f
<1>7. /\ SummaryItems(d) = SummaryItems(c)
      /\ RawItems(d) = RawItems(c) \cup {f}
      /\ f \notin RawItems(c)
  BY <1>1, <1>2 DEF SummaryItems, RawItems
<1>8. \A o \in DOMAIN d.context : o < n + 1
  BY <1>1, <1>2, <1>3, <1>5
<1>9. \A o \in RawItems(d) : d.context[o].id \in DOMAIN d.messages
  <2>1. d.context[f].id = n + 1
    BY <1>1
  <2>2. \A o \in RawItems(c) : d.context[o].id \in 1..n
    BY <1>1, <1>3, <1>5 DEF RawItems
  <2> QED BY <1>3, <1>4, <1>7, <2>1, <2>2
<1>10. d.messages[1].role = "user"
  <2>1. CASE n = 0
    BY <1>1, <1>6, <2>1
  <2>2. CASE n # 0
    BY <1>1, <1>3, <1>5, <1>6, <2>2
  <2> QED BY <2>1, <2>2
<1>11. RawIds(d) = RawIds(c) \cup {n + 1}
  <2>1. d.context[f].id = n + 1
    BY <1>1
  <2>2. \A o \in RawItems(c) : d.context[o].id = c.context[o].id
    BY <1>1 DEF RawItems
  <2> QED BY <1>7, <2>1, <2>2 DEF RawIds
<1>12. ASSUME SummaryItems(d) = {}, NEW i \in DOMAIN d.messages, i > d.base PROVE i \in RawIds(d)
  <2>1. CASE i = n + 1
    BY <1>11, <2>1
  <2>2. CASE i # n + 1
    BY <1>1, <1>3, <1>4, <1>5, <1>7, <1>11, <1>12, <2>2
  <2> QED BY <2>1, <2>2
<1>13. Sound(d)
  <2>1. d.base <= Len(d.messages)
    BY <1>1, <1>3, <1>5
  <2> QED BY <1>1, <2>1, <1>8, <1>9, <1>10, <1>12 DEF Sound
<1> QED BY <1>1, <1>7, <1>13 DEF SummaryItems, d

-----------------------------------------------------------------------------
(* A range of a conversation is summarized, or all of it is cleared *)

LEMMA ReplacedSound ==
  ASSUME NEW c \in Conversations, Sound(c), NEW t \in Chunks,
         t.first < Len(c.messages), NEW k \in Nat,
         NEW d, d = [messages |-> c.messages, context |-> Replaced(c.context, t, k),
                     base |-> c.base]
  PROVE  /\ d \in Conversations /\ Sound(d)
         /\ d.messages = c.messages
         /\ \A o \in SummaryItems(d) :
               \/ d.context[o].id = k
               \/ o \in SummaryItems(c) /\ d.context[o] = c.context[o]
<1> DEFINE x == Replaced(c.context, t, k)
           keep == {p \in DOMAIN c.context : p < t.first \/ p > t.last}
           a == t.first
<1>1. /\ DOMAIN c.context \subseteq Nat
      /\ \A o \in DOMAIN c.context : c.context[o] \in Entries
      /\ c.messages \in Seq(StoredMessage) /\ c.base \in Nat /\ Len(c.messages) \in Nat
      /\ c = [messages |-> c.messages, context |-> c.context, base |-> c.base]
  BY ContextFacts
<1>2. d = [messages |-> c.messages, context |-> x, base |-> c.base]
  OBVIOUS
<1>3. x = [o \in keep \cup {a} |-> IF o = a THEN [type |-> "summary", id |-> k] ELSE c.context[o]]
  BY DEF Replaced, Entry
<1>4. a \in Nat /\ a < Len(c.messages) /\ keep \subseteq DOMAIN c.context
  BY DEF Chunks
<1> HIDE DEF x, keep, a
<1>5. /\ DOMAIN x = keep \cup {a}
      /\ x[a] = [type |-> "summary", id |-> k]
      /\ \A o \in keep : o # a => x[o] = c.context[o]
  BY <1>3
<1>6. x \in Contexts
  <2>1. keep \cup {a} \in SUBSET Nat
    BY <1>1, <1>4
  <2>2. \A o \in keep \cup {a} : x[o] \in Entries
    BY <1>1, <1>4, <1>5, EntryFacts
  <2>3. x \in [keep \cup {a} -> Entries]
    BY <1>3, <2>2
  <2> QED BY <2>1, <2>3 DEF Contexts
<1>7. d \in Conversations
  BY <1>1, <1>2, <1>6, ConversationMade
<1>8. d.messages = c.messages /\ d.context = x /\ d.base = c.base
  BY <1>2
<1>9. a \in SummaryItems(d)
  BY <1>5, <1>8 DEF SummaryItems
<1>10. \A o \in SummaryItems(d) : \/ d.context[o].id = k
                                  \/ o \in SummaryItems(c) /\ d.context[o] = c.context[o]
  BY <1>4, <1>5, <1>8 DEF SummaryItems
<1>11. \A o \in RawItems(d) : o \in RawItems(c) /\ d.context[o] = c.context[o]
  BY <1>4, <1>5, <1>8 DEF RawItems
<1>12. /\ \A o \in DOMAIN c.context : o < Len(c.messages)
       /\ \A o \in RawItems(c) : c.context[o].id \in DOMAIN c.messages
       /\ c.messages # <<>> => c.messages[1].role = "user"
       /\ c.base <= Len(c.messages)
  BY DEF Sound
<1>13. \A o \in DOMAIN d.context : o < Len(d.messages)
  BY <1>4, <1>5, <1>8, <1>12
<1>14. \A o \in RawItems(d) : d.context[o].id \in DOMAIN d.messages
  BY <1>8, <1>11, <1>12
<1>15. Sound(d)
  BY <1>8, <1>9, <1>12, <1>13, <1>14 DEF Sound
<1> QED BY <1>7, <1>8, <1>10, <1>15

LEMMA ClearedSound ==
  ASSUME NEW c \in Conversations, Sound(c), NEW d,
         d = [c EXCEPT !.context = NoEntries, !.base = Len(c.messages)]
  PROVE  d \in Conversations /\ Sound(d) /\ d.messages = c.messages /\ SummaryItems(d) = {}
<1>1. /\ c.messages \in Seq(StoredMessage) /\ Len(c.messages) \in Nat
      /\ DOMAIN c.messages = 1..Len(c.messages)
      /\ c = [messages |-> c.messages, context |-> c.context, base |-> c.base]
  BY ContextFacts
<1>2. DOMAIN NoEntries = {} /\ NoEntries \in Contexts
  <2>1. NoEntries \in [{} -> Entries] /\ DOMAIN NoEntries = {}
    BY DEF NoEntries
  <2>2. {} \in SUBSET Nat
    OBVIOUS
  <2> QED BY <2>1, <2>2 DEF Contexts
<1>3. d = [messages |-> c.messages, context |-> NoEntries, base |-> Len(c.messages)]
  BY <1>1
<1>4. d \in Conversations
  <2>1. [messages |-> c.messages, context |-> NoEntries, base |-> Len(c.messages)] \in Conversations
    BY <1>1, <1>2, ConversationMade
  <2> QED BY <1>3, <2>1
<1>5. d.messages = c.messages /\ d.context = NoEntries /\ d.base = Len(c.messages)
  BY <1>3
<1>6. RawItems(d) = {} /\ SummaryItems(d) = {}
  BY <1>2, <1>5 DEF RawItems, SummaryItems
<1>7. c.messages # <<>> => c.messages[1].role = "user"
  BY DEF Sound
<1>8. \A i \in DOMAIN d.messages : ~(i > d.base)
  BY <1>1, <1>5
<1>9. Sound(d)
  BY <1>1, <1>2, <1>5, <1>6, <1>7, <1>8 DEF Sound
<1> QED BY <1>4, <1>5, <1>6, <1>9

-----------------------------------------------------------------------------
(* One conversation changes, or none *)

(* The messages that there were stay what they were. *)
Grows == \A s \in Sessions :
    /\ DOMAIN conv[s].messages \subseteq DOMAIN conv'[s].messages
    /\ Len(conv[s].messages) <= Len(conv'[s].messages)
    /\ \A i \in DOMAIN conv[s].messages : conv'[s].messages[i] = conv[s].messages[i]

LEMMA OneChanges ==
  ASSUME StoreTypes, NEW s \in Sessions, NEW d \in Conversations,
         conv' = [conv EXCEPT ![s] = d]
  PROVE  /\ conv' \in [Sessions -> Conversations]
         /\ conv'[s] = d
         /\ \A r \in Sessions : r # s => conv'[r] = conv[r]
BY DEF StoreTypes

(* A message is appended. *)
LEMMA PushedStep ==
  ASSUME StoreInv, NEW s \in Sessions, NEW m \in StoredMessage,
         conv[s].messages = <<>> => m.role = "user",
         conv' = [conv EXCEPT ![s] = Pushed(@, m)], dag' = dag
  PROVE  /\ conv' \in [Sessions -> Conversations] /\ SoundStore' /\ OwnSummaries' /\ Grows
         /\ \A r \in Sessions : \A i \in DOMAIN conv'[r].messages :
               \/ i \in DOMAIN conv[r].messages /\ conv'[r].messages[i] = conv[r].messages[i]
               \/ conv'[r].messages[i] = m
<1> DEFINE c == conv[s]
           d == Pushed(c, m)
<1>1. StoreTypes /\ SoundStore /\ OwnSummaries
  BY DEF StoreInv
<1>2. \A r \in Sessions : conv[r] \in Conversations /\ Sound(conv[r])
  BY <1>1 DEF StoreTypes, SoundStore
<1>3. /\ d \in Conversations
      /\ Len(d.messages) = Len(c.messages) + 1
      /\ \A i \in DOMAIN c.messages : d.messages[i] = c.messages[i]
      /\ d.messages[Len(c.messages) + 1] = m
  BY <1>2, PushedFacts
<1>4. /\ Sound(d) /\ SummaryItems(d) = SummaryItems(c)
      /\ \A o \in SummaryItems(c) : d.context[o] = c.context[o]
  BY <1>2, PushedSound
<1>5. conv' = [conv EXCEPT ![s] = d]
  OBVIOUS
<1> HIDE DEF c, d
<1>6. /\ conv' \in [Sessions -> Conversations] /\ conv'[s] = d
      /\ \A r \in Sessions : r # s => conv'[r] = conv[r]
  BY <1>1, <1>3, <1>5, OneChanges
<1>7. SoundStore'
  BY <1>2, <1>4, <1>6 DEF SoundStore
<1>8. OwnSummaries'
  <2>1. ASSUME NEW r \in Sessions, NEW o \in SummaryItems(conv'[r])
        PROVE  conv'[r].context[o].id \in DOMAIN dag' /\ dag'[conv'[r].context[o].id].session = r
    <3>1. o \in SummaryItems(conv[r]) /\ conv'[r].context[o] = conv[r].context[o]
      BY <1>4, <1>6 DEF c
    <3>2. Owned(conv[r].context[o].id, r)
      BY <1>1, <3>1 DEF OwnSummaries
    <3> QED BY <3>1, <3>2 DEF Owned
  <2> QED BY <2>1 DEF OwnSummaries, Owned
<1>9. ASSUME NEW r \in Sessions
      PROVE  /\ DOMAIN conv[r].messages = 1..Len(conv[r].messages)
             /\ DOMAIN conv'[r].messages = 1..Len(conv'[r].messages)
             /\ Len(conv[r].messages) \in Nat /\ Len(conv'[r].messages) \in Nat
  BY <1>2, <1>6, ContextFacts
<1>10. Grows
  <2>1. ASSUME NEW r \in Sessions
        PROVE  /\ DOMAIN conv[r].messages \subseteq DOMAIN conv'[r].messages
               /\ Len(conv[r].messages) <= Len(conv'[r].messages)
               /\ \A i \in DOMAIN conv[r].messages : conv'[r].messages[i] = conv[r].messages[i]
    <3>1. CASE r = s
      <4>1. /\ Len(conv'[r].messages) = Len(conv[r].messages) + 1
            /\ \A i \in DOMAIN conv[r].messages : conv'[r].messages[i] = conv[r].messages[i]
        BY <1>3, <1>6, <3>1 DEF c
      <4> QED BY <1>9, <4>1
    <3>2. CASE r # s
      BY <1>6, <1>9, <3>2
    <3> QED BY <3>1, <3>2
  <2> QED BY <2>1 DEF Grows
<1>11. ASSUME NEW r \in Sessions, NEW i \in DOMAIN conv'[r].messages
       PROVE  \/ i \in DOMAIN conv[r].messages /\ conv'[r].messages[i] = conv[r].messages[i]
              \/ conv'[r].messages[i] = m
  <2>1. CASE r = s
    <3>1. /\ conv'[r] = d /\ conv[r] = c /\ DOMAIN c.messages = 1..Len(c.messages)
          /\ i \in 1..(Len(c.messages) + 1) /\ Len(c.messages) \in Nat
      BY <1>3, <1>6, <1>9, <2>1 DEF c
    <3> QED BY <1>3, <3>1
  <2>2. CASE r # s
    BY <1>6, <2>2
  <2> QED BY <2>1, <2>2
<1> QED BY <1>6, <1>7, <1>8, <1>10, <1>11

LEMMA SummariesTyped ==
  ASSUME StoreTypes
  PROVE  /\ DOMAIN dag = 1..Len(dag) /\ Len(dag) \in Nat
         /\ \A d \in DOMAIN dag : /\ dag[d] \in StoredSummaries
                                  /\ dag[d].session \in Sessions /\ dag[d].depth \in Nat
                                  /\ dag[d].sources \in SUBSET Nat
                                  /\ dag[d].files \in SUBSET Payloads
<1>1. /\ DOMAIN dag = 1..Len(dag) /\ Len(dag) \in Nat
      /\ \A d \in DOMAIN dag : dag[d] \in StoredSummaries
  BY DEF StoreTypes
<1> QED BY <1>1 DEF StoredSummaries

LEMMA GrowsKeepsLinks ==
  ASSUME StoreTypes, Linked, Grows, dag' = dag
  PROVE  Linked'
<1>1. \A d \in DOMAIN dag : dag[d].session \in Sessions
  BY SummariesTyped
<1>2. ASSUME NEW d \in DOMAIN dag, LeafLinked(d) PROVE LeafLinked(d)'
  BY <1>1, <1>2 DEF LeafLinked, Grows
<1>3. ASSUME NEW d \in DOMAIN dag, CondensedLinked(d) PROVE CondensedLinked(d)'
  BY <1>3 DEF CondensedLinked, Owned, LevelBelow
<1> QED BY <1>2, <1>3 DEF Linked

LEMMA SameGrows ==
  ASSUME StoreTypes, UNCHANGED conv
  PROVE  Grows
<1>1. \A s \in Sessions : Len(conv[s].messages) \in Nat
  BY ContextFacts DEF StoreTypes
<1> QED BY <1>1 DEF Grows

(* Neither the conversations nor the summaries change. *)
LEMMA TablesStay ==
  ASSUME StoreInv, UNCHANGED <<conv, dag>>
  PROVE  /\ conv' \in [Sessions -> Conversations] /\ dag' \in Seq(StoredSummaries)
         /\ SoundStore' /\ OwnSummaries' /\ Linked'
<1>1. StoreTypes /\ SoundStore /\ OwnSummaries /\ Linked
  BY DEF StoreInv
<1>2. conv' \in [Sessions -> Conversations] /\ dag' \in Seq(StoredSummaries)
  BY <1>1 DEF StoreTypes
<1>3. SoundStore' /\ OwnSummaries'
  BY <1>1 DEF SoundStore, OwnSummaries, Owned
<1>4. Linked'
  BY <1>1, SameGrows, GrowsKeepsLinks
<1> QED BY <1>2, <1>3, <1>4

-----------------------------------------------------------------------------
(* A summary takes the place of a chunk *)

LEMMA WriteSummaryStep ==
  ASSUME StoreInv, NEW t \in Chunks, NEW F \in SUBSET Payloads,
         t.first < Len(Here.messages),
         t.depth = 0 =>
             /\ t.sources \subseteq DOMAIN Here.messages
             /\ \A i \in t.sources : Here.messages[i].file # Nothing => Here.messages[i].file \in F,
         t.depth > 0 =>
             \A k \in t.sources : /\ Owned(k, engine.active) /\ LevelBelow(k, t.depth)
                                  /\ dag[k].files \subseteq F,
         WriteSummary(t, F)
  PROVE  /\ conv' \in [Sessions -> Conversations] /\ dag' \in Seq(StoredSummaries)
         /\ SoundStore' /\ OwnSummaries' /\ Linked'
         /\ \A r \in Sessions : conv'[r].messages = conv[r].messages
         /\ \A k \in DOMAIN dag : k \in DOMAIN dag' /\ dag'[k] = dag[k]
<1>0. PICK k \in Nat : k = Len(dag) + 1
  BY SummariesTyped DEF StoreInv
<1> DEFINE a == engine.active
           c == conv[a]
           d == [c EXCEPT !.context = Replaced(@, t, k)]
           node == [session |-> a, depth |-> t.depth, sources |-> t.sources, files |-> F]
<1>1. StoreTypes /\ SoundStore /\ OwnSummaries /\ Linked
  BY DEF StoreInv
<1>2. a \in Sessions /\ c \in Conversations /\ Sound(c) /\ Here = c
  BY <1>1 DEF StoreTypes, Engines, SoundStore, Here
<1>3. /\ DOMAIN dag = 1..Len(dag) /\ Len(dag) \in Nat
      /\ \A e \in DOMAIN dag : dag[e].session \in Sessions
  BY <1>1, SummariesTyped
<1>4. dag' = Append(dag, node) /\ conv' = [conv EXCEPT ![a] = d]
  BY <1>0 DEF WriteSummary
<1>5. node \in StoredSummaries /\ node.session = a /\ node.depth = t.depth
      /\ node.sources = t.sources /\ node.files = F
  BY <1>2 DEF StoredSummaries, Chunks
<1>6. d = [messages |-> c.messages, context |-> Replaced(c.context, t, k), base |-> c.base]
  <2>1. c = [messages |-> c.messages, context |-> c.context, base |-> c.base]
    BY <1>2, ContextFacts
  <2> QED BY <2>1
<1> HIDE DEF d, node
<1>7. /\ d \in Conversations /\ Sound(d) /\ d.messages = c.messages
      /\ \A o \in SummaryItems(d) : \/ d.context[o].id = k
                                    \/ o \in SummaryItems(c) /\ d.context[o] = c.context[o]
  <2>1. t.first < Len(c.messages)
    BY <1>2
  <2> HIDE DEF c
  <2> QED BY <1>2, <1>6, <2>1, ReplacedSound
<1>8. /\ conv' \in [Sessions -> Conversations] /\ conv'[a] = d
      /\ \A r \in Sessions : r # a => conv'[r] = conv[r]
  <2> HIDE DEF a, c
  <2> QED BY <1>1, <1>2, <1>4, <1>7, OneChanges
<1>9. /\ dag' \in Seq(StoredSummaries)
      /\ DOMAIN dag' = 1..k /\ dag'[k] = node
      /\ \A e \in DOMAIN dag : e \in DOMAIN dag' /\ dag'[e] = dag[e]
  <2>1. dag \in Seq(StoredSummaries)
    BY <1>1 DEF StoreTypes
  <2> QED BY <1>0, <1>3, <1>4, <1>5, <2>1
<1>10. \A r \in Sessions : conv'[r].messages = conv[r].messages
  BY <1>7, <1>8
<1>11. SoundStore'
  BY <1>1, <1>7, <1>8 DEF SoundStore
<1>12. OwnSummaries'
  <2>1. ASSUME NEW r \in Sessions, NEW o \in SummaryItems(conv'[r])
        PROVE  conv'[r].context[o].id \in DOMAIN dag' /\ dag'[conv'[r].context[o].id].session = r
    <3>1. CASE r = a /\ d.context[o].id = k
      BY <1>0, <1>3, <1>5, <1>8, <1>9, <3>1
    <3>2. CASE o \in SummaryItems(conv[r]) /\ conv'[r].context[o] = conv[r].context[o]
      BY <1>1, <1>9, <3>2 DEF OwnSummaries, Owned
    <3> QED BY <1>7, <1>8, <2>1, <3>1, <3>2
  <2> QED BY <2>1 DEF OwnSummaries, Owned
<1>13. ASSUME NEW e \in DOMAIN dag
       PROVE  /\ dag'[e].depth = 0 => LeafLinked(e)'
              /\ dag'[e].depth > 0 => CondensedLinked(e)'
  <2>1. dag'[e] = dag[e] /\ dag[e].session \in Sessions
    BY <1>3, <1>9
  <2>2. conv'[dag[e].session].messages = conv[dag[e].session].messages
    BY <1>10, <2>1
  <2>3. LeafLinked(e) => LeafLinked(e)'
    BY <2>1, <2>2 DEF LeafLinked
  <2>4. CondensedLinked(e) => CondensedLinked(e)'
    BY <1>9, <2>1 DEF CondensedLinked, Owned, LevelBelow
  <2> QED BY <1>1, <2>1, <2>3, <2>4 DEF Linked
<1>14. /\ dag'[k].depth = 0 => LeafLinked(k)'
       /\ dag'[k].depth > 0 => CondensedLinked(k)'
  <2>1. ASSUME dag'[k].depth = 0 PROVE LeafLinked(k)'
    <3>1. t.depth = 0 /\ dag'[k] = node /\ conv'[a].messages = Here.messages
      BY <1>2, <1>5, <1>9, <1>10, <2>1
    <3>2. /\ t.sources \subseteq DOMAIN Here.messages
          /\ \A i \in t.sources : Here.messages[i].file # Nothing => Here.messages[i].file \in F
      BY <3>1
    <3> QED BY <1>5, <3>1, <3>2 DEF LeafLinked
  <2>2. ASSUME dag'[k].depth > 0 PROVE CondensedLinked(k)'
    <3>1. t.depth > 0 /\ dag'[k] = node
      BY <1>5, <1>9, <2>2
    <3>2. \A e \in t.sources : /\ Owned(e, a) /\ LevelBelow(e, t.depth)
                               /\ dag[e].files \subseteq F
      BY <3>1
    <3> QED BY <1>5, <1>9, <3>1, <3>2 DEF CondensedLinked, Owned, LevelBelow
  <2> QED BY <2>1, <2>2
<1>15. Linked'
  <2>1. \A e \in DOMAIN dag' : e \in DOMAIN dag \/ e = k
    BY <1>0, <1>3, <1>9
  <2> QED BY <1>13, <1>14, <2>1 DEF Linked
<1> QED BY <1>8, <1>9, <1>10, <1>11, <1>12, <1>15

-----------------------------------------------------------------------------
(* The engine, the files, and what is pushed next *)

LEMMA EngineFacts ==
  ASSUME StoreTypes
  PROVE  /\ engine.active \in Sessions /\ engine.up \in BOOLEAN
         /\ engine.cycle \in {"idle", "leaf", "condense"}
         /\ engine.todo \subseteq Chunks
         /\ engine.push # Nothing => engine.push \in Pushing
         /\ Here \in Conversations
<1>1. engine \in Engines
  BY DEF StoreTypes
<1>2. engine.active \in Sessions
  BY <1>1 DEF Engines
<1> QED BY <1>1, <1>2 DEF Engines, StoreTypes, Here

(* Nothing is under way in an engine that just came up, or went down. *)
LEMMA UpFacts ==
  ASSUME NEW s \in Sessions, NEW b \in BOOLEAN
  PROVE  LET e == [Up(s) EXCEPT !.up = b]
         IN  e \in Engines /\ e.push = Nothing /\ e.todo = {} /\ e.active = s
BY DEF Up, Engines

LEMMA UpTyped ==
  ASSUME NEW s \in Sessions
  PROVE  Up(s) \in Engines /\ Up(s).push = Nothing /\ Up(s).todo = {} /\ Up(s).active = s
BY DEF Up, Engines

LEMMA EngineChanges ==
  ASSUME StoreTypes
  PROVE  /\ \A p \in Pushing \cup {Nothing} :
               LET e == [engine EXCEPT !.push = p]
               IN  /\ e \in Engines /\ e.push = p
                   /\ e.active = engine.active /\ e.todo = engine.todo /\ e.cycle = engine.cycle
         /\ \A s \in Sessions :
               LET e == [engine EXCEPT !.active = s]
               IN  e \in Engines /\ e.active = s /\ e.push = engine.push /\ e.todo = engine.todo
         /\ LET e == [engine EXCEPT !.cycle = "leaf"]
            IN  e \in Engines /\ e.active = engine.active /\ e.push = engine.push
                /\ e.todo = engine.todo
         /\ \A T \in SUBSET Chunks, y \in {"idle", "condense"} :
               LET e == [engine EXCEPT !.cycle = y, !.todo = T]
               IN  /\ e \in Engines /\ e.active = engine.active /\ e.push = engine.push
                   /\ e.todo = T /\ e.cycle = y
         /\ \A T \in SUBSET Chunks :
               LET e == [engine EXCEPT !.todo = T]
               IN  /\ e \in Engines /\ e.active = engine.active /\ e.push = engine.push
                   /\ e.todo = T /\ e.cycle = engine.cycle
<1>1. engine \in Engines
  BY DEF StoreTypes
<1> QED BY <1>1 DEF Engines

LEMMA MessageFacts ==
  ASSUME NEW m \in StoredMessage
  PROVE  /\ m.role \in {"user", "write", "result"}
         /\ m.file # Nothing => m.file \in Payloads
BY DEF StoredMessage

(* A conversation without messages opens with a user's. *)
LEMMA NextMessageFacts ==
  ASSUME StoreInv, NEW m \in NextMessages
  PROVE  m \in StoredMessage /\ (Here.messages = <<>> => m.role = "user")
<1>1. Here \in Conversations /\ Sound(Here) /\ StoreTypes
  BY EngineFacts DEF StoreInv, SoundStore, Here
<1>2. m \in StoredMessage
  BY DEF NextMessages
<1>3. ASSUME Here.messages = <<>> PROVE m.role = "user"
  <2>1. Len(Here.messages) = 0 /\ Here.base = 0
    BY <1>1, <1>3, ContextFacts DEF Sound
  <2>2. m.role # "result" /\ m.role # "write"
    BY <2>1 DEF NextMessages
  <2> QED BY <1>2, <2>2, MessageFacts
<1> QED BY <1>2, <1>3

LEMMA FilesStayKept ==
  ASSUME StoreTypes, FilesKept,
         \A p \in Payloads : rows[p] \in Sessions /\ payload[p] # "absent"
                    => rows'[p] \in Sessions /\ payload'[p] # "absent",
         \A r \in Sessions : \A i \in DOMAIN conv'[r].messages :
            \/ i \in DOMAIN conv[r].messages /\ conv'[r].messages[i] = conv[r].messages[i]
            \/ LET p == conv'[r].messages[i].file IN
               p # Nothing => rows'[p] \in Sessions /\ payload'[p] # "absent"
  PROVE  FilesKept'
<1>1. ASSUME NEW r \in Sessions, NEW i \in DOMAIN conv'[r].messages
      PROVE  LET p == conv'[r].messages[i].file IN
             p # Nothing => rows'[p] \in Sessions /\ payload'[p] # "absent"
  <2>1. CASE i \in DOMAIN conv[r].messages /\ conv'[r].messages[i] = conv[r].messages[i]
    <3> DEFINE p == conv[r].messages[i].file
    <3>1. p # Nothing => rows[p] \in Sessions /\ payload[p] # "absent"
      BY <2>1 DEF FilesKept, Kept
    <3>2. p # Nothing => p \in Payloads
      <4>1. conv[r] \in Conversations
        BY DEF StoreTypes
      <4>2. conv[r].messages[i] \in StoredMessage
        BY <2>1, <4>1, ContextFacts
      <4> QED BY <4>2, MessageFacts
    <3> QED BY <2>1, <3>1, <3>2
  <2> QED BY <2>1
<1> QED BY <1>1 DEF FilesKept, Kept

(* Steps that touch neither messages nor files. *)
LEMMA FilesSame ==
  ASSUME FilesKept, UNCHANGED <<rows, payload>>,
         \A r \in Sessions : conv'[r].messages = conv[r].messages
  PROVE  FilesKept'
BY DEF FilesKept, Kept

-----------------------------------------------------------------------------
(* Each action keeps the invariant *)

LEMMA QuietFacts ==
  ASSUME StoreInv, Quiet
  PROVE  engine.push = Nothing /\ engine.todo = {}
BY DEF StoreInv, TodoOK, Quiet

LEMMA PushWholeStep ==
  ASSUME StoreInv, PushWhole
  PROVE  StoreInv'
<1>1. PICK m \in NextMessages :
         /\ m.file = Nothing
         /\ conv' = [conv EXCEPT ![engine.active] = Pushed(@, m)]
  BY DEF PushWhole
<1>2. UNCHANGED <<dag, rows, payload, engine, cursor, breaks>>
  BY DEF PushWhole
<1>3. StoreTypes /\ FilesKept /\ Linked
  BY DEF StoreInv
<1>4. engine.active \in Sessions /\ engine.push = Nothing /\ engine.todo = {}
  BY <1>3, EngineFacts, QuietFacts DEF PushWhole
<1>5. m \in StoredMessage /\ (conv[engine.active].messages = <<>> => m.role = "user")
  BY NextMessageFacts DEF Here
<1>6. /\ conv' \in [Sessions -> Conversations] /\ SoundStore' /\ OwnSummaries' /\ Grows
      /\ \A r \in Sessions : \A i \in DOMAIN conv'[r].messages :
            \/ i \in DOMAIN conv[r].messages /\ conv'[r].messages[i] = conv[r].messages[i]
            \/ conv'[r].messages[i] = m
  BY <1>1, <1>2, <1>4, <1>5, PushedStep
<1>7. StoreTypes'
  BY <1>2, <1>3, <1>6 DEF StoreTypes
<1>8. FilesKept'
  BY <1>1, <1>2, <1>3, <1>6, FilesStayKept
<1>9. Linked'
  BY <1>2, <1>3, <1>6, GrowsKeepsLinks
<1>10. PushOK' /\ TodoOK'
  BY <1>2, <1>4 DEF PushOK, TodoOK
<1> QED BY <1>6, <1>7, <1>8, <1>9, <1>10 DEF StoreInv

LEMMA InterceptStep ==
  ASSUME StoreInv, Intercept
  PROVE  StoreInv'
<1>1. PICK m \in NextMessages :
         /\ m.file # Nothing
         /\ engine' = [engine EXCEPT !.push = [message |-> m, written |-> FALSE]]
         /\ payload' = [payload EXCEPT ![m.file] = "torn"]
  BY DEF Intercept
<1>2. UNCHANGED <<conv, dag, rows, cursor, breaks>>
  BY DEF Intercept
<1>3. StoreTypes /\ FilesKept /\ TodoOK
  BY DEF StoreInv
<1>4. m \in StoredMessage /\ (Here.messages = <<>> => m.role = "user") /\ m.file \in Payloads
  BY <1>1, NextMessageFacts, MessageFacts
<1> DEFINE q == [message |-> m, written |-> FALSE]
<1>5. q \in Pushing /\ q.message = m
  BY <1>4 DEF Pushing
<1>6. /\ engine' \in Engines /\ engine'.push = q /\ engine'.cycle = "idle"
      /\ engine'.active = engine.active /\ engine'.todo = engine.todo
  <2>1. engine.cycle = "idle"
    BY DEF Intercept, Quiet
  <2> HIDE DEF q
  <2> QED BY <1>1, <1>3, <1>5, <2>1, EngineChanges DEF q
<1>7. /\ conv' \in [Sessions -> Conversations] /\ dag' \in Seq(StoredSummaries)
      /\ SoundStore' /\ OwnSummaries' /\ Linked'
  BY <1>2, TablesStay
<1>8. payload \in [Payloads -> {"absent", "torn", "whole"}]
  BY <1>3 DEF StoreTypes
<1>9. /\ payload' \in [Payloads -> {"absent", "torn", "whole"}]
      /\ payload'[m.file] = "torn"
      /\ \A p \in Payloads : payload[p] # "absent" => payload'[p] # "absent"
  <2>1. payload' \in [Payloads -> {"absent", "torn", "whole"}] /\ payload'[m.file] = "torn"
    BY <1>1, <1>4, <1>8
  <2>2. \A p \in Payloads : payload[p] # "absent" => payload'[p] # "absent"
    BY <1>1, <1>4, <1>8
  <2> QED BY <2>1, <2>2
<1>10. StoreTypes'
  BY <1>2, <1>3, <1>6, <1>7, <1>9 DEF StoreTypes
<1>11. FilesKept'
  BY <1>2, <1>3, <1>9, FilesStayKept
<1>12. PushOK'
  <2>1. Here' = Here
    BY <1>2, <1>6 DEF Here
  <2> QED BY <1>4, <1>5, <1>6, <1>9, <2>1 DEF PushOK
<1>13. TodoOK'
  BY <1>6, QuietFacts DEF TodoOK, Intercept
<1> QED BY <1>7, <1>10, <1>11, <1>12, <1>13 DEF StoreInv

LEMMA WritePayloadStep ==
  ASSUME StoreInv, WritePayload
  PROVE  StoreInv'
<1>1. /\ engine.push # Nothing
      /\ engine' = [engine EXCEPT !.push.written = TRUE]
      /\ payload' = [payload EXCEPT ![engine.push.message.file] = "whole"]
      /\ UNCHANGED <<conv, dag, rows, cursor, breaks>>
  BY DEF WritePayload
<1>2. StoreTypes /\ FilesKept /\ PushOK /\ TodoOK
  BY DEF StoreInv
<1> DEFINE m == engine.push.message
           q == [engine.push EXCEPT !.written = TRUE]
<1>3. q \in Pushing /\ q.message = m
  <2>1. engine.push \in Pushing
    BY <1>1, <1>2, EngineFacts
  <2> QED BY <2>1 DEF Pushing
<1>4. /\ engine' \in Engines /\ engine'.push = q /\ engine'.cycle = engine.cycle
      /\ engine'.active = engine.active /\ engine'.todo = engine.todo
  <2>1. engine' = [engine EXCEPT !.push = q]
    BY <1>1, <1>2 DEF StoreTypes, Engines
  <2> HIDE DEF q
  <2> QED BY <1>2, <1>3, <2>1, EngineChanges
<1>5. /\ conv' \in [Sessions -> Conversations] /\ dag' \in Seq(StoredSummaries)
      /\ SoundStore' /\ OwnSummaries' /\ Linked'
  BY <1>1, TablesStay
<1>6. /\ m \in StoredMessage /\ m.file \in Payloads /\ engine.cycle = "idle"
      /\ Here.messages = <<>> => m.role = "user"
  <2>1. engine.push \in Pushing
    BY <1>1, <1>2, EngineFacts
  <2> QED BY <1>1, <1>2, <2>1 DEF PushOK, Pushing
<1>7. payload \in [Payloads -> {"absent", "torn", "whole"}]
  BY <1>2 DEF StoreTypes
<1> HIDE DEF m, q
<1>8. payload' = [payload EXCEPT ![m.file] = "whole"]
  BY <1>1 DEF m
<1>9. /\ payload' \in [Payloads -> {"absent", "torn", "whole"}]
      /\ payload'[m.file] = "whole"
      /\ \A p \in Payloads : payload[p] # "absent" => payload'[p] # "absent"
  <2>1. payload' \in [Payloads -> {"absent", "torn", "whole"}] /\ payload'[m.file] = "whole"
    BY <1>6, <1>7, <1>8
  <2>2. \A p \in Payloads : payload[p] # "absent" => payload'[p] # "absent"
    BY <1>6, <1>7, <1>8
  <2> QED BY <2>1, <2>2
<1>10. StoreTypes'
  BY <1>1, <1>2, <1>4, <1>5, <1>9 DEF StoreTypes
<1>11. FilesKept'
  BY <1>1, <1>2, <1>9, FilesStayKept
<1>12. Here' = Here
  BY <1>1, <1>4 DEF Here
<1>13. PushOK'
  BY <1>3, <1>4, <1>6, <1>9, <1>12 DEF PushOK
<1>14. TodoOK'
  BY <1>1, <1>2, <1>4, <1>12 DEF TodoOK, ChunkOK, Owned, LevelBelow
<1> QED BY <1>5, <1>10, <1>11, <1>13, <1>14 DEF StoreInv

LEMMA PushReferenceStep ==
  ASSUME StoreInv, PushReference
  PROVE  StoreInv'
<1> DEFINE m == engine.push.message
           a == engine.active
<1>1. /\ engine.push # Nothing
      /\ conv' = [conv EXCEPT ![a] = Pushed(@, m)]
      /\ rows' = [rows EXCEPT ![m.file] = FirstRow(m.file)]
      /\ engine' = [engine EXCEPT !.push = Nothing]
      /\ UNCHANGED <<dag, payload, cursor, breaks>>
  BY DEF PushReference
<1>2. StoreTypes /\ FilesKept /\ PushOK /\ TodoOK /\ Linked
  BY DEF StoreInv
<1>3. a \in Sessions /\ engine.push \in Pushing
  BY <1>1, <1>2, EngineFacts
<1>4. /\ m \in StoredMessage /\ m.file \in Payloads /\ payload[m.file] # "absent"
      /\ conv[a].messages = <<>> => m.role = "user"
  BY <1>1, <1>2, <1>3 DEF PushOK, Pushing, Here
<1>5. /\ engine' \in Engines /\ engine'.push = Nothing /\ engine'.cycle = engine.cycle
      /\ engine'.active = a /\ engine'.todo = engine.todo
  BY <1>1, <1>2, EngineChanges
<1> HIDE DEF m, a
<1>6. /\ conv' \in [Sessions -> Conversations] /\ SoundStore' /\ OwnSummaries' /\ Grows
      /\ \A r \in Sessions : \A i \in DOMAIN conv'[r].messages :
            \/ i \in DOMAIN conv[r].messages /\ conv'[r].messages[i] = conv[r].messages[i]
            \/ conv'[r].messages[i] = m
  BY <1>1, <1>3, <1>4, PushedStep
<1>7. rows \in [Payloads -> Sessions \cup {Nothing}]
  BY <1>2 DEF StoreTypes
<1>8. FirstRow(m.file) \in Sessions
  BY <1>3, <1>4, <1>7 DEF FirstRow, a
<1>9. /\ rows' \in [Payloads -> Sessions \cup {Nothing}]
      /\ rows'[m.file] \in Sessions
      /\ \A p \in Payloads : rows[p] \in Sessions => rows'[p] \in Sessions
  <2>1. rows' \in [Payloads -> Sessions \cup {Nothing}] /\ rows'[m.file] \in Sessions
    BY <1>1, <1>4, <1>7, <1>8
  <2>2. \A p \in Payloads : rows[p] \in Sessions => rows'[p] \in Sessions
    BY <1>1, <1>4, <1>7, <1>8
  <2> QED BY <2>1, <2>2
<1>10. StoreTypes'
  <2>1. dag' \in Seq(StoredSummaries) /\ cursor' \in Sessions /\ breaks' \in Nat
        /\ payload' \in [Payloads -> {"absent", "torn", "whole"}]
    BY <1>1, <1>2 DEF StoreTypes
  <2> QED BY <1>5, <1>6, <1>9, <2>1 DEF StoreTypes
<1>11. FilesKept'
  BY <1>1, <1>2, <1>4, <1>6, <1>9, FilesStayKept
<1>12. Linked'
  BY <1>1, <1>2, <1>6, GrowsKeepsLinks
<1>13. PushOK'
  BY <1>5 DEF PushOK
<1>14. TodoOK'
  <2>1. Len(Here.messages) <= Len(Here'.messages) /\ Len(Here.messages) \in Nat
        /\ Len(Here'.messages) \in Nat
    <3>1. Here' = conv'[a] /\ Here = conv[a]
      BY <1>5 DEF Here, a
    <3>2. conv[a] \in Conversations /\ conv'[a] \in Conversations
      BY <1>2, <1>3, <1>6 DEF StoreTypes
    <3>3. Len(conv[a].messages) <= Len(conv'[a].messages)
      BY <1>3, <1>6 DEF Grows
    <3> QED BY <3>1, <3>2, <3>3, ContextFacts
  <2>2. ASSUME NEW t \in engine.todo PROVE ChunkOK(t)'
    <3>1. ChunkOK(t) /\ t.first \in Nat
      BY <1>2, EngineFacts DEF TodoOK, Chunks
    <3>2. engine'.active = engine.active /\ dag' = dag
      BY <1>1, <1>5 DEF a
    <3>3. t.first < Len(Here'.messages)
      BY <2>1, <3>1 DEF ChunkOK
    <3> QED BY <3>1, <3>2, <3>3 DEF ChunkOK, Owned, LevelBelow
  <2> QED BY <1>2, <1>5, <2>2 DEF TodoOK
<1> QED BY <1>6, <1>10, <1>11, <1>12, <1>13, <1>14 DEF StoreInv

(* An action that leaves the tables and the files alone, with the engine it *)
(* comes to.                                                                *)
LEMMA EngineStep ==
  ASSUME StoreInv, UNCHANGED <<conv, dag, rows, payload>>,
         engine' \in Engines, cursor' \in Sessions, breaks' \in Nat,
         engine'.push = Nothing,
         engine'.todo # {} => engine'.cycle = "condense",
         \A t \in engine'.todo : engine'.active = engine.active /\ ChunkOK(t)
  PROVE  StoreInv'
<1>1. StoreTypes /\ FilesKept
  BY DEF StoreInv
<1>2. /\ conv' \in [Sessions -> Conversations] /\ dag' \in Seq(StoredSummaries)
      /\ SoundStore' /\ OwnSummaries' /\ Linked'
  BY TablesStay
<1>3. StoreTypes'
  BY <1>1, <1>2 DEF StoreTypes
<1>4. FilesKept'
  BY <1>1, FilesSame
<1>5. PushOK'
  BY DEF PushOK
<1>6. TodoOK'
  <2>1. ASSUME NEW t \in engine'.todo PROVE ChunkOK(t)'
    BY DEF ChunkOK, Owned, LevelBelow, Here
  <2> QED BY <2>1 DEF TodoOK
<1> QED BY <1>2, <1>3, <1>4, <1>5, <1>6 DEF StoreInv

LEMMA BreakFacts ==
  ASSUME StoreTypes, Break
  PROVE  breaks' \in Nat
BY DEF StoreTypes, Break

LEMMA PushFailsStep ==
  ASSUME StoreInv, PushFails
  PROVE  StoreInv'
<1>1. /\ Break /\ engine' = [engine EXCEPT !.push = Nothing]
      /\ UNCHANGED <<conv, dag, rows, payload, cursor>>
  BY DEF PushFails
<1>2. StoreTypes /\ TodoOK
  BY DEF StoreInv
<1>3. /\ engine' \in Engines /\ engine'.push = Nothing /\ engine'.cycle = engine.cycle
      /\ engine'.active = engine.active /\ engine'.todo = engine.todo
  BY <1>1, <1>2, EngineChanges
<1>4. cursor' \in Sessions /\ breaks' \in Nat
  BY <1>1, <1>2, BreakFacts DEF StoreTypes
<1>5. /\ engine'.todo # {} => engine'.cycle = "condense"
      /\ \A t \in engine'.todo : engine'.active = engine.active /\ ChunkOK(t)
  BY <1>2, <1>3 DEF TodoOK
<1> QED BY <1>1, <1>3, <1>4, <1>5, EngineStep

LEMMA KillStep ==
  ASSUME StoreInv, Kill
  PROVE  StoreInv'
<1>1. /\ Break /\ engine' = [Up(engine.active) EXCEPT !.up = FALSE]
      /\ UNCHANGED <<conv, dag, rows, payload, cursor>>
  BY DEF Kill
<1>2. StoreTypes
  BY DEF StoreInv
<1>3. engine' \in Engines /\ engine'.push = Nothing /\ engine'.todo = {}
  BY <1>1, <1>2, EngineFacts, UpFacts
<1>4. cursor' \in Sessions /\ breaks' \in Nat
  BY <1>1, <1>2, BreakFacts DEF StoreTypes
<1> QED BY <1>1, <1>3, <1>4, EngineStep

LEMMA StartCycleStep ==
  ASSUME StoreInv, StartCycle
  PROVE  StoreInv'
<1>1. /\ Quiet /\ engine' = [engine EXCEPT !.cycle = "leaf"]
      /\ UNCHANGED <<conv, dag, rows, payload, cursor, breaks>>
  BY DEF StartCycle
<1>2. StoreTypes
  BY DEF StoreInv
<1>3. engine.push = Nothing /\ engine.todo = {}
  BY <1>1, QuietFacts
<1>4. engine' \in Engines /\ engine'.push = Nothing /\ engine'.todo = {}
  BY <1>1, <1>2, <1>3, EngineChanges
<1>5. cursor' \in Sessions /\ breaks' \in Nat
  BY <1>1, <1>2 DEF StoreTypes
<1> QED BY <1>1, <1>4, <1>5, EngineStep

LEMMA CycleFailsStep ==
  ASSUME StoreInv, CycleFails
  PROVE  StoreInv'
<1>1. /\ Break /\ engine.cycle # "idle"
      /\ engine' = [engine EXCEPT !.cycle = "idle", !.todo = {}]
      /\ UNCHANGED <<conv, dag, rows, payload, cursor>>
  BY DEF CycleFails
<1>2. StoreTypes
  BY DEF StoreInv
<1>3. engine' \in Engines /\ engine'.push = Nothing /\ engine'.todo = {}
  <2>1. engine.push = Nothing
    BY <1>1 DEF StoreInv, PushOK
  <2> QED BY <1>1, <1>2, <2>1, EngineChanges
<1>4. cursor' \in Sessions /\ breaks' \in Nat
  BY <1>1, <1>2, BreakFacts DEF StoreTypes
<1> QED BY <1>1, <1>3, <1>4, EngineStep

(* A conversation becomes the active one and is repaired; nothing is under *)
(* way in the engine then.                                                 *)
LEMMA RepairedStep ==
  ASSUME StoreInv, NEW s \in Sessions, conv' = [conv EXCEPT ![s] = Repaired(@)],
         UNCHANGED <<dag, rows, payload>>,
         engine' \in Engines, cursor' \in Sessions, breaks' \in Nat,
         engine'.push = Nothing, engine'.todo = {}
  PROVE  StoreInv'
<1> DEFINE m == [role |-> "result", file |-> Nothing, path |-> Nothing]
           n == Len(conv[s].messages)
<1>1. StoreTypes /\ FilesKept /\ Linked
  BY DEF StoreInv
<1>2. PushOK' /\ TodoOK'
  BY DEF PushOK, TodoOK
<1>3. CASE n > 0 /\ conv[s].messages[n].role = "write"
  <2>1. m \in StoredMessage /\ m.file = Nothing
    BY DEF StoredMessage
  <2>2. conv[s].messages # <<>>
    BY <1>3
  <2>3. conv' = [conv EXCEPT ![s] = Pushed(@, m)]
    BY <1>3 DEF Repaired
  <2> HIDE DEF m, n
  <2>4. /\ conv' \in [Sessions -> Conversations] /\ SoundStore' /\ OwnSummaries' /\ Grows
        /\ \A r \in Sessions : \A i \in DOMAIN conv'[r].messages :
              \/ i \in DOMAIN conv[r].messages /\ conv'[r].messages[i] = conv[r].messages[i]
              \/ conv'[r].messages[i] = m
    BY <2>1, <2>2, <2>3, PushedStep
  <2>5. StoreTypes'
    BY <1>1, <2>4 DEF StoreTypes
  <2>6. FilesKept'
    BY <1>1, <2>1, <2>4, FilesStayKept
  <2>7. Linked'
    BY <1>1, <2>4, GrowsKeepsLinks
  <2> QED BY <1>2, <2>4, <2>5, <2>6, <2>7 DEF StoreInv
<1>4. CASE ~(n > 0 /\ conv[s].messages[n].role = "write")
  <2>1. UNCHANGED conv
    BY <1>1, <1>4 DEF Repaired, StoreTypes
  <2> QED BY <2>1, EngineStep
<1> QED BY <1>3, <1>4

LEMMA SwitchSessionStep ==
  ASSUME StoreInv, SwitchSession
  PROVE  StoreInv'
<1>1. PICK s \in Sessions :
         /\ conv' = [conv EXCEPT ![s] = Repaired(@)]
         /\ engine' = [engine EXCEPT !.active = s]
         /\ \/ cursor' = s /\ UNCHANGED breaks
            \/ Break /\ UNCHANGED cursor
  BY DEF SwitchSession
<1>2. Quiet /\ UNCHANGED <<dag, rows, payload>>
  BY DEF SwitchSession
<1>3. StoreTypes
  BY DEF StoreInv
<1>4. engine' \in Engines /\ engine'.push = Nothing /\ engine'.todo = {}
  BY <1>1, <1>2, <1>3, EngineChanges, QuietFacts
<1>5. cursor' \in Sessions /\ breaks' \in Nat
  BY <1>1, <1>3, BreakFacts DEF StoreTypes
<1> QED BY <1>1, <1>2, <1>4, <1>5, RepairedStep

LEMMA BootStep ==
  ASSUME StoreInv, Boot
  PROVE  StoreInv'
<1>1. /\ conv' = [conv EXCEPT ![cursor] = Repaired(@)] /\ engine' = Up(cursor)
      /\ UNCHANGED <<dag, rows, payload, cursor, breaks>>
  BY DEF Boot
<1>2. cursor \in Sessions /\ breaks \in Nat
  BY DEF StoreInv, StoreTypes
<1>3. engine' \in Engines /\ engine'.push = Nothing /\ engine'.todo = {}
  BY <1>1, <1>2, UpTyped
<1>4. PICK s \in Sessions : s = cursor
  BY <1>2
<1>5. conv' = [conv EXCEPT ![s] = Repaired(@)]
  BY <1>1, <1>4
<1> QED BY <1>1, <1>2, <1>3, <1>5, RepairedStep

LEMMA ForgetStep ==
  ASSUME StoreInv, Forget
  PROVE  StoreInv'
<1> DEFINE a == engine.active
           c == conv[a]
           d == [c EXCEPT !.context = NoEntries, !.base = Len(c.messages)]
<1>1. /\ Quiet /\ UNCHANGED <<dag, rows, payload, engine, cursor, breaks>>
  BY DEF Forget
<1>2. StoreTypes /\ SoundStore /\ OwnSummaries /\ FilesKept /\ Linked
  BY DEF StoreInv
<1>3. a \in Sessions /\ c \in Conversations /\ Sound(c)
  BY <1>2, EngineFacts DEF StoreTypes, SoundStore
<1>4. conv' = [conv EXCEPT ![a] = d]
  BY <1>2, <1>3 DEF Forget, Here, StoreTypes
<1>5. d = [c EXCEPT !.context = NoEntries, !.base = Len(c.messages)]
  OBVIOUS
<1> HIDE DEF d, c
<1>6. d \in Conversations /\ Sound(d) /\ d.messages = c.messages /\ SummaryItems(d) = {}
  BY <1>3, <1>5, ClearedSound
<1> HIDE DEF a
<1>7. /\ conv' \in [Sessions -> Conversations] /\ conv'[a] = d
      /\ \A r \in Sessions : r # a => conv'[r] = conv[r]
  BY <1>2, <1>3, <1>4, <1>6, OneChanges
<1>8. \A r \in Sessions : conv'[r].messages = conv[r].messages
  BY <1>6, <1>7 DEF c
<1>9. SoundStore' /\ OwnSummaries'
  BY <1>1, <1>2, <1>6, <1>7 DEF SoundStore, OwnSummaries, Owned
<1>10. StoreTypes'
  BY <1>1, <1>2, <1>7 DEF StoreTypes
<1>11. FilesKept'
  BY <1>1, <1>2, <1>8, FilesSame
<1>12. Grows
  <2>1. \A r \in Sessions : Len(conv[r].messages) \in Nat
    BY <1>2, ContextFacts DEF StoreTypes
  <2> QED BY <1>8, <2>1 DEF Grows
<1>13. Linked'
  BY <1>1, <1>2, <1>12, GrowsKeepsLinks
<1>14. PushOK' /\ TodoOK'
  BY <1>1, QuietFacts DEF PushOK, TodoOK
<1> QED BY <1>9, <1>10, <1>11, <1>13, <1>14 DEF StoreInv

(* What is loaded of a set of items. *)
LEMMA ChunkFacts ==
  ASSUME NEW c \in Conversations, Sound(c), NEW R \in SUBSET DOMAIN c.context, R # {},
         NEW depth \in Nat
  PROVE  /\ Chunk(c, R, depth) \in Chunks
         /\ Chunk(c, R, depth).depth = depth
         /\ Chunk(c, R, depth).first < Len(c.messages)
         /\ \A k \in Chunk(c, R, depth).sources : \E o \in R : k = c.context[o].id
         /\ Min(R) \in R
<1>1. /\ DOMAIN c.context \subseteq Nat /\ Len(c.messages) \in Nat
      /\ \A o \in DOMAIN c.context : c.context[o].id \in Nat
  BY ContextFacts, EntryFacts
<1>2. \A o \in DOMAIN c.context : o < Len(c.messages)
  BY DEF Sound
<1>3. R \in SUBSET Nat /\ R \in SUBSET (0..Len(c.messages))
  BY <1>1, <1>2
<1>4. Min(R) \in R /\ Max(R) \in R
  BY <1>1, <1>3, MinFact, MaxFact
<1>5. {c.context[o].id : o \in R} \in SUBSET Nat
  BY <1>1
<1> QED BY <1>1, <1>2, <1>3, <1>4, <1>5 DEF Chunk, Chunks

(* A step that writes a summary and may take it off the list. *)
LEMMA SummaryKeeps ==
  ASSUME StoreInv, NEW t \in Chunks, NEW F \in SUBSET Payloads,
         t.first < Len(Here.messages),
         t.depth = 0 =>
             /\ t.sources \subseteq DOMAIN Here.messages
             /\ \A i \in t.sources : Here.messages[i].file # Nothing => Here.messages[i].file \in F,
         t.depth > 0 =>
             \A k \in t.sources : /\ Owned(k, engine.active) /\ LevelBelow(k, t.depth)
                                  /\ dag[k].files \subseteq F,
         WriteSummary(t, F), UNCHANGED <<rows, payload, cursor, breaks>>,
         engine' \in Engines, engine'.active = engine.active, engine'.push = Nothing,
         engine'.cycle = engine.cycle, engine'.todo \subseteq engine.todo
  PROVE  StoreInv'
<1>1. StoreTypes /\ FilesKept /\ TodoOK
  BY DEF StoreInv
<1>2. /\ conv' \in [Sessions -> Conversations] /\ dag' \in Seq(StoredSummaries)
      /\ SoundStore' /\ OwnSummaries' /\ Linked'
      /\ \A r \in Sessions : conv'[r].messages = conv[r].messages
      /\ \A k \in DOMAIN dag : k \in DOMAIN dag' /\ dag'[k] = dag[k]
  BY WriteSummaryStep
<1>3. StoreTypes'
  BY <1>1, <1>2 DEF StoreTypes
<1>4. FilesKept'
  BY <1>1, <1>2, FilesSame
<1>5. PushOK'
  BY DEF PushOK
<1>6. TodoOK'
  <2>1. Here'.messages = Here.messages
    BY <1>1, <1>2, EngineFacts DEF Here
  <2>2. ASSUME NEW u \in engine'.todo PROVE ChunkOK(u)'
    <3>1. ChunkOK(u)
      BY <1>1 DEF TodoOK
    <3> QED BY <1>2, <2>1, <3>1 DEF ChunkOK, Owned, LevelBelow
  <2> QED BY <1>1, <2>2 DEF TodoOK
<1> QED BY <1>2, <1>3, <1>4, <1>5, <1>6 DEF StoreInv

LEMMA WriteLeafSummaryStep ==
  ASSUME StoreInv, WriteLeafSummary
  PROVE  StoreInv'
<1>1. StoreTypes /\ SoundStore /\ FilesKept
  BY DEF StoreInv
<1>2. PICK R \in NextChunks(Here) :
         WriteSummary(Chunk(Here, R, 0), FilesOfMessages(Here, Chunk(Here, R, 0).sources))
  BY DEF WriteLeafSummary
<1>3. engine.cycle = "leaf" /\ UNCHANGED <<rows, payload, engine, cursor, breaks>>
  BY DEF WriteLeafSummary
<1> DEFINE t == Chunk(Here, R, 0)
           F == FilesOfMessages(Here, t.sources)
<1>4. Here \in Conversations /\ Sound(Here) /\ engine.active \in Sessions
  BY <1>1, EngineFacts DEF SoundStore, Here
<1>5. R # {} /\ R \subseteq RawItems(Here)
  <2> DEFINE left == OldRaw(Here) \ Pin(Here)
             reach == {o \in left : \A p \in Pin(Here) : p > Min(left) => p > o}
  <2>1. PICK last \in reach : R = {o \in reach : o <= last}
    BY DEF NextChunks
  <2>2. reach \subseteq RawItems(Here)
    BY DEF OldRaw
  <2> HIDE DEF reach
  <2>3. last \in Nat
    BY <1>4, <2>1, <2>2, ContextFacts DEF RawItems
  <2>4. last \in R
    BY <2>1, <2>3
  <2>5. R \subseteq reach
    BY <2>1
  <2> QED BY <2>2, <2>4, <2>5
<1>6. /\ t \in Chunks /\ t.depth = 0 /\ t.first < Len(Here.messages)
      /\ \A k \in t.sources : \E o \in R : k = Here.context[o].id
  <2>1. R \in SUBSET DOMAIN Here.context
    BY <1>5 DEF RawItems
  <2> QED BY <1>4, <1>5, <2>1, ChunkFacts
<1>7. F \in SUBSET Payloads
  BY DEF FilesOfMessages
<1>8. WriteSummary(t, F)
  BY <1>2
<1> HIDE DEF t
<1>9. t.sources \subseteq DOMAIN Here.messages
  BY <1>4, <1>5, <1>6 DEF Sound
<1>10. ASSUME NEW i \in t.sources, Here.messages[i].file # Nothing
       PROVE  Here.messages[i].file \in F
  <2>1. Here.messages[i].file \in Payloads
    BY <1>4, <1>9, <1>10, ContextFacts, MessageFacts
  <2>2. rows[Here.messages[i].file] \in Sessions
    BY <1>1, <1>4, <1>9, <1>10 DEF FilesKept, Kept, Here
  <2> QED BY <2>1, <2>2, LcmStoreAssumption DEF FilesOfMessages
<1> HIDE DEF F
<1>11. /\ engine' \in Engines /\ engine'.push = Nothing
       /\ engine'.active = engine.active /\ engine'.cycle = engine.cycle
       /\ engine'.todo \subseteq engine.todo
  BY <1>1, <1>3 DEF StoreInv, PushOK, StoreTypes
<1>12. t.depth = 0 =>
         /\ t.sources \subseteq DOMAIN Here.messages
         /\ \A i \in t.sources : Here.messages[i].file # Nothing => Here.messages[i].file \in F
  BY <1>9, <1>10
<1>13. ~(t.depth > 0)
  BY <1>6
<1> QED BY <1>3, <1>6, <1>7, <1>8, <1>11, <1>12, <1>13, SummaryKeeps

(* A run has summaries of one depth. *)
LEMMA RunLevel ==
  ASSUME NEW c \in Conversations, NEW o \in SummaryItems(c), NEW p \in RunOf(c, o)
  PROVE  Depth(c, p) = Depth(c, o)
<1>1. DOMAIN c.context \subseteq Nat /\ SummaryItems(c) \subseteq DOMAIN c.context
  BY ContextFacts DEF SummaryItems
<1>2. p \in SummaryItems(c) /\ p \in Nat /\ o \in Nat /\ p \in DOMAIN c.context
  BY <1>1 DEF RunOf
<1>3. (o <= p /\ p <= p) \/ (p <= p /\ p <= o)
  BY <1>2
<1> QED BY <1>2, <1>3 DEF RunOf

(* What load_condensed_chunks may return. *)
LEMMA LoadedFacts ==
  ASSUME StoreInv, NEW t \in Loaded(Here)
  PROVE  t \in Chunks /\ ChunkOK(t)
<1>1. StoreTypes /\ SoundStore /\ OwnSummaries
  BY DEF StoreInv
<1>2. Here \in Conversations /\ Sound(Here) /\ engine.active \in Sessions
  BY <1>1, EngineFacts DEF SoundStore, Here
<1>3. PICK o \in SummaryItems(Here) :
         t = Chunk(Here, RunOf(Here, o), Depth(Here, Min(RunOf(Here, o))) + 1)
  BY DEF Loaded
<1> DEFINE R == RunOf(Here, o)
           depth == Depth(Here, Min(R)) + 1
<1>4. R \subseteq SummaryItems(Here)
  BY DEF RunOf
<1>5. o \in R
  <2>1. DOMAIN Here.context \subseteq Nat /\ SummaryItems(Here) \subseteq DOMAIN Here.context
    BY <1>2, ContextFacts DEF SummaryItems
  <2>2. \A q \in DOMAIN Here.context : (o <= q /\ q <= o) => q = o
    BY <2>1
  <2>3. \A q \in DOMAIN Here.context : (o <= q /\ q <= o) \/ (o <= q /\ q <= o)
            => q \in SummaryItems(Here) /\ Depth(Here, q) = Depth(Here, o)
    BY <2>2
  <2> QED BY <2>3 DEF RunOf
<1>6. t = Chunk(Here, R, depth)
  BY <1>3
<1> HIDE DEF R
<1>7. R \in SUBSET DOMAIN Here.context /\ R # {}
  BY <1>4, <1>5 DEF SummaryItems
<1>8. \A p \in R : Owned(Here.context[p].id, engine.active)
  BY <1>1, <1>2, <1>4 DEF OwnSummaries, Here
<1>9. Min(R) \in R
  <2>1. R \in SUBSET Nat
    BY <1>2, <1>7, ContextFacts
  <2> QED BY <1>7, <2>1, MinFact
<1>10. depth \in Nat /\ depth > 0
  <2>1. dag[Here.context[Min(R)].id].depth \in Nat
    BY <1>1, <1>8, <1>9, SummariesTyped DEF Owned
  <2> QED BY <2>1 DEF Depth
<1>13. \A p \in R : LevelBelow(Here.context[p].id, depth)
  <2>1. \A p \in R : Depth(Here, p) = Depth(Here, o)
    BY <1>5, <1>7, <1>2, ContextFacts, RunLevel DEF R
  <2> QED BY <1>9, <2>1 DEF Depth, LevelBelow
<1> HIDE DEF depth
<1>11. /\ t \in Chunks /\ t.depth = depth /\ t.first < Len(Here.messages)
       /\ \A k \in t.sources : \E p \in R : k = Here.context[p].id
  BY <1>2, <1>6, <1>7, <1>10, ChunkFacts
<1>12. ChunkOK(t)
  BY <1>8, <1>10, <1>13, <1>11 DEF ChunkOK
<1> QED BY <1>11, <1>12

LEMMA LoadCondensedStep ==
  ASSUME StoreInv, LoadCondensed
  PROVE  StoreInv'
<1>1. PICK T \in SUBSET Loaded(Here) :
         engine' = [engine EXCEPT !.cycle = IF T = {} THEN "idle" ELSE "condense", !.todo = T]
  BY DEF LoadCondensed
<1>2. /\ engine.cycle \in {"leaf", "condense"}
      /\ UNCHANGED <<conv, dag, rows, payload, cursor, breaks>>
  BY DEF LoadCondensed
<1>3. StoreTypes /\ engine.push = Nothing
  BY <1>2 DEF StoreInv, PushOK
<1>4. T \in SUBSET Chunks /\ \A t \in T : ChunkOK(t)
  BY LoadedFacts
<1> DEFINE y == IF T = {} THEN "idle" ELSE "condense"
<1>5. y \in {"idle", "condense"} /\ (T # {} => y = "condense")
  OBVIOUS
<1>6. engine' = [engine EXCEPT !.cycle = y, !.todo = T]
  BY <1>1
<1> HIDE DEF y
<1>7. /\ engine' \in Engines /\ engine'.active = engine.active /\ engine'.push = Nothing
      /\ engine'.todo = T /\ engine'.cycle = y
  BY <1>3, <1>4, <1>5, <1>6, EngineChanges
<1>8. cursor' \in Sessions /\ breaks' \in Nat
  BY <1>2, <1>3 DEF StoreTypes
<1> QED BY <1>2, <1>4, <1>5, <1>7, <1>8, EngineStep

LEMMA WriteCondensedSummaryStep ==
  ASSUME StoreInv, WriteCondensedSummary
  PROVE  StoreInv'
<1>1. PICK t \in engine.todo :
         /\ WriteSummary(t, FilesOfSummaries(t.sources))
         /\ engine' = [engine EXCEPT !.todo = @ \ {t}]
  BY DEF WriteCondensedSummary
<1>2. UNCHANGED <<rows, payload, cursor, breaks>>
  BY DEF WriteCondensedSummary
<1>3. StoreTypes /\ TodoOK /\ PushOK
  BY DEF StoreInv
<1>4. t \in Chunks /\ ChunkOK(t) /\ engine.cycle = "condense" /\ engine.push = Nothing
  BY <1>3, EngineFacts DEF TodoOK, PushOK
<1> DEFINE F == FilesOfSummaries(t.sources)
<1>5. /\ t.depth \in Nat /\ t.depth > 0 /\ t.first < Len(Here.messages)
      /\ \A k \in t.sources : Owned(k, engine.active) /\ LevelBelow(k, t.depth)
  BY <1>4 DEF ChunkOK, Chunks
<1>6. F \in SUBSET Payloads /\ \A k \in t.sources : dag[k].files \subseteq F
  <2>1. \A k \in t.sources : dag[k].files \subseteq Payloads
    BY <1>3, <1>5, SummariesTyped DEF Owned
  <2> QED BY <2>1 DEF FilesOfSummaries
<1>7. WriteSummary(t, F)
  BY <1>1
<1> HIDE DEF F
<1> DEFINE T == engine.todo \ {t}
<1>8. engine' = [engine EXCEPT !.todo = T] /\ T \in SUBSET Chunks /\ T \subseteq engine.todo
  BY <1>1, <1>3, EngineFacts
<1> HIDE DEF T
<1>9. /\ engine' \in Engines /\ engine'.active = engine.active /\ engine'.push = Nothing
      /\ engine'.todo \subseteq engine.todo /\ engine'.cycle = engine.cycle
  <2>1. engine \in Engines
    BY <1>3 DEF StoreTypes
  <2> QED BY <1>4, <1>8, <2>1 DEF Engines
<1>10. t.depth > 0 => \A k \in t.sources : /\ Owned(k, engine.active) /\ LevelBelow(k, t.depth)
                                            /\ dag[k].files \subseteq F
  BY <1>5, <1>6
<1>11. ~(t.depth = 0)
  BY <1>5
<1> QED BY <1>2, <1>4, <1>5, <1>6, <1>7, <1>9, <1>10, <1>11, SummaryKeeps

LEMMA StoreInitInv == StoreInit => StoreInv
<1> SUFFICES ASSUME StoreInit PROVE StoreInv
  OBVIOUS
<1>1. \A s \in Sessions : conv[s] = [messages |-> <<>>, context |-> NoEntries, base |-> 0]
  BY DEF StoreInit
<1>2. DOMAIN NoEntries = {} /\ NoEntries \in Contexts
  <2>1. NoEntries \in [{} -> Entries] /\ DOMAIN NoEntries = {}
    BY DEF NoEntries
  <2>2. {} \in SUBSET Nat
    OBVIOUS
  <2> QED BY <2>1, <2>2 DEF Contexts
<1> DEFINE c == [messages |-> <<>>, context |-> NoEntries, base |-> 0]
<1>3. c \in Conversations
  <2>1. <<>> \in Seq(StoredMessage) /\ 0 \in Nat
    OBVIOUS
  <2> QED BY <1>2, <2>1, ConversationMade
<1>4. c.messages = <<>> /\ c.context = NoEntries /\ c.base = 0
  OBVIOUS
<1> HIDE DEF c
<1>5. conv = [s \in Sessions |-> c] /\ \A s \in Sessions : conv[s] = c
  BY DEF StoreInit, c
<1>6. RawItems(c) = {} /\ SummaryItems(c) = {}
  BY <1>2, <1>4 DEF RawItems, SummaryItems
<1>7. Sound(c)
  BY <1>2, <1>4, <1>6 DEF Sound
<1>8. engine \in Engines /\ engine.push = Nothing /\ engine.todo = {}
  BY UpTyped, LcmStoreAssumption DEF StoreInit
<1>9. StoreTypes
  <2>1. conv \in [Sessions -> Conversations]
    BY <1>3, <1>5
  <2>2. dag \in Seq(StoredSummaries)
    BY DEF StoreInit
  <2> QED BY <1>8, <2>1, <2>2, LcmStoreAssumption DEF StoreInit, StoreTypes
<1>10. SoundStore /\ OwnSummaries
  BY <1>5, <1>6, <1>7 DEF SoundStore, OwnSummaries
<1>11. FilesKept
  BY <1>4, <1>5 DEF FilesKept
<1>12. Linked
  BY DEF StoreInit, Linked
<1>13. PushOK /\ TodoOK
  BY <1>8 DEF PushOK, TodoOK
<1> QED BY <1>9, <1>10, <1>11, <1>12, <1>13 DEF StoreInv

LEMMA StoreStutter ==
  ASSUME StoreInv, UNCHANGED storeVars
  PROVE  StoreInv'
BY DEF StoreInv, StoreTypes, SoundStore, OwnSummaries, Owned, FilesKept, Kept, PushOK, TodoOK,
       ChunkOK, LevelBelow, Linked, LeafLinked, CondensedLinked, Here, storeVars

LEMMA StoreNextInv == StoreInv /\ [StoreNext]_storeVars => StoreInv'
<1> SUFFICES ASSUME StoreInv, [StoreNext]_storeVars PROVE StoreInv'
  OBVIOUS
<1>1. CASE PushWhole BY <1>1, PushWholeStep
<1>2. CASE Intercept BY <1>2, InterceptStep
<1>3. CASE WritePayload BY <1>3, WritePayloadStep
<1>4. CASE PushReference BY <1>4, PushReferenceStep
<1>5. CASE PushFails BY <1>5, PushFailsStep
<1>6. CASE SwitchSession BY <1>6, SwitchSessionStep
<1>7. CASE Forget BY <1>7, ForgetStep
<1>8. CASE Kill BY <1>8, KillStep
<1>9. CASE Boot BY <1>9, BootStep
<1>10. CASE StartCycle BY <1>10, StartCycleStep
<1>11. CASE WriteLeafSummary BY <1>11, WriteLeafSummaryStep
<1>12. CASE LoadCondensed BY <1>12, LoadCondensedStep
<1>13. CASE WriteCondensedSummary BY <1>13, WriteCondensedSummaryStep
<1>14. CASE CycleFails BY <1>14, CycleFailsStep
<1>15. CASE UNCHANGED storeVars BY <1>15, StoreStutter
<1> QED BY <1>1, <1>2, <1>3, <1>4, <1>5, <1>6, <1>7, <1>8, <1>9, <1>10, <1>11, <1>12,
           <1>13, <1>14, <1>15 DEF StoreNext

THEOREM StoreInvariance == StoreSpec => []StoreInv
<1> QED BY StoreInitInv, StoreNextInv, PTL DEF StoreSpec

-----------------------------------------------------------------------------
(* Below a summary, every message's file is on its list: the summaries of  *)
(* the conversation that list no other files are closed under sources.     *)
LEMMA FilesBelow ==
  ASSUME StoreInv, NEW d \in DOMAIN dag, NEW e \in Below(d)
  PROVE  e \in DOMAIN dag /\ dag[e].session = dag[d].session /\ dag[e].files \subseteq dag[d].files
<1> DEFINE S == {k \in DOMAIN dag : dag[k].session = dag[d].session
                                    /\ dag[k].files \subseteq dag[d].files}
<1>1. d \in S /\ S \in SUBSET DOMAIN dag
  OBVIOUS
<1>2. ASSUME NEW k \in S, dag[k].depth > 0 PROVE dag[k].sources \subseteq S
  <2>1. CondensedLinked(k)
    BY <1>2 DEF StoreInv, Linked
  <2> QED BY <2>1 DEF CondensedLinked, Owned, LevelBelow
<1> HIDE DEF S
<1>3. e \in S
  BY <1>1, <1>2 DEF Below
<1> QED BY <1>3 DEF S

(* Messages are never lost: not by a push, a summary, a repair or a clear. *)
MessagesStay ==
    \A s \in Sessions : \A i \in DOMAIN conv[s].messages :
        i \in DOMAIN conv'[s].messages /\ conv'[s].messages[i] = conv[s].messages[i]

LEMMA PushedStay ==
  ASSUME StoreTypes, NEW s \in Sessions, NEW m \in StoredMessage,
         conv' = [conv EXCEPT ![s] = Pushed(@, m)]
  PROVE  /\ MessagesStay
         /\ \E i \in DOMAIN conv'[s].messages : conv'[s].messages[i] = m
<1>1. conv[s] \in Conversations /\ conv \in [Sessions -> Conversations]
  BY DEF StoreTypes
<1>2. conv[s].messages \in Seq(StoredMessage)
  BY <1>1, ContextFacts
<1>3. /\ conv'[s].messages = Append(conv[s].messages, m)
      /\ \A r \in Sessions : r # s => conv'[r] = conv[r]
  BY <1>1 DEF Pushed
<1>4. /\ DOMAIN conv'[s].messages = 1 .. Len(conv[s].messages) + 1
      /\ DOMAIN conv[s].messages = 1 .. Len(conv[s].messages)
      /\ conv'[s].messages[Len(conv[s].messages) + 1] = m
      /\ \A i \in 1 .. Len(conv[s].messages) : conv'[s].messages[i] = conv[s].messages[i]
  BY <1>2, <1>3
<1>5. Len(conv[s].messages) \in Nat
  BY <1>2
<1>6. ASSUME NEW r \in Sessions, NEW i \in DOMAIN conv[r].messages
      PROVE  i \in DOMAIN conv'[r].messages /\ conv'[r].messages[i] = conv[r].messages[i]
  <2>1. CASE r = s
    BY <1>4, <1>5, <2>1
  <2>2. CASE r # s
    BY <1>3, <2>2
  <2> QED BY <2>1, <2>2
<1> QED BY <1>4, <1>5, <1>6 DEF MessagesStay

LEMMA RepairedStay ==
  ASSUME StoreTypes, NEW s \in Sessions, conv' = [conv EXCEPT ![s] = Repaired(@)]
  PROVE  MessagesStay
<1> DEFINE m == [role |-> "result", file |-> Nothing, path |-> Nothing]
<1>1. m \in StoredMessage
  BY DEF StoredMessage
<1>2. CASE Repaired(conv[s]) = conv[s]
  <2>1. conv' = conv
    BY <1>2 DEF StoreTypes
  <2> QED BY <2>1 DEF MessagesStay
<1>3. CASE Repaired(conv[s]) = Pushed(conv[s], m)
  <2> HIDE DEF m
  <2>1. conv' = [conv EXCEPT ![s] = Pushed(@, m)]
    BY <1>3
  <2> QED BY <1>1, <2>1, PushedStay
<1> QED BY <1>2, <1>3 DEF Repaired

(* Steps that only touch what is behind the messages. *)
LEMMA BehindStay ==
  ASSUME StoreTypes, \A s \in Sessions : conv'[s].messages = conv[s].messages
  PROVE  MessagesStay
BY DEF MessagesStay

LEMMA PushingFacts ==
  ASSUME StoreInv, engine.push # Nothing
  PROVE  /\ engine.push \in Pushing /\ engine.push.message \in StoredMessage
         /\ engine.push.message.file \in Payloads /\ engine.active \in Sessions
<1>1. engine.push \in Pushing /\ engine.active \in Sessions
  BY EngineFacts DEF StoreInv
<1> QED BY <1>1 DEF StoreInv, PushOK, Pushing

LEMMA StoreMessagesStay ==
  ASSUME StoreInv, StoreNext PROVE MessagesStay
<1>0. /\ StoreTypes /\ engine.active \in Sessions /\ cursor \in Sessions
      /\ conv \in [Sessions -> Conversations]
  BY EngineFacts DEF StoreInv, StoreTypes
<1>1. CASE PushWhole
  <2>1. PICK m \in NextMessages : conv' = [conv EXCEPT ![engine.active] = Pushed(@, m)]
    BY <1>1 DEF PushWhole
  <2>2. m \in StoredMessage
    BY NextMessageFacts
  <2> QED BY <1>0, <2>1, <2>2, PushedStay
<1>2. CASE PushReference
  <2>1. /\ conv' = [conv EXCEPT ![engine.active] = Pushed(@, engine.push.message)]
        /\ engine.push.message \in StoredMessage
    BY <1>2, PushingFacts DEF PushReference
  <2> QED BY <1>0, <2>1, PushedStay
<1>3. CASE SwitchSession \/ Boot
  BY <1>0, <1>3, RepairedStay DEF SwitchSession, Boot
<1>4. CASE Forget
  <2>1. \A s \in Sessions : conv'[s].messages = conv[s].messages
    BY <1>0, <1>4 DEF Forget, Conversations
  <2> QED BY <1>0, <2>1, BehindStay
<1>5. CASE WriteLeafSummary \/ WriteCondensedSummary
  <2>1. PICK chunk, files : WriteSummary(chunk, files)
    BY <1>5 DEF WriteLeafSummary, WriteCondensedSummary
  <2>2. PICK context : conv' = [conv EXCEPT ![engine.active].context = context]
    BY <1>0, <2>1 DEF WriteSummary
  <2>3. \A s \in Sessions : conv'[s].messages = conv[s].messages
    BY <1>0, <2>2 DEF Conversations
  <2> QED BY <1>0, <2>3, BehindStay
<1>6. CASE Intercept \/ WritePayload \/ PushFails \/ Kill \/ StartCycle \/ LoadCondensed
           \/ CycleFails
  <2>1. conv' = conv
    BY <1>6 DEF Intercept, WritePayload, PushFails, Kill, StartCycle, LoadCondensed, CycleFails
  <2> QED BY <1>0, <2>1, BehindStay
<1> QED BY <1>1, <1>2, <1>3, <1>4, <1>5, <1>6 DEF StoreNext

(* A row is of a session whose messages refer to its payload, whose file   *)
(* is whole unless it is being written again; a push commits when its file *)
(* is written.                                                             *)
RowOK(p) == rows[p] # Nothing => /\ RefersTo(rows[p], p)
                                 /\ payload[p] = "whole" \/ p \in rewrites
PushWritten ==
    engine.push # Nothing /\ engine.push.written =>
        payload[engine.push.message.file] = "whole"
Traced == PushWritten /\ \A p \in Payloads : RowOK(p)

LEMMA RefersStays ==
  ASSUME MessagesStay, NEW s \in Sessions, NEW p, RefersTo(s, p)
  PROVE  RefersTo(s, p)'
BY DEF MessagesStay, RefersTo

LEMMA RowStays ==
  ASSUME StoreTypes, MessagesStay, NEW p \in Payloads, RowOK(p), rows'[p] = rows[p],
         \/ payload'[p] = payload[p] /\ (p \in rewrites => p \in rewrites')
         \/ payload'[p] = "whole"
         \/ rows[p] # Nothing => p \in rewrites'
  PROVE  RowOK(p)'
<1>1. rows[p] # Nothing => rows[p] \in Sessions
  BY DEF StoreTypes
<1>2. CASE rows[p] = Nothing
  BY <1>2 DEF RowOK
<1>3. CASE rows[p] # Nothing
  <2>1. RefersTo(rows[p], p)
    BY <1>3 DEF RowOK
  <2>2. PICK s \in Sessions : s = rows[p]
    BY <1>1, <1>3
  <2>3. RefersTo(s, p)'
    BY <2>1, <2>2, RefersStays
  <2>4. RefersTo(rows[p], p)'
    BY <2>2, <2>3 DEF RefersTo
  <2> QED BY <1>3, <2>4 DEF RowOK
<1> QED BY <1>2, <1>3

LEMMA TracedStays ==
  ASSUME StoreInv, Traced, MessagesStay, UNCHANGED <<rows, payload, rewrites>>,
         engine'.push = Nothing \/ engine'.push = engine.push
  PROVE  Traced'
<1>1. ASSUME NEW p \in Payloads PROVE RowOK(p)'
  BY RowStays DEF StoreInv, Traced
<1> QED BY <1>1 DEF Traced, PushWritten

LEMMA InterceptTraced == ASSUME StoreInv, Traced, Intercept PROVE Traced'
<1>1. PICK m \in NextMessages :
         /\ m.file # Nothing
         /\ engine' = [engine EXCEPT !.push = [message |-> m, written |-> FALSE]]
         /\ payload' = [payload EXCEPT ![m.file] = "torn"]
         /\ rewrites' = IF rows[m.file] = Nothing THEN rewrites ELSE rewrites \cup {m.file}
  BY DEF Intercept
<1>2. MessagesStay /\ rows' = rows
  BY StoreMessagesStay DEF Intercept, StoreNext
<1>3. ASSUME NEW p \in Payloads PROVE RowOK(p)'
  <2>1. StoreTypes /\ RowOK(p) /\ payload \in [Payloads -> {"absent", "torn", "whole"}]
    BY DEF StoreInv, Traced, StoreTypes
  <2>2. CASE p = m.file
    BY <1>1, <1>2, <2>1, <2>2, RowStays
  <2>3. CASE p # m.file
    <3>1. payload'[p] = payload[p] /\ (p \in rewrites => p \in rewrites')
      BY <1>1, <2>1, <2>3
    <3> QED BY <1>2, <2>1, <3>1, RowStays
  <2> QED BY <2>2, <2>3
<1>4. engine'.push # Nothing => engine'.push.written = FALSE
  <2>1. engine \in Engines
    BY DEF StoreInv, StoreTypes
  <2> QED BY <1>1, <2>1 DEF Engines
<1> QED BY <1>3, <1>4 DEF Traced, PushWritten

LEMMA WritePayloadTraced == ASSUME StoreInv, Traced, WritePayload PROVE Traced'
<1> DEFINE f == engine.push.message.file
<1>1. /\ engine.push # Nothing
      /\ engine' = [engine EXCEPT !.push.written = TRUE]
      /\ payload' = [payload EXCEPT ![f] = "whole"]
      /\ rewrites' = rewrites \ {f}
  BY DEF WritePayload
<1>2. MessagesStay /\ rows' = rows
  BY StoreMessagesStay DEF WritePayload, StoreNext
<1>3. /\ f \in Payloads /\ payload \in [Payloads -> {"absent", "torn", "whole"}]
      /\ engine.push \in Pushing /\ engine \in Engines
  BY <1>1, PushingFacts DEF StoreInv, StoreTypes
<1>4. engine'.push.message.file = f
  BY <1>1, <1>3 DEF Engines, Pushing
<1> HIDE DEF f
<1>5. payload'[f] = "whole"
  BY <1>1, <1>3
<1>6. ASSUME NEW p \in Payloads PROVE RowOK(p)'
  <2>1. StoreTypes /\ RowOK(p)
    BY DEF StoreInv, Traced
  <2>2. CASE p = f
    BY <1>2, <1>5, <2>1, <2>2, RowStays
  <2>3. CASE p # f
    <3>1. payload'[p] = payload[p] /\ (p \in rewrites => p \in rewrites')
      BY <1>1, <1>3, <2>3
    <3> QED BY <1>2, <2>1, <3>1, RowStays
  <2> QED BY <2>2, <2>3
<1> QED BY <1>4, <1>5, <1>6 DEF Traced, PushWritten

LEMMA PushReferenceTraced == ASSUME StoreInv, Traced, PushReference PROVE Traced'
<1> DEFINE m == engine.push.message
           a == engine.active
<1>1. /\ engine.push # Nothing /\ engine.push.written
      /\ conv' = [conv EXCEPT ![a] = Pushed(@, m)]
      /\ rows' = [rows EXCEPT ![m.file] = FirstRow(m.file)]
      /\ engine' = [engine EXCEPT !.push = Nothing]
      /\ UNCHANGED <<payload, rewrites>>
  BY DEF PushReference
<1>2. /\ MessagesStay /\ StoreTypes /\ rows \in [Payloads -> Sessions \cup {Nothing}]
      /\ m \in StoredMessage /\ m.file \in Payloads /\ a \in Sessions
  BY <1>1, PushingFacts, StoreMessagesStay DEF PushReference, StoreNext, StoreInv, StoreTypes
<1>3. payload[m.file] = "whole"
  BY <1>1 DEF Traced, PushWritten
<1>4. engine'.push = Nothing
  <2>1. engine \in Engines
    BY <1>2 DEF StoreTypes
  <2> QED BY <1>1, <2>1 DEF Engines
<1>5. FirstRow(m.file) = IF rows[m.file] = Nothing THEN a ELSE rows[m.file]
  BY DEF FirstRow
<1> HIDE DEF m, a
<1>6. \E i \in DOMAIN conv'[a].messages : conv'[a].messages[i] = m
  BY <1>1, <1>2, PushedStay
<1>7. ASSUME NEW p \in Payloads PROVE RowOK(p)'
  <2>1. RowOK(p)
    BY DEF Traced
  <2>2. CASE p = m.file /\ rows[p] = Nothing
    <3>1. rows'[p] = a
      BY <1>1, <1>2, <1>5, <2>2
    <3> QED BY <1>1, <1>3, <1>6, <2>2, <3>1 DEF RowOK, RefersTo
  <2>3. CASE p # m.file \/ rows[p] # Nothing
    <3>1. rows'[p] = rows[p]
      BY <1>1, <1>2, <1>5, <2>3
    <3> QED BY <1>1, <1>2, <2>1, <3>1, RowStays
  <2> QED BY <2>2, <2>3
<1> QED BY <1>4, <1>7 DEF Traced, PushWritten

LEMMA NextTraced == StoreInv /\ Traced /\ [StoreNext]_storeVars => Traced'
<1> SUFFICES ASSUME StoreInv, Traced, [StoreNext]_storeVars PROVE Traced'
  OBVIOUS
<1>0. engine \in Engines
  BY DEF StoreInv, StoreTypes
<1>1. CASE Intercept BY <1>1, InterceptTraced
<1>2. CASE WritePayload BY <1>2, WritePayloadTraced
<1>3. CASE PushReference BY <1>3, PushReferenceTraced
<1>4. CASE UNCHANGED storeVars
  BY <1>4 DEF storeVars, Traced, PushWritten, RowOK, RefersTo
<1>5. CASE StoreNext /\ ~Intercept /\ ~WritePayload /\ ~PushReference
  <2>1. MessagesStay
    BY <1>5, StoreMessagesStay
  <2>2. UNCHANGED <<rows, payload, rewrites>>
    BY <1>5 DEF StoreNext, PushWhole, PushFails, SwitchSession, Forget, Kill, Boot, StartCycle,
                WriteLeafSummary, LoadCondensed, WriteCondensedSummary, CycleFails
  <2>3. engine'.push = Nothing \/ engine'.push = engine.push
    <3>1. CASE PushWhole \/ Forget \/ WriteLeafSummary
      BY <3>1 DEF PushWhole, Forget, WriteLeafSummary
    <3>2. CASE PushFails \/ SwitchSession \/ StartCycle
      BY <1>0, <3>2 DEF PushFails, SwitchSession, StartCycle, Engines
    <3>3. CASE Kill \/ Boot
      BY <3>3 DEF Kill, Boot, Up
    <3>4. CASE LoadCondensed \/ WriteCondensedSummary \/ CycleFails
      BY <1>0, <3>4 DEF LoadCondensed, WriteCondensedSummary, CycleFails, Engines
    <3> QED BY <1>5, <3>1, <3>2, <3>3, <3>4 DEF StoreNext
  <2> QED BY <2>1, <2>2, <2>3, TracedStays
<1> QED BY <1>1, <1>2, <1>3, <1>4, <1>5

LEMMA StoreReferences ==
  ASSUME StoreInv, Traced
  PROVE  ReferencesKept
<1>1. ASSUME NEW s \in Sessions, NEW p \in Payloads, RefersTo(s, p)
      PROVE  /\ rows[p] \in Sessions /\ RefersTo(rows[p], p)
             /\ payload[p] = "whole" \/ p \in rewrites
  <2>1. rows[p] \in Sessions /\ Nothing \notin Sessions
    BY <1>1, LcmStoreAssumption DEF StoreInv, FilesKept, Kept, RefersTo
  <2> QED BY <2>1 DEF Traced, RowOK
<1>2. ASSUME NEW d \in DOMAIN dag, NEW i \in MessagesUnder(d)
      PROVE  LET p == conv[dag[d].session].messages[i].file IN p # Nothing => p \in dag[d].files
  <2>1. PICK e \in Below(d) : dag[e].depth = 0 /\ i \in dag[e].sources
    BY DEF MessagesUnder
  <2>2. e \in DOMAIN dag /\ dag[e].session = dag[d].session /\ dag[e].files \subseteq dag[d].files
    BY FilesBelow
  <2>3. LeafLinked(e)
    BY <2>1, <2>2 DEF StoreInv, Linked
  <2> QED BY <2>1, <2>2, <2>3 DEF LeafLinked
<1> QED BY <1>1, <1>2 DEF ReferencesKept

-----------------------------------------------------------------------------
(* The list of written files *)

(* Every path of P has a number of its own up to n.  Of a path outside the *)
(* newest k, those with fewer than k later ones: they are k, all later.    *)
LaterThan(P, at, p) == {q \in P : at[q] > at[p]}
Newest(P, at, k) == {p \in P : Cardinality(LaterThan(P, at, p)) < k}

LEMMA LaterFinite ==
  ASSUME NEW P, IsFiniteSet(P), NEW at \in [P -> Nat], NEW p \in P
  PROVE  /\ IsFiniteSet(LaterThan(P, at, p)) /\ Cardinality(LaterThan(P, at, p)) \in Nat
         /\ \A S \in SUBSET LaterThan(P, at, p) :
               IsFiniteSet(S) /\ Cardinality(S) \in Nat
               /\ Cardinality(S) <= Cardinality(LaterThan(P, at, p))
<1>1. IsFiniteSet(LaterThan(P, at, p))
  BY FS_Subset DEF LaterThan
<1>2. \A S \in SUBSET LaterThan(P, at, p) :
         IsFiniteSet(S) /\ Cardinality(S) <= Cardinality(LaterThan(P, at, p))
  BY <1>1, FS_Subset
<1> QED BY <1>1, <1>2, FS_CardinalityType

LEMMA NewestFull ==
  ASSUME NEW P, NEW n \in Nat, NEW at \in [P -> 0..n],
         \A p, q \in P : at[p] = at[q] => p = q,
         NEW k \in Nat \ {0}, NEW x \in P, x \notin Newest(P, at, k)
  PROVE  /\ Cardinality(Newest(P, at, k)) = k
         /\ \A p \in Newest(P, at, k) : at[p] > at[x]
<1> DEFINE N == Newest(P, at, k)
           L(p) == LaterThan(P, at, p)
<1>1. at \in [P -> Nat] /\ \A p \in P : at[p] \in 0..n /\ at[p] \in Nat
  OBVIOUS
<1>2. IsFiniteSet(P) /\ \A p \in P : Cardinality(L(p)) \in Nat /\ IsFiniteSet(L(p))
  <2>1. at \in Injection(P, 0..n)
    BY DEF Injection, IsInjective
  <2>2. IsFiniteSet(0..n)
    BY FS_Interval
  <2>3. IsFiniteSet(P)
    BY <2>1, <2>2, FS_Injection
  <2> QED BY <1>1, <2>3, LaterFinite
<1>3. \A p \in P : p \in N <=> Cardinality(L(p)) < k
  BY DEF Newest
<1>4. N \subseteq P /\ IsFiniteSet(N) /\ Cardinality(N) \in Nat
  <2>1. N \subseteq P
    BY DEF Newest
  <2> HIDE DEF N
  <2> QED BY <1>2, <2>1, FS_Subset, FS_CardinalityType
<1>0. x \notin N
  OBVIOUS
<1> HIDE DEF N
<1>5. \A p \in N : at[p] > at[x]
  <2>1. ASSUME NEW p \in N, ~(at[p] > at[x]) PROVE FALSE
    <3>1. p \in P /\ at[p] <= at[x]
      BY <1>1, <1>4, <2>1
    <3>2. L(x) \in SUBSET L(p)
      BY <1>1, <3>1 DEF LaterThan
    <3>3. Cardinality(L(x)) <= Cardinality(L(p))
      BY <1>1, <1>2, <3>1, <3>2, LaterFinite
    <3> QED BY <1>0, <1>2, <1>3, <3>1, <3>3
  <2> QED BY <2>1
<1>6. N \subseteq L(x)
  BY <1>4, <1>5 DEF LaterThan
<1>7. Cardinality(N) >= k
  <2>1. CASE L(x) \subseteq N
    <3>1. N = L(x)
      BY <1>6, <2>1
    <3> QED BY <1>0, <1>2, <1>3, <3>1
  <2>2. CASE ~(L(x) \subseteq N)
    <3> DEFINE A == {at[q] : q \in L(x) \ N}
    <3>1. A \in SUBSET (0..n) /\ A # {}
      BY <1>1, <2>2 DEF LaterThan
    <3>2. Max(A) \in A /\ \A a \in A : a <= Max(A)
      <4> HIDE DEF A
      <4> QED BY <3>1, MaxFact
    <3>3. PICK y \in L(x) \ N : at[y] = Max(A)
      BY <3>2
    <3>4. y \in P /\ at[y] > at[x] /\ \A q \in L(x) \ N : at[q] <= at[y]
      BY <3>2, <3>3 DEF LaterThan
    <3>5. L(y) \subseteq N
      <4>1. ASSUME NEW q \in L(y) PROVE q \in N
        <5>1. q \in P /\ at[q] > at[y]
          BY DEF LaterThan
        <5>2. q \in L(x)
          BY <1>1, <3>4, <5>1 DEF LaterThan
        <5> QED BY <1>1, <3>4, <5>1, <5>2
      <4> QED BY <4>1
    <3>6. Cardinality(L(y)) <= Cardinality(N)
      BY <1>4, <3>5, FS_Subset
    <3> QED BY <1>2, <1>3, <1>4, <3>3, <3>4, <3>6
  <2> QED BY <2>1, <2>2
<1>8. Cardinality(N) <= k
  <2>1. CASE N = {}
    BY <2>1, FS_EmptySet
  <2>2. CASE N # {}
    <3> DEFINE A == {at[q] : q \in N}
    <3>1. A \in SUBSET Nat /\ A # {}
      BY <1>1, <1>4, <2>2
    <3>2. Min(A) \in A /\ \A a \in A : Min(A) <= a
      <4> HIDE DEF A
      <4> QED BY <3>1, MinFact
    <3>3. PICK y \in N : at[y] = Min(A)
      BY <3>2
    <3>4. y \in P /\ \A q \in N : at[y] <= at[q]
      BY <1>4, <3>2, <3>3
    <3>5. N \subseteq L(y) \cup {y}
      <4>1. ASSUME NEW q \in N, q # y PROVE q \in L(y)
        <5>1. q \in P /\ at[q] # at[y] /\ at[y] <= at[q] /\ at[q] \in Nat /\ at[y] \in Nat
          BY <1>1, <1>4, <3>4, <4>1
        <5> QED BY <5>1 DEF LaterThan
      <4> QED BY <4>1
    <3>6. Cardinality(L(y)) < k /\ Cardinality(L(y)) \in Nat /\ IsFiniteSet(L(y))
      BY <1>2, <1>3, <3>4
    <3>7. y \notin L(y)
      BY <1>1, <3>4 DEF LaterThan
    <3> HIDE DEF L
    <3>8. IsFiniteSet(L(y) \cup {y}) /\ Cardinality(L(y) \cup {y}) = Cardinality(L(y)) + 1
      BY <3>6, <3>7, FS_AddElement
    <3>9. Cardinality(N) <= Cardinality(L(y) \cup {y})
      BY <3>5, <3>8, FS_Subset
    <3> QED BY <1>4, <3>6, <3>8, <3>9
  <2> QED BY <2>1, <2>2
<1>9. Cardinality(N) = k
  BY <1>4, <1>7, <1>8
<1> QED BY <1>5, <1>9 DEF N

(* The last call for a path is one of the calls with that path. *)
LEMMA LastCallFacts ==
  ASSUME NEW c \in Conversations, NEW p \in WrittenPaths(c)
  PROVE  /\ LastCall(c, p) \in WriteCalls(c) /\ c.messages[LastCall(c, p)].path = p
         /\ \A i \in WriteCalls(c) : c.messages[i].path = p => i <= LastCall(c, p)
         /\ LastCall(c, p) \in DOMAIN c.messages
<1> DEFINE I == {i \in WriteCalls(c) : c.messages[i].path = p}
<1>1. DOMAIN c.messages = 1..Len(c.messages) /\ Len(c.messages) \in Nat
  BY ContextFacts
<1>2. WriteCalls(c) \subseteq DOMAIN c.messages
  BY DEF WriteCalls, Since
<1>3. I \in SUBSET (0..Len(c.messages)) /\ I # {}
  BY <1>1, <1>2 DEF WrittenPaths
<1>4. LastCall(c, p) = Max(I)
  BY DEF LastCall
<1>5. Max(I) \in I /\ \A i \in I : i <= Max(I)
  <2> HIDE DEF I
  <2> QED BY <1>1, <1>3, MaxFact
<1> QED BY <1>2, <1>4, <1>5

(* A conversation that has messages has a newest user message. *)
LEMMA NewestUserExists ==
  ASSUME NEW c \in Conversations, Sound(c), c.messages # <<>>
  PROVE  NewestUser(c) # {}
<1> DEFINE U == {i \in DOMAIN c.messages : c.messages[i].role = "user"}
<1>1. DOMAIN c.messages = 1..Len(c.messages) /\ Len(c.messages) \in Nat
      /\ c.messages \in Seq(StoredMessage)
  BY ContextFacts
<1>2. 1 \in U
  BY <1>1 DEF Sound
<1>3. U \in SUBSET (0..Len(c.messages)) /\ U # {}
  BY <1>1, <1>2
<1>4. Max(U) \in U /\ \A i \in U : i <= Max(U)
  <2> HIDE DEF U
  <2> QED BY <1>1, <1>3, MaxFact
<1> QED BY <1>4 DEF NewestUser

LEMMA StoreWrites ==
  ASSUME StoreInv
  PROVE  WritesVisible
<1> SUFFICES ASSUME NEW s \in Sessions, NEW i \in DOMAIN conv[s].messages,
                    conv[s].messages[i].role = "write", i > conv[s].base,
                    \A u \in NewestUser(conv[s]) : u < i,
                    i \notin RawIds(conv[s]), conv[s].messages[i].path \notin Segment(conv[s])
             PROVE  /\ Cardinality(Segment(conv[s])) = ListCap
                    /\ \A p \in Segment(conv[s]) :
                          \E j \in DOMAIN conv[s].messages : j > i /\ conv[s].messages[j].path = p
  BY DEF WritesVisible
<1>1. PICK c \in Conversations : c = conv[s] /\ Sound(c)
  BY DEF StoreInv, StoreTypes, SoundStore
<1>2. /\ DOMAIN c.messages = 1..Len(c.messages) /\ Len(c.messages) \in Nat
      /\ i \in DOMAIN c.messages /\ c.messages[i].role = "write"
      /\ c.messages \in Seq(StoredMessage)
  BY <1>1, ContextFacts
<1>3. SummaryItems(c) # {}
  BY <1>1, <1>2 DEF Sound
<1>4. i \in Since(c) /\ ~(Since(c) \subseteq RawIds(c))
  <2>1. PICK u \in NewestUser(c) : u < i
    BY <1>1, <1>2, NewestUserExists
  <2>2. i > u
    BY <1>2, <2>1 DEF NewestUser
  <2> QED BY <1>1, <1>2, <2>1, <2>2 DEF Since
<1> DEFINE P == WrittenPaths(c)
           x == c.messages[i].path
           at == [p \in P |-> LastCall(c, p)]
<1>5. Segment(c) = {p \in P : Cardinality(WrittenLater(c, p)) < ListCap}
  BY <1>3, <1>4 DEF Segment, WrittenFiles
<1>6. i \in WriteCalls(c) /\ x \in P
  BY <1>2, <1>4 DEF WriteCalls, WrittenPaths
<1>7. /\ at \in [P -> 0..Len(c.messages)]
      /\ \A p \in P : /\ at[p] \in DOMAIN c.messages /\ c.messages[at[p]].path = p
                      /\ \A k \in WriteCalls(c) : c.messages[k].path = p => k <= at[p]
  <2>1. \A p \in P : /\ at[p] \in DOMAIN c.messages /\ c.messages[at[p]].path = p
                     /\ \A k \in WriteCalls(c) : c.messages[k].path = p => k <= at[p]
    BY LastCallFacts
  <2> HIDE DEF P
  <2>2. \A p \in P : LastCall(c, p) \in 0..Len(c.messages)
    BY <1>2, <2>1
  <2> QED BY <2>1, <2>2
<1>8. \A p \in P : WrittenLater(c, p) = LaterThan(P, at, p)
  BY DEF WrittenLater, LaterThan
<1>9. Segment(c) = Newest(P, at, ListCap)
  BY <1>5, <1>8 DEF Newest
<1>10. x \notin Segment(c)
  BY <1>1
<1> HIDE DEF P, at, x
<1>11. /\ Cardinality(Newest(P, at, ListCap)) = ListCap
       /\ \A p \in Newest(P, at, ListCap) : at[p] > at[x]
  <2>1. \A p, q \in P : at[p] = at[q] => p = q
    BY <1>7
  <2> QED BY <1>2, <1>6, <1>7, <1>9, <1>10, <2>1, NewestFull, LcmStoreAssumption
<1>12. i <= at[x]
  BY <1>6, <1>7 DEF x
<1>13. ASSUME NEW p \in Segment(c)
       PROVE  \E j \in DOMAIN c.messages : j > i /\ c.messages[j].path = p
  <2>1. p \in P /\ at[p] > at[x]
    BY <1>9, <1>11, <1>13 DEF Newest
  <2>2. at[p] \in DOMAIN c.messages /\ at[x] \in DOMAIN c.messages /\ c.messages[at[p]].path = p
    BY <1>6, <1>7, <2>1
  <2> QED BY <1>2, <1>12, <2>1, <2>2
<1> QED BY <1>1, <1>9, <1>11, <1>13

(* The tables, the files and the engine have the shapes that the module's  *)
(* comments describe, in every state: engine.rs with its schema.           *)
THEOREM StoreTypesAlways == StoreSpec => []StoreTypes
<1>1. StoreInv => StoreTypes
  BY DEF StoreInv
<1> QED BY <1>1, StoreInvariance, PTL

(* A reference has its metadata, the row of a session whose own messages   *)
(* refer to the payload, and a whole file unless the payload was pushed    *)
(* again and that write is unfinished; and a summary lists the files of    *)
(* everything below it: for any sessions, payloads, clears and faults      *)
(* (intercept_large, push_message_sync, write_leaf_summary,                *)
(* write_condensed_summary).                                               *)
THEOREM ReferencesKeptAlways == StoreSpec => []ReferencesKept
<1>1. StoreInit => Traced
  BY DEF StoreInit, Up, Traced, PushWritten, RowOK
<1>2. StoreInv /\ Traced /\ [StoreNext]_storeVars => Traced'
  BY NextTraced
<1>3. StoreInv /\ Traced => ReferencesKept
  BY StoreReferences
<1> QED BY <1>1, <1>2, <1>3, StoreInvariance, PTL DEF StoreSpec

(* A file written for the current request is raw in the context or listed, *)
(* unless the list is full of later ones, for any cap, paths and length of *)
(* the conversation: written_files_segment in assemble_sync.               *)
THEOREM WritesVisibleAlways == StoreSpec => []WritesVisible
<1>1. StoreInv => WritesVisible
  BY StoreWrites
<1> QED BY <1>1, StoreInvariance, PTL

-----------------------------------------------------------------------------
(* Iteration: what lcm_expand and the levels of its promise are made of    *)

(* Whatever holds at 0 and is kept by every step up to N holds up to N. *)
LEMMA UpTo ==
  ASSUME NEW N \in Nat, NEW A, 0 \in A, \A n \in 1..N : n - 1 \in A => n \in A
  PROVE  0..N \subseteq A
<1> DEFINE B == {n \in 0..N : n \notin A}
<1>1. SUFFICES ASSUME B # {} PROVE FALSE
  OBVIOUS
<1>2. B \in SUBSET Nat
  OBVIOUS
<1>3. PICK m \in B : \A n \in B : m <= n
  <2> HIDE DEF B
  <2> QED BY <1>1, <1>2, NatLeast
<1>4. m \in 1..N /\ m - 1 \in 0..N /\ m - 1 < m
  BY <1>3
<1>5. m - 1 \in A
  BY <1>3, <1>4
<1> QED BY <1>3, <1>4, <1>5

(* A function from a set to itself has iterates. *)
Iterates(f, S, x, g, N) ==
    f \in [0..N -> S] /\ f[0] = x /\ \A n \in 1..N : f[n] = g[f[n - 1]]

LEMMA IteratesExist ==
  ASSUME NEW S, NEW x \in S, NEW g \in [S -> S], NEW N \in Nat
  PROVE  \E f : Iterates(f, S, x, g, N)
<1> DEFINE A == {n \in 0..N : \E f : Iterates(f, S, x, g, n)}
<1>1. 0 \in A
  <2> DEFINE f == [i \in 0..0 |-> x]
  <2>1. Iterates(f, S, x, g, 0)
    BY DEF Iterates
  <2> HIDE DEF f
  <2> QED BY <2>1
<1>2. ASSUME NEW n \in 1..N, n - 1 \in A PROVE n \in A
  <2>1. PICK f : Iterates(f, S, x, g, n - 1)
    BY <1>2
  <2> DEFINE h == [i \in 0..n |-> IF i = n THEN g[f[n - 1]] ELSE f[i]]
  <2>2. f[n - 1] \in S /\ g[f[n - 1]] \in S
    BY <2>1 DEF Iterates
  <2>3. h \in [0..n -> S] /\ h[n] = g[f[n - 1]]
    BY <2>1, <2>2 DEF Iterates
  <2>4. \A i \in 0..(n - 1) : h[i] = f[i]
    OBVIOUS
  <2> HIDE DEF h
  <2>5. \A i \in 1..n : h[i] = g[h[i - 1]]
    <3>1. TAKE i \in 1..n
    <3>2. CASE i = n
      BY <2>3, <2>4, <3>2
    <3>3. CASE i \in 1..(n - 1)
      BY <2>1, <2>4, <3>3 DEF Iterates
    <3> QED BY <3>2, <3>3
  <2>6. Iterates(h, S, x, g, n)
    BY <2>1, <2>3, <2>4, <2>5 DEF Iterates
  <2> QED BY <2>6
<1> HIDE DEF A
<1>3. N \in A
  BY <1>1, <1>2, UpTo
<1> QED BY <1>3 DEF A

-----------------------------------------------------------------------------
(* The levels below a summary *)

LEMMA SourcesStored ==
  ASSUME StoreInv, NEW S \in SUBSET DOMAIN dag
  PROVE  WithSources(S) \in SUBSET DOMAIN dag
<1>1. \A k \in DOMAIN dag : dag[k].depth > 0 => dag[k].sources \subseteq DOMAIN dag
  BY DEF StoreInv, Linked, CondensedLinked, Owned
<1> QED BY <1>1 DEF WithSources

(* However many levels are asked for, the first ones are the same. *)
Reached(f, s, N) ==
    /\ f[0] = {s}
    /\ \A n \in 1..N : f[n] = WithSources(f[n - 1])
    /\ \A n \in 0..N : f[n] \in SUBSET DOMAIN dag /\ Within(s, n) = f[n]

LEMMA WithinReached ==
  ASSUME StoreInv, NEW s \in DOMAIN dag, NEW N \in Nat
  PROVE  \E f : Reached(f, s, N)
<1> DEFINE S == SUBSET DOMAIN dag
           g == [T \in S |-> WithSources(T)]
           x == {s}
<1>1. g \in [S -> S] /\ x \in S
  BY SourcesStored
<1>2. PICK f : Iterates(f, S, x, g, N)
  <2> HIDE DEF S, g, x
  <2> QED BY <1>1, IteratesExist
<1>3. f \in [0..N -> S] /\ f[0] = x /\ \A n \in 1..N : f[n] = WithSources(f[n - 1])
  <2>1. f \in [0..N -> S] /\ f[0] = x /\ \A n \in 1..N : f[n] = g[f[n - 1]]
    BY <1>2 DEF Iterates
  <2> HIDE DEF S
  <2>2. \A n \in 1..N : f[n - 1] \in S
    BY <2>1
  <2> QED BY <2>1, <2>2 DEF S
<1> HIDE DEF x
<1>4. ASSUME NEW n \in 0..N PROVE Within(s, n) = f[n]
  <2> DEFINE Is(h) == h = [i \in 0..n |-> IF i = 0 THEN x ELSE WithSources(h[i - 1])]
             reached == CHOOSE h : Is(h)
             k == [i \in 0..n |-> f[i]]
             A == {i \in 0..n : reached[i] = f[i]}
  <2>1. \A i \in 0..n : k[i] = IF i = 0 THEN x ELSE WithSources(k[i - 1])
    <3>1. TAKE i \in 0..n
    <3>2. i \in 0..N /\ (i # 0 => i \in 1..N /\ i - 1 \in 0..n)
      OBVIOUS
    <3>3. k[i] = f[i] /\ (i # 0 => k[i - 1] = f[i - 1])
      BY <3>2
    <3> HIDE DEF k
    <3> QED BY <1>3, <3>2, <3>3
  <2>2. Is(k)
    BY <2>1
  <2>3. Is(reached)
    <3> HIDE DEF Is, k
    <3> QED BY <2>2
  <2>4. reached = CHOOSE h : Is(h)
    OBVIOUS
  <2> HIDE DEF reached
  <2>5. \A i \in 0..n : reached[i] = IF i = 0 THEN x ELSE WithSources(reached[i - 1])
    BY <2>3
  <2>6. 0 \in A
    BY <1>3, <2>5
  <2>7. ASSUME NEW i \in 1..n, i - 1 \in A PROVE i \in A
    <3>1. reached[i] = WithSources(reached[i - 1])
      BY <2>5
    <3>2. f[i] = WithSources(f[i - 1]) /\ i \in 0..n
      BY <1>3
    <3> QED BY <2>7, <3>1, <3>2
  <2>8. n \in A
    <3> HIDE DEF A
    <3> QED BY <2>6, <2>7, UpTo
  <2>9. Within(s, n) = reached[n]
    BY <2>4 DEF Within, x
  <2> QED BY <2>8, <2>9
<1>5. \A n \in 0..N : f[n] \in SUBSET DOMAIN dag
  BY <1>3
<1> QED BY <1>3, <1>4, <1>5 DEF Reached, x

LEMMA WithinFacts ==
  ASSUME StoreInv, NEW s \in DOMAIN dag
  PROVE  /\ Within(s, 0) = {s}
         /\ \A n \in Nat : /\ Within(s, n) \in SUBSET DOMAIN dag
                           /\ Within(s, n + 1) = WithSources(Within(s, n))
<1>1. Within(s, 0) = {s}
  <2>1. PICK f : Reached(f, s, 0)
    BY WithinReached
  <2> QED BY <2>1 DEF Reached
<1>2. ASSUME NEW n \in Nat
      PROVE  /\ Within(s, n) \in SUBSET DOMAIN dag
             /\ Within(s, n + 1) = WithSources(Within(s, n))
  <2>1. n + 1 \in 1..(n + 1) /\ n \in 0..(n + 1) /\ n + 1 \in 0..(n + 1) /\ (n + 1) - 1 = n
        /\ n + 1 \in Nat
    OBVIOUS
  <2>2. PICK f : Reached(f, s, n + 1)
    BY <2>1, WithinReached
  <2>3. f[n + 1] = WithSources(f[n])
    BY <2>1, <2>2 DEF Reached
  <2>4. Within(s, n) = f[n] /\ Within(s, n + 1) = f[n + 1] /\ f[n] \in SUBSET DOMAIN dag
    BY <2>1, <2>2 DEF Reached
  <2> QED BY <2>3, <2>4
<1> QED BY <1>1, <1>2

LEMMA WithinGrows ==
  ASSUME StoreInv, NEW s \in DOMAIN dag, NEW n \in Nat, NEW m \in 0..n
  PROVE  Within(s, m) \subseteq Within(s, n)
<1> DEFINE A == {i \in 0..(n - m) : Within(s, m) \subseteq Within(s, m + i)}
<1>1. 0 \in A
  OBVIOUS
<1>2. ASSUME NEW i \in 1..(n - m), i - 1 \in A PROVE i \in A
  <2>1. m + (i - 1) \in Nat /\ (m + (i - 1)) + 1 = m + i
    OBVIOUS
  <2>2. Within(s, m + (i - 1)) \subseteq Within(s, m + i)
    BY <2>1, WithinFacts DEF WithSources
  <2> QED BY <1>2, <2>2
<1> HIDE DEF A
<1>3. n - m \in A
  BY <1>1, <1>2, UpTo
<1>4. m + (n - m) = n
  OBVIOUS
<1> QED BY <1>3, <1>4 DEF A

LevelOf(s, k) == dag[s].depth - dag[k].depth

(* A summary is reached at one level only: by how much it is less deep. *)
LEMMA WithinLevels ==
  ASSUME StoreInv, NEW s \in DOMAIN dag, NEW N \in Nat, NEW k \in Within(s, N)
  PROVE  LevelOf(s, k) \in 0..N /\ k \in Within(s, LevelOf(s, k))
<1> DEFINE At(j, n) == LevelOf(s, j) \in 0..n /\ j \in Within(s, LevelOf(s, j))
           A == {n \in 0..N : \A j \in Within(s, n) : At(j, n)}
<1>1. 0 \in A
  <2>1. Within(s, 0) = {s}
    BY WithinFacts
  <2>2. LevelOf(s, s) = 0
    BY SummariesTyped DEF StoreInv, LevelOf
  <2>3. At(s, 0)
    BY <2>1, <2>2
  <2> HIDE DEF At
  <2> QED BY <2>1, <2>3
<1>2. ASSUME NEW n \in 1..N, n - 1 \in A PROVE n \in A
  <2>1. n - 1 \in Nat /\ (n - 1) + 1 = n
    OBVIOUS
  <2>2. Within(s, n) = WithSources(Within(s, n - 1))
    BY <2>1, WithinFacts
  <2>3. ASSUME NEW p \in Within(s, n - 1), dag[p].depth > 0, NEW j \in dag[p].sources
        PROVE  At(j, n)
    <3>1. p \in DOMAIN dag
      BY <2>1, <2>3, WithinFacts
    <3>2. CondensedLinked(p)
      BY <2>3, <3>1 DEF StoreInv, Linked
    <3>3. j \in DOMAIN dag /\ dag[j].depth + 1 = dag[p].depth
      BY <2>3, <3>2 DEF CondensedLinked, Owned, LevelBelow
    <3>4. dag[s].depth \in Nat /\ dag[p].depth \in Nat /\ dag[j].depth \in Nat
      BY <3>1, <3>3, SummariesTyped DEF StoreInv
    <3>5. At(p, n - 1)
      BY <1>2, <2>3
    <3>6. LevelOf(s, j) = LevelOf(s, p) + 1
      BY <3>3, <3>4 DEF LevelOf
    <3>7. PICK l \in 0..(n - 1) : l = LevelOf(s, p)
      BY <3>5
    <3>8. Within(s, l + 1) = WithSources(Within(s, l)) /\ l + 1 \in 0..n
      BY WithinFacts
    <3>9. p \in Within(s, l)
      BY <3>5, <3>7
    <3>10. j \in Within(s, l + 1)
      BY <2>3, <3>8, <3>9 DEF WithSources
    <3> QED BY <3>6, <3>7, <3>8, <3>10
  <2>4. ASSUME NEW j \in Within(s, n - 1) PROVE At(j, n)
    <3>1. At(j, n - 1)
      BY <1>2, <2>4
    <3> QED BY <2>1, <3>1
  <2> HIDE DEF At
  <2>5. \A j \in Within(s, n) : At(j, n)
    BY <2>2, <2>3, <2>4 DEF WithSources
  <2> QED BY <2>5
<1> HIDE DEF A
<1>3. N \in A
  BY <1>1, <1>2, UpTo
<1> QED BY <1>3 DEF A

-----------------------------------------------------------------------------
(* The walk of lcm_expand *)

WalkNodes == [id : DOMAIN dag, level : Nat]
Walks == [frontier : Seq(WalkNodes), seen : SUBSET DOMAIN dag, rows : SUBSET (Sessions \X Nat),
          summaries : SUBSET DOMAIN dag, messages : SUBSET (Sessions \X Nat),
          payloads : SUBSET Payloads, used : Nat, cut : BOOLEAN]

Waiting(w) == {w.frontier[i].id : i \in DOMAIN w.frontier}
MessagesOf(k) == {dag[k].session} \X dag[k].sources
FileOf(m) == conv[m[1]].messages[m[2]].file
FilesOf(M) == {FileOf(m) : m \in M} \ {Nothing}
Opened(s, depth, include_messages) ==
    {k \in Within(s, depth - 1) : include_messages /\ dag[k].depth = 0}
Recoverable(s, depth, include_messages) ==
    UNION {MessagesOf(k) : k \in Opened(s, depth, include_messages)}

(* A set of summaries, or of anything finite, as a sequence. *)
LEMMA SequenceOfSet ==
  ASSUME NEW S, IsFiniteSet(S)
  PROVE  /\ SetToSeq(S) \in Seq(S)
         /\ \A i \in DOMAIN SetToSeq(S) : SetToSeq(S)[i] \in S
         /\ \A t \in S : \E i \in DOMAIN SetToSeq(S) : SetToSeq(S)[i] = t
<1> DEFINE n == Cardinality(S)
<1>1. n \in Nat /\ ExistsBijection(1..n, S)
  BY FS_CardinalityType
<1>2. \E f \in [1..n -> S] : IsInjective(f)
  BY <1>1 DEF ExistsBijection, Bijection, Injection
<1>3. SetToSeq(S) \in [1..n -> S] /\ IsInjective(SetToSeq(S))
  BY <1>2 DEF SetToSeq
<1> DEFINE q == SetToSeq(S)
<1> HIDE DEF q
<1>4. q \in Injection(1..n, S)
  BY <1>3 DEF Injection, q
<1>5. IsFiniteSet(1..n) /\ Cardinality(1..n) = n
  BY <1>1, FS_Interval
<1>6. q \in Surjection(1..n, S)
  <2> HIDE DEF n
  <2>1. Cardinality(1..n) = Cardinality(S)
    BY <1>5 DEF n
  <2> QED BY <1>4, <1>5, <2>1, FS_Injection
<1>7. q \in Seq(S) /\ DOMAIN q = 1..n
  BY <1>1, <1>3 DEF q
<1>8. \A t \in S : \E i \in 1..n : q[i] = t
  BY <1>6 DEF Surjection
<1> QED BY <1>3, <1>7, <1>8 DEF q

NodesAt(C, l) == {[id |-> k, level |-> l] : k \in C}
ListedAt(q, C, l) ==
    /\ q \in Seq(WalkNodes)
    /\ \A i \in DOMAIN q : q[i].level = l /\ q[i].id \in C
    /\ \A k \in C : \E i \in DOMAIN q : q[i].id = k

LEMMA ChildrenListed ==
  ASSUME StoreTypes, NEW C \in SUBSET DOMAIN dag, NEW l \in Nat,
         NEW q, q = SetToSeq(NodesAt(C, l))
  PROVE  ListedAt(q, C, l)
<1> DEFINE B == {[id |-> k, level |-> l] : k \in C}
<1>1. IsFiniteSet(DOMAIN dag)
  <2>1. DOMAIN dag = 1..Len(dag) /\ Len(dag) \in Nat
    BY SummariesTyped
  <2> QED BY <2>1, FS_Interval
<1>2. B \subseteq WalkNodes /\ \A n \in B : n.level = l /\ n.id \in C
  BY DEF WalkNodes
<1>3. \A n, m \in B : n.id = m.id => n = m
  OBVIOUS
<1>4. ASSUME NEW k \in C PROVE \E n \in B : n.id = k
  <2> WITNESS [id |-> k, level |-> l] \in B
  <2> QED OBVIOUS
<1>0. q = SetToSeq(B)
  BY DEF NodesAt
<1> HIDE DEF B
<1>5. IsFiniteSet(B)
  <2> DEFINE f == [n \in B |-> n.id]
  <2>1. f \in Injection(B, DOMAIN dag)
    BY <1>2, <1>3 DEF Injection, IsInjective
  <2> HIDE DEF f
  <2> QED BY <1>1, <2>1, FS_Injection
<1>6. /\ q \in Seq(B) /\ \A i \in DOMAIN q : q[i] \in B
      /\ \A n \in B : \E i \in DOMAIN q : q[i] = n
  BY <1>0, <1>5, SequenceOfSet
<1>7. q \in Seq(WalkNodes)
  BY <1>2, <1>6
<1>8. ASSUME NEW k \in C PROVE \E i \in DOMAIN q : q[i].id = k
  <2>1. PICK n \in B : n.id = k
    BY <1>4
  <2>2. PICK i \in DOMAIN q : q[i] = n
    BY <1>6
  <2> QED BY <2>1, <2>2
<1> QED BY <1>2, <1>6, <1>7, <1>8 DEF ListedAt

(* The last node is taken off the frontier, others are put on it.          *)
LEMMA Popped ==
  ASSUME NEW f \in Seq(WalkNodes), f # <<>>
  PROVE  /\ Front(f) \in Seq(WalkNodes) /\ Last(f) \in WalkNodes
         /\ \A i \in DOMAIN Front(f) : i \in DOMAIN f /\ Front(f)[i] = f[i]
         /\ \A i \in DOMAIN f : i \in DOMAIN Front(f) \/ f[i] = Last(f)
         /\ \E i \in DOMAIN f : f[i] = Last(f)
<1>1. Len(f) \in Nat \ {0} /\ DOMAIN f = 1..Len(f) /\ \A i \in 1..Len(f) : f[i] \in WalkNodes
  OBVIOUS
<1> DEFINE n == Len(f) - 1
           h == SubSeq(f, 1, n)
<1>2. n \in Nat /\ \A i \in 1..n : f[i] \in WalkNodes
  BY <1>1
<1>3. h \in Seq(WalkNodes) /\ Len(h) = n /\ \A i \in 1..n : h[i] = f[i]
  <2> HIDE DEF n
  <2>1. 1 \in Int /\ n \in Int
    BY <1>2
  <2>2. /\ h \in Seq(WalkNodes) /\ Len(h) = IF 1 <= n THEN n - 1 + 1 ELSE 0
        /\ \A i \in 1..(n - 1 + 1) : h[i] = f[1 + i - 1]
    BY <1>2, <2>1, SubSeqProperties
  <2> QED BY <1>2, <2>2
<1>4. Front(f) = h /\ Last(f) = f[Len(f)]
  BY DEF Front, Last
<1> HIDE DEF h
<1> QED BY <1>1, <1>3, <1>4

LEMMA PushedOn ==
  ASSUME NEW f \in Seq(WalkNodes), NEW q \in Seq(WalkNodes)
  PROVE  /\ f \o q \in Seq(WalkNodes)
         /\ \A i \in DOMAIN (f \o q) : \/ i \in DOMAIN f /\ (f \o q)[i] = f[i]
                                       \/ \E j \in DOMAIN q : (f \o q)[i] = q[j]
         /\ \A i \in DOMAIN f : i \in DOMAIN (f \o q) /\ (f \o q)[i] = f[i]
         /\ \A j \in DOMAIN q : \E i \in DOMAIN (f \o q) : (f \o q)[i] = q[j]
<1> DEFINE h == f \o q
<1>1. /\ h \in Seq(WalkNodes) /\ Len(h) = Len(f) + Len(q)
      /\ \A i \in 1..(Len(f) + Len(q)) : h[i] = IF i <= Len(f) THEN f[i] ELSE q[i - Len(f)]
  BY ConcatProperties
<1>2. /\ Len(f) \in Nat /\ Len(q) \in Nat /\ DOMAIN f = 1..Len(f) /\ DOMAIN q = 1..Len(q)
      /\ DOMAIN h = 1..(Len(f) + Len(q))
  BY <1>1
<1> HIDE DEF h
<1>3. ASSUME NEW i \in DOMAIN h
      PROVE  (i \in DOMAIN f /\ h[i] = f[i]) \/ \E j \in DOMAIN q : h[i] = q[j]
  <2>1. CASE i <= Len(f)
    BY <1>1, <1>2, <2>1
  <2>2. CASE ~(i <= Len(f))
    <3>1. i - Len(f) \in DOMAIN q /\ h[i] = q[i - Len(f)]
      BY <1>1, <1>2, <2>2
    <3> QED BY <3>1
  <2> QED BY <2>1, <2>2
<1>4. \A i \in DOMAIN f : i \in DOMAIN h /\ h[i] = f[i]
  BY <1>1, <1>2
<1>5. ASSUME NEW j \in DOMAIN q PROVE \E i \in DOMAIN h : h[i] = q[j]
  <2>1. j + Len(f) \in DOMAIN h /\ ~(j + Len(f) <= Len(f)) /\ (j + Len(f)) - Len(f) = j
    BY <1>2
  <2>2. h[j + Len(f)] = q[j]
    BY <1>1, <1>2, <2>1
  <2> QED BY <2>1, <2>2
<1> QED BY <1>1, <1>3, <1>4, <1>5 DEF h

Asked(s, depth, cap, include_messages) ==
    s \in DOMAIN dag /\ depth \in Nat \ {0} /\ cap \in Nat /\ include_messages \in BOOLEAN

(* What was ever on the frontier lies within the levels asked for, each at *)
(* its own, and is shown or still there.                                   *)
Trodden(w, s, depth) ==
    /\ s \in w.seen /\ w.seen \subseteq Within(s, depth)
    /\ \A i \in DOMAIN w.frontier : /\ w.frontier[i].id \in w.seen
                                    /\ w.frontier[i].level = LevelOf(s, w.frontier[i].id)
    /\ w.summaries \subseteq w.seen
    /\ \A k \in w.seen : k \in w.summaries \/ \E i \in DOMAIN w.frontier : w.frontier[i].id = k

(* What is shown above the last level has been opened. *)
Followed(w, s, depth, include_messages) ==
    \A k \in w.summaries : LevelOf(s, k) < depth =>
        /\ dag[k].depth > 0 => dag[k].sources \subseteq w.seen
        /\ dag[k].depth = 0 /\ include_messages => MessagesOf(k) \subseteq w.messages \cup w.rows

Drawn(w, s, depth, include_messages) ==
    /\ w.rows \subseteq Recoverable(s, depth, include_messages)
    /\ w.messages \subseteq Recoverable(s, depth, include_messages)

Attached(w) ==
    /\ w.payloads \subseteq FilesOf(w.messages)
    /\ w.cut \/ FilesOf(w.messages) \subseteq w.payloads

WalkInv(w, s, depth, cap, include_messages) ==
    /\ w \in Walks
    /\ Trodden(w, s, depth)
    /\ Followed(w, s, depth, include_messages)
    /\ Drawn(w, s, depth, include_messages)
    /\ Attached(w)
    /\ w.used <= cap

LEMMA WalkFields ==
  ASSUME NEW w \in Walks
  PROVE  /\ w.frontier \in Seq(WalkNodes) /\ w.seen \in SUBSET DOMAIN dag
         /\ w.rows \in SUBSET (Sessions \X Nat) /\ w.summaries \in SUBSET DOMAIN dag
         /\ w.messages \in SUBSET (Sessions \X Nat) /\ w.payloads \in SUBSET Payloads
         /\ w.used \in Nat /\ w.cut \in BOOLEAN
         /\ w = [frontier |-> w.frontier, seen |-> w.seen, rows |-> w.rows,
                 summaries |-> w.summaries, messages |-> w.messages,
                 payloads |-> w.payloads, used |-> w.used, cut |-> w.cut]
BY DEF Walks

LEMMA TruncatedFields ==
  ASSUME NEW w \in Walks, NEW v, v = Truncated(w)
  PROVE  /\ v \in Walks /\ v.frontier = w.frontier /\ v.seen = w.seen /\ v.rows = w.rows
         /\ v.summaries = w.summaries /\ v.messages = w.messages
         /\ v.payloads = w.payloads /\ v.used = w.used /\ v.cut = TRUE
BY DEF Walks, Truncated

(* The walk after a file, a message, a summary was shown. *)
WithFile(w, p) == [w EXCEPT !.payloads = @ \cup {p}, !.used = @ + Whole]
WithMessage(w, m) == [w EXCEPT !.rows = @ \ {m}, !.messages = @ \cup {m}, !.used = @ + Text]
WithSummary(w, k) == [w EXCEPT !.frontier = Front(@), !.summaries = @ \cup {k}, !.used = @ + Text]

LEMMA PayloadFields ==
  ASSUME NEW w \in Walks, NEW p \in Payloads, NEW v, v = WithFile(w, p)
  PROVE  /\ v \in Walks /\ v.frontier = w.frontier /\ v.seen = w.seen /\ v.rows = w.rows
         /\ v.summaries = w.summaries /\ v.messages = w.messages
         /\ v.payloads = w.payloads \cup {p} /\ v.used = w.used + 2 /\ v.cut = w.cut
<1> DEFINE P == w.payloads \cup {p}
           u == w.used + 2
<1>1. v = [w EXCEPT !.payloads = P, !.used = u]
  BY DEF Whole, WithFile
<1>2. P \in SUBSET Payloads /\ u \in Nat
  BY WalkFields
<1>3. w \in Walks
  OBVIOUS
<1> HIDE DEF P, u
<1>4. /\ v \in Walks /\ v.frontier = w.frontier /\ v.seen = w.seen /\ v.rows = w.rows
      /\ v.summaries = w.summaries /\ v.messages = w.messages
      /\ v.payloads = P /\ v.used = u /\ v.cut = w.cut
  BY <1>1, <1>2, <1>3 DEF Walks
<1> QED BY <1>4 DEF P, u

LEMMA MessageFields ==
  ASSUME NEW w \in Walks, NEW m \in w.rows, NEW v, v = WithMessage(w, m)
  PROVE  /\ v \in Walks /\ v.frontier = w.frontier /\ v.seen = w.seen /\ v.rows = w.rows \ {m}
         /\ v.summaries = w.summaries /\ v.messages = w.messages \cup {m}
         /\ v.payloads = w.payloads /\ v.used = w.used + 1 /\ v.cut = w.cut
<1> DEFINE R == w.rows \ {m}
           M == w.messages \cup {m}
           u == w.used + 1
<1>1. v = [w EXCEPT !.rows = R, !.messages = M, !.used = u]
  BY DEF Text, WithMessage
<1>2. R \in SUBSET (Sessions \X Nat) /\ M \in SUBSET (Sessions \X Nat) /\ u \in Nat
  BY WalkFields
<1>3. w \in Walks
  OBVIOUS
<1> HIDE DEF R, M, u
<1>4. /\ v \in Walks /\ v.frontier = w.frontier /\ v.seen = w.seen /\ v.rows = R
      /\ v.summaries = w.summaries /\ v.messages = M
      /\ v.payloads = w.payloads /\ v.used = u /\ v.cut = w.cut
  BY <1>1, <1>2, <1>3 DEF Walks
<1> QED BY <1>4 DEF R, M, u

LEMMA ShownFields ==
  ASSUME NEW w \in Walks, w.frontier # <<>>, NEW k \in DOMAIN dag,
         NEW v, v = WithSummary(w, k)
  PROVE  /\ v \in Walks /\ v.frontier = Front(w.frontier) /\ v.seen = w.seen /\ v.rows = w.rows
         /\ v.summaries = w.summaries \cup {k} /\ v.messages = w.messages
         /\ v.payloads = w.payloads /\ v.used = w.used + 1 /\ v.cut = w.cut
<1>1. w.frontier \in Seq(WalkNodes)
  BY WalkFields
<1>2. Front(w.frontier) \in Seq(WalkNodes)
  BY <1>1, Popped
<1> DEFINE f == Front(w.frontier)
           K == w.summaries \cup {k}
           u == w.used + 1
<1>3. v = [w EXCEPT !.frontier = f, !.summaries = K, !.used = u]
  BY DEF Text, WithSummary
<1>4. f \in Seq(WalkNodes) /\ K \in SUBSET DOMAIN dag /\ u \in Nat
  BY <1>2, WalkFields
<1>5. w \in Walks
  OBVIOUS
<1> HIDE DEF f, K, u
<1>6. /\ v \in Walks /\ v.frontier = f /\ v.seen = w.seen /\ v.rows = w.rows
      /\ v.summaries = K /\ v.messages = w.messages
      /\ v.payloads = w.payloads /\ v.used = u /\ v.cut = w.cut
  BY <1>3, <1>4, <1>5 DEF Walks
<1> QED BY <1>6 DEF f, K, u

WithRows(w, R) == [w EXCEPT !.rows = R]
WithNodes(w, C, q) == [w EXCEPT !.seen = @ \cup C, !.frontier = @ \o q]

LEMMA RowsFields ==
  ASSUME NEW w \in Walks, NEW R \in SUBSET (Sessions \X Nat), NEW v, v = WithRows(w, R)
  PROVE  /\ v \in Walks /\ v.frontier = w.frontier /\ v.seen = w.seen /\ v.rows = R
         /\ v.summaries = w.summaries /\ v.messages = w.messages
         /\ v.payloads = w.payloads /\ v.used = w.used /\ v.cut = w.cut
BY DEF Walks, WithRows

(* The children are on the frontier. *)
Deepened(v, w, C, q) ==
    /\ v \in Walks /\ v.frontier = w.frontier \o q /\ v.seen = w.seen \cup C
    /\ v.rows = w.rows /\ v.summaries = w.summaries /\ v.messages = w.messages
    /\ v.payloads = w.payloads /\ v.used = w.used /\ v.cut = w.cut

LEMMA DeeperFields ==
  ASSUME NEW w \in Walks, NEW C \in SUBSET DOMAIN dag, NEW q \in Seq(WalkNodes), NEW v,
         v = WithNodes(w, C, q)
  PROVE  Deepened(v, w, C, q)
<1>1. w.frontier \o q \in Seq(WalkNodes)
  BY WalkFields, PushedOn
<1> QED BY <1>1 DEF Walks, WithNodes, Deepened

LEMMA TruncatedSound ==
  ASSUME NEW s, NEW depth, NEW cap, NEW include_messages, NEW w,
         WalkInv(w, s, depth, cap, include_messages), NEW v, v = Truncated(w)
  PROVE  WalkInv(v, s, depth, cap, include_messages) /\ v.cut
<1>1. /\ v \in Walks /\ v.frontier = w.frontier /\ v.seen = w.seen /\ v.rows = w.rows
      /\ v.summaries = w.summaries /\ v.messages = w.messages
      /\ v.payloads = w.payloads /\ v.used = w.used /\ v.cut = TRUE
  BY TruncatedFields DEF WalkInv
<1> QED BY <1>1 DEF WalkInv, Trodden, Followed, Drawn, Attached

(* What the levels hold of stored messages, and of files. *)
LEMMA RecoverableStored ==
  ASSUME StoreInv, NEW s, NEW depth, NEW cap, NEW include_messages,
         Asked(s, depth, cap, include_messages),
         NEW m \in Recoverable(s, depth, include_messages)
  PROVE  /\ m \in Sessions \X Nat
         /\ FileOf(m) # Nothing => FileOf(m) \in Payloads /\ payload[FileOf(m)] # "absent"
<1>1. PICK k \in Opened(s, depth, include_messages) : m \in MessagesOf(k)
  BY DEF Recoverable
<1>2. k \in DOMAIN dag /\ dag[k].depth = 0
  <2>1. depth - 1 \in Nat /\ s \in DOMAIN dag
    BY DEF Asked
  <2> QED BY <1>1, <2>1, WithinFacts DEF Opened
<1>3. PICK r \in Sessions, i \in Nat : m = <<r, i>> /\ r = dag[k].session /\ i \in dag[k].sources
  BY <1>1, <1>2, SummariesTyped DEF StoreInv, MessagesOf
<1>4. LeafLinked(k)
  BY <1>2 DEF StoreInv, Linked
<1>5. i \in DOMAIN conv[r].messages
  BY <1>3, <1>4 DEF LeafLinked
<1>6. FileOf(m) = conv[r].messages[i].file
  BY <1>3 DEF FileOf
<1>7. Kept(conv[r].messages[i].file)
  BY <1>3, <1>5 DEF StoreInv, FilesKept
<1>8. conv[r].messages[i].file \in Payloads \cup {Nothing}
  <2>1. conv[r] \in Conversations
    BY <1>3 DEF StoreInv, StoreTypes
  <2> QED BY <1>5, <2>1, ContextFacts, MessageFacts
<1> QED BY <1>3, <1>6, <1>7, <1>8 DEF Kept

LEMMA AppendMessageSound ==
  ASSUME StoreInv, NEW s, NEW depth, NEW cap, NEW include_messages,
         Asked(s, depth, cap, include_messages), NEW w,
         WalkInv(w, s, depth, cap, include_messages), ~w.cut, w.rows # {},
         NEW v, v = AppendMessage(w, cap)
  PROVE  /\ WalkInv(v, s, depth, cap, include_messages)
         /\ v.cut \/ v.used >= w.used + 1
<1>1. w \in Walks /\ w.used \in Nat /\ cap \in Nat /\ w.rows \in SUBSET (Sessions \X Nat)
  BY WalkFields DEF WalkInv, Asked
<1> DEFINE m == CHOOSE r \in w.rows : \A q \in w.rows : r[2] <= q[2]
           shown == WithMessage(w, m)
<1>2. m \in w.rows
  <2> DEFINE N == {r[2] : r \in w.rows}
  <2>1. N \in SUBSET Nat /\ N # {}
    BY <1>1
  <2>2. PICK n \in N : \A q \in N : n <= q
    <3> HIDE DEF N
    <3> QED BY <2>1, NatLeast
  <2>3. \E r \in w.rows : \A q \in w.rows : r[2] <= q[2]
    BY <2>2
  <2> QED BY <2>3
<1>3. v = IF w.used + Text + Heading > cap THEN Truncated(w)
          ELSE AppendPayload(shown, cap, FileOf(m))
  BY DEF AppendMessage, FileOf, WithMessage
<1> HIDE DEF m
<1>4. CASE w.used + Text + Heading > cap
  BY <1>3, <1>4, TruncatedSound
<1>5. CASE ~(w.used + Text + Heading > cap)
  <2>1. /\ shown \in Walks /\ shown.frontier = w.frontier /\ shown.seen = w.seen
        /\ shown.rows = w.rows \ {m} /\ shown.summaries = w.summaries
        /\ shown.messages = w.messages \cup {m} /\ shown.payloads = w.payloads
        /\ shown.used = w.used + 1 /\ shown.cut = w.cut
    BY <1>1, <1>2, MessageFields
  <2> PICK x : x = shown
    OBVIOUS
  <2> HIDE DEF shown
  <2>2. w.used + 2 <= cap
    BY <1>1, <1>5 DEF Text, Heading
  <2>3. Trodden(x, s, depth) /\ x.used <= cap
    BY <1>1, <2>1, <2>2 DEF WalkInv, Trodden
  <2>4. Followed(x, s, depth, include_messages)
    BY <2>1 DEF WalkInv, Followed
  <2>5. Drawn(x, s, depth, include_messages) /\ m \in Recoverable(s, depth, include_messages)
    BY <1>2, <2>1 DEF WalkInv, Drawn
  <2>6. FileOf(m) # Nothing => FileOf(m) \in Payloads /\ payload[FileOf(m)] # "absent"
    BY <2>5, RecoverableStored
  <2>7. x.payloads \subseteq FilesOf(x.messages)
    BY <2>1 DEF WalkInv, Attached, FilesOf
  <2>8. FilesOf(x.messages) \subseteq x.payloads \cup ({FileOf(m)} \ {Nothing})
    BY <2>1 DEF WalkInv, Attached, FilesOf
  <2>9. v = AppendPayload(x, cap, FileOf(m))
    BY <1>3, <1>5
  <2>10. CASE FileOf(m) = Nothing
    <3>1. v = x
      BY <2>9, <2>10 DEF AppendPayload
    <3>2. Attached(x)
      BY <2>7, <2>8, <2>10 DEF Attached
    <3> QED BY <1>1, <2>1, <2>3, <2>4, <2>5, <3>1, <3>2 DEF WalkInv
  <2>11. CASE FileOf(m) # Nothing /\ x.used + Whole <= cap
    <3>1. FileOf(m) \in Payloads /\ v = WithFile(x, FileOf(m))
      BY <2>6, <2>9, <2>11 DEF AppendPayload, WithFile
    <3>2. /\ v \in Walks /\ v.frontier = x.frontier /\ v.seen = x.seen /\ v.rows = x.rows
          /\ v.summaries = x.summaries /\ v.messages = x.messages
          /\ v.payloads = x.payloads \cup {FileOf(m)} /\ v.used = x.used + 2 /\ v.cut = x.cut
      BY <2>1, <3>1, PayloadFields
    <3>3. Trodden(v, s, depth) /\ Followed(v, s, depth, include_messages)
          /\ Drawn(v, s, depth, include_messages)
      BY <2>3, <2>4, <2>5, <3>2 DEF Trodden, Followed, Drawn
    <3>4. FileOf(m) \in FilesOf(x.messages)
      BY <2>1, <2>11 DEF FilesOf
    <3>5. Attached(v)
      BY <2>7, <2>8, <3>2, <3>4 DEF Attached
    <3>6. v.used <= cap /\ v.used >= w.used + 1
      BY <1>1, <2>1, <2>11, <3>2 DEF Whole
    <3> QED BY <3>2, <3>3, <3>5, <3>6 DEF WalkInv
  <2>12. CASE FileOf(m) # Nothing /\ ~(x.used + Whole <= cap)
    <3>1. v = Truncated(x)
      BY <2>6, <2>9, <2>12 DEF AppendPayload
    <3>2. /\ v \in Walks /\ v.frontier = x.frontier /\ v.seen = x.seen /\ v.rows = x.rows
          /\ v.summaries = x.summaries /\ v.messages = x.messages
          /\ v.payloads = x.payloads /\ v.used = x.used /\ v.cut = TRUE
      BY <2>1, <3>1, TruncatedFields
    <3>3. Trodden(v, s, depth) /\ Followed(v, s, depth, include_messages)
          /\ Drawn(v, s, depth, include_messages) /\ v.used <= cap
      BY <2>3, <2>4, <2>5, <3>2 DEF Trodden, Followed, Drawn
    <3>4. Attached(v)
      BY <2>7, <3>2 DEF Attached
    <3> QED BY <3>2, <3>3, <3>4 DEF WalkInv
  <2> QED BY <2>10, <2>11, <2>12
<1> QED BY <1>4, <1>5

LEMMA VisitSound ==
  ASSUME StoreInv, NEW s, NEW depth, NEW cap, NEW include_messages,
         Asked(s, depth, cap, include_messages), NEW w,
         WalkInv(w, s, depth, cap, include_messages), ~w.cut, w.rows = {}, w.frontier # <<>>,
         NEW v, v = Visit(w, depth, cap, include_messages)
  PROVE  /\ WalkInv(v, s, depth, cap, include_messages)
         /\ v.cut \/ v.used >= w.used + 1
<1>1. /\ w \in Walks /\ w.used \in Nat /\ w.frontier \in Seq(WalkNodes) /\ w.seen \in SUBSET DOMAIN dag
      /\ cap \in Nat /\ depth \in Nat \ {0} /\ s \in DOMAIN dag
  BY WalkFields DEF WalkInv, Asked
<1> DEFINE node == Last(w.frontier)
           k == node.id
           children == dag[k].sources \ w.seen
           below == {[id |-> c, level |-> node.level + 1] : c \in children}
           shown == WithSummary(w, k)
<1>2. v = IF w.used + Text + Heading > cap THEN Truncated(w)
          ELSE IF node.level >= depth \/ (dag[k].depth = 0 /\ ~include_messages) THEN shown
          ELSE IF dag[k].depth = 0 THEN WithRows(shown, MessagesOf(k))
          ELSE WithNodes(shown, children, SetToSeq(below))
  BY DEF Visit, Bottom, WithSummary, WithRows, WithNodes, MessagesOf
<1>3. CASE w.used + Text + Heading > cap
  BY <1>2, <1>3, TruncatedSound
<1>4. CASE ~(w.used + Text + Heading > cap)
  <2>1. PICK q : q = SetToSeq(below)
    OBVIOUS
  <2>2. node \in WalkNodes /\ \E i \in DOMAIN w.frontier : w.frontier[i] = node
    BY <1>1, Popped
  <2>3. k \in DOMAIN dag /\ node.level \in Nat /\ dag[k].depth \in Nat /\ dag[s].depth \in Nat
    BY <1>1, <2>2, SummariesTyped DEF WalkNodes, StoreInv
  <2>4. k \in w.seen /\ node.level = LevelOf(s, k)
    BY <2>2 DEF WalkInv, Trodden
  <2> DEFINE l == node.level
  <2>5. k \in Within(s, l) /\ l \in 0..depth
    <3>1. k \in Within(s, depth)
      BY <2>4 DEF WalkInv, Trodden
    <3> QED BY <1>1, <2>4, <3>1, WithinLevels
  <2>6. /\ shown \in Walks /\ shown.frontier = Front(w.frontier) /\ shown.seen = w.seen
        /\ shown.rows = w.rows /\ shown.summaries = w.summaries \cup {k}
        /\ shown.messages = w.messages /\ shown.payloads = w.payloads
        /\ shown.used = w.used + 1 /\ shown.cut = w.cut
    BY <1>1, <2>3, ShownFields
  <2>7. \A c \in children : c \in dag[k].sources
    OBVIOUS
  <2>8. w.used + 2 <= cap
    BY <1>1, <1>4 DEF Text, Heading
  <2>9. PICK x : x = shown
    OBVIOUS
  <2>10. PICK C : C = children
    OBVIOUS
  <2>11. q = SetToSeq(NodesAt(C, l + 1))
    BY <2>1, <2>10 DEF NodesAt
  <2>12. v = IF l >= depth \/ (dag[k].depth = 0 /\ ~include_messages) THEN x
             ELSE IF dag[k].depth = 0 THEN WithRows(x, MessagesOf(k))
             ELSE WithNodes(x, C, q)
    BY <1>2, <1>4, <2>1, <2>9, <2>10
  <2>13. /\ x \in Walks /\ x.frontier = Front(w.frontier) /\ x.seen = w.seen /\ x.rows = {}
         /\ x.summaries = w.summaries \cup {k} /\ x.messages = w.messages
         /\ x.payloads = w.payloads /\ x.used = w.used + 1 /\ x.cut = FALSE
    BY <1>1, <2>6, <2>9 DEF Walks
  <2>14. C = dag[k].sources \ w.seen
    BY <2>10
  <2>15. \A i \in DOMAIN w.frontier : i \in DOMAIN Front(w.frontier) \/ w.frontier[i].id = k
    BY <1>1, Popped
  <2>16. \A i \in DOMAIN Front(w.frontier) : i \in DOMAIN w.frontier
                                             /\ Front(w.frontier)[i] = w.frontier[i]
    BY <1>1, Popped
  <2> HIDE DEF shown, children, below, node
  <2>17. Trodden(x, s, depth)
    <3>1. s \in x.seen /\ x.seen \subseteq Within(s, depth) /\ x.summaries \subseteq x.seen
      BY <2>4, <2>13 DEF WalkInv, Trodden
    <3>2. ASSUME NEW i \in DOMAIN x.frontier
          PROVE  x.frontier[i].id \in x.seen /\ x.frontier[i].level = LevelOf(s, x.frontier[i].id)
      BY <2>13, <2>16 DEF WalkInv, Trodden
    <3>3. ASSUME NEW j \in x.seen
          PROVE  j \in x.summaries \/ \E i \in DOMAIN x.frontier : x.frontier[i].id = j
      <4>1. CASE j \in w.summaries
        BY <2>13, <4>1
      <4>2. CASE \E i \in DOMAIN w.frontier : w.frontier[i].id = j
        <5>1. PICK i \in DOMAIN w.frontier : w.frontier[i].id = j
          BY <4>2
        <5>2. j = k \/ (i \in DOMAIN x.frontier /\ x.frontier[i].id = j)
          BY <2>13, <2>15, <2>16, <5>1
        <5> QED BY <2>13, <5>2
      <4> QED BY <2>13, <4>1, <4>2 DEF WalkInv, Trodden
    <3> QED BY <3>1, <3>2, <3>3 DEF Trodden
  <2>18. Drawn(x, s, depth, include_messages) /\ Attached(x) /\ x.used <= cap
    BY <1>1, <2>8, <2>13 DEF WalkInv, Drawn, Attached
  <2>19. \A j \in w.summaries : LevelOf(s, j) < depth =>
            /\ dag[j].depth > 0 => dag[j].sources \subseteq x.seen
            /\ dag[j].depth = 0 /\ include_messages => MessagesOf(j) \subseteq x.messages
    BY <2>13 DEF WalkInv, Followed
  <2>20. CASE l >= depth \/ (dag[k].depth = 0 /\ ~include_messages)
    <3>1. v = x
      BY <2>12, <2>20
    <3>2. ASSUME NEW j \in x.summaries, LevelOf(s, j) < depth
          PROVE  /\ dag[j].depth > 0 => dag[j].sources \subseteq x.seen
                 /\ dag[j].depth = 0 /\ include_messages => MessagesOf(j) \subseteq x.messages
      <4>1. CASE j \in w.summaries
        BY <2>19, <3>2, <4>1
      <4>2. CASE j = k
        <5>1. ~(l >= depth)
          BY <1>1, <2>3, <2>4, <3>2, <4>2
        <5> QED BY <2>3, <2>20, <4>2, <5>1
      <4> QED BY <2>13, <3>2, <4>1, <4>2
    <3>3. Followed(x, s, depth, include_messages)
      BY <3>2 DEF Followed
    <3> QED BY <1>1, <2>13, <2>17, <2>18, <3>1, <3>3 DEF WalkInv
  <2>21. CASE ~(l >= depth) /\ dag[k].depth = 0 /\ include_messages
    <3>1. v = WithRows(x, MessagesOf(k))
      BY <2>12, <2>21
    <3>2. l \in 0..(depth - 1) /\ depth - 1 \in Nat
      BY <1>1, <2>5, <2>21
    <3>3. k \in Opened(s, depth, include_messages)
      BY <1>1, <2>5, <2>21, <3>2, WithinGrows DEF Opened
    <3>4. MessagesOf(k) \subseteq Recoverable(s, depth, include_messages)
      BY <3>3 DEF Recoverable
    <3>5. MessagesOf(k) \in SUBSET (Sessions \X Nat)
      BY <3>4, RecoverableStored
    <3>6. /\ v \in Walks /\ v.frontier = x.frontier /\ v.seen = x.seen /\ v.rows = MessagesOf(k)
          /\ v.summaries = x.summaries /\ v.messages = x.messages
          /\ v.payloads = x.payloads /\ v.used = x.used /\ v.cut = x.cut
      BY <2>13, <3>1, <3>5, RowsFields
    <3>7. Trodden(v, s, depth)
      BY <2>17, <3>6 DEF Trodden
    <3>8. Drawn(v, s, depth, include_messages) /\ Attached(v) /\ v.used <= cap
      BY <2>18, <3>4, <3>6 DEF Drawn, Attached
    <3>9. Followed(v, s, depth, include_messages)
      <4>1. ASSUME NEW j \in v.summaries, LevelOf(s, j) < depth
            PROVE  /\ dag[j].depth > 0 => dag[j].sources \subseteq v.seen
                   /\ dag[j].depth = 0 /\ include_messages
                         => MessagesOf(j) \subseteq v.messages \cup v.rows
        <5>1. CASE j \in w.summaries
          BY <2>13, <2>19, <3>6, <4>1, <5>1
        <5>2. CASE j = k
          <6>1. ~(dag[j].depth > 0) /\ MessagesOf(j) = v.rows
            <7>1. MessagesOf(j) = MessagesOf(k) /\ dag[j] = dag[k]
              BY <5>2
            <7>2. v.rows = MessagesOf(k)
              BY <3>6
            <7>3. ~(dag[k].depth > 0)
              BY <2>21
            <7> QED BY <7>1, <7>2, <7>3
          <6> QED BY <6>1
        <5> QED BY <2>13, <3>6, <4>1, <5>1, <5>2
      <4> QED BY <4>1 DEF Followed
    <3> QED BY <1>1, <2>13, <3>6, <3>7, <3>8, <3>9 DEF WalkInv
  <2>22. CASE ~(l >= depth) /\ dag[k].depth # 0
    <3>1. v = WithNodes(x, C, q)
      BY <2>12, <2>22
    <3>2. dag[k].depth > 0
      BY <2>3, <2>22
    <3>3. CondensedLinked(k)
      BY <2>3, <3>2 DEF StoreInv, Linked
    <3>4. ASSUME NEW c \in C
          PROVE  c \in DOMAIN dag /\ c \in Within(s, depth) /\ LevelOf(s, c) = l + 1
      <4>1. c \in dag[k].sources
        BY <2>14
      <4>2. c \in DOMAIN dag /\ dag[c].depth + 1 = dag[k].depth
        BY <3>3, <4>1 DEF CondensedLinked, Owned, LevelBelow
      <4>3. LevelOf(s, c) = l + 1
        <5>1. dag[c].depth \in Nat
          BY <4>2, SummariesTyped DEF StoreInv
        <5> QED BY <2>3, <2>4, <4>2, <5>1 DEF LevelOf
      <4>4. l + 1 \in 0..depth /\ l \in Nat
        BY <1>1, <2>3, <2>22
      <4>5. c \in Within(s, l + 1)
        <5>1. Within(s, l + 1) = WithSources(Within(s, l))
          BY <1>1, <4>4, WithinFacts
        <5> QED BY <2>5, <3>2, <4>1, <5>1 DEF WithSources
      <4>6. c \in Within(s, depth)
        BY <1>1, <4>4, <4>5, WithinGrows
      <4> QED BY <4>2, <4>3, <4>6
    <3>5. C \in SUBSET DOMAIN dag
      BY <3>4
    <3>6. /\ q \in Seq(WalkNodes)
          /\ \A i \in DOMAIN q : q[i].level = l + 1 /\ q[i].id \in C
          /\ \A c \in C : \E i \in DOMAIN q : q[i].id = c
      <4>1. l + 1 \in Nat /\ StoreTypes
        BY <2>3 DEF StoreInv
      <4>2. PICK n \in Nat : n = l + 1
        BY <4>1
      <4>3. q = SetToSeq(NodesAt(C, n))
        BY <2>11, <4>2
      <4>4. ListedAt(q, C, n)
        BY <3>5, <4>1, <4>3, ChildrenListed
      <4> QED BY <4>2, <4>4 DEF ListedAt
    <3>7. /\ v \in Walks /\ v.frontier = x.frontier \o q /\ v.seen = x.seen \cup C
          /\ v.rows = x.rows /\ v.summaries = x.summaries /\ v.messages = x.messages
          /\ v.payloads = x.payloads /\ v.used = x.used /\ v.cut = x.cut
      <4>1. x \in Walks
        BY <2>13
      <4>2. q \in Seq(WalkNodes)
        BY <3>6
      <4>3. Deepened(v, x, C, q)
        BY <3>1, <3>5, <4>1, <4>2, DeeperFields
      <4> QED BY <4>3 DEF Deepened
    <3>8. x.frontier \in Seq(WalkNodes)
      BY <2>13, WalkFields
    <3>9. Trodden(v, s, depth)
      <4>1. s \in v.seen /\ v.seen \subseteq Within(s, depth) /\ v.summaries \subseteq v.seen
        BY <2>17, <3>4, <3>7 DEF Trodden
      <4>2. ASSUME NEW i \in DOMAIN v.frontier
            PROVE  v.frontier[i].id \in v.seen /\ v.frontier[i].level = LevelOf(s, v.frontier[i].id)
        <5>1. CASE i \in DOMAIN x.frontier /\ v.frontier[i] = x.frontier[i]
          BY <2>17, <3>7, <5>1 DEF Trodden
        <5>2. CASE \E j \in DOMAIN q : v.frontier[i] = q[j]
          BY <3>4, <3>6, <3>7, <5>2
        <5> QED BY <3>6, <3>7, <3>8, <4>2, <5>1, <5>2, PushedOn
      <4>3. ASSUME NEW j \in v.seen
            PROVE  j \in v.summaries \/ \E i \in DOMAIN v.frontier : v.frontier[i].id = j
        <5>1. CASE j \in x.summaries
          BY <3>7, <5>1
        <5>2. CASE \E i \in DOMAIN x.frontier : x.frontier[i].id = j
          BY <3>6, <3>7, <3>8, <5>2, PushedOn
        <5>3. CASE j \in C
          <6>1. PICK i \in DOMAIN q : q[i].id = j
            BY <3>6, <5>3
          <6>2. PICK n \in DOMAIN (x.frontier \o q) : (x.frontier \o q)[n] = q[i]
            <7>1. q \in Seq(WalkNodes)
              BY <3>6
            <7> QED BY <3>8, <7>1, PushedOn
          <6>3. n \in DOMAIN v.frontier /\ v.frontier[n] = q[i]
            BY <3>7, <6>2
          <6> QED BY <6>1, <6>3
        <5> QED BY <2>17, <3>7, <5>1, <5>2, <5>3 DEF Trodden
      <4> QED BY <4>1, <4>2, <4>3 DEF Trodden
    <3>10. Drawn(v, s, depth, include_messages) /\ Attached(v) /\ v.used <= cap
      BY <2>18, <3>7 DEF Drawn, Attached
    <3>11. Followed(v, s, depth, include_messages)
      <4>1. ASSUME NEW j \in v.summaries, LevelOf(s, j) < depth
            PROVE  /\ dag[j].depth > 0 => dag[j].sources \subseteq v.seen
                   /\ dag[j].depth = 0 /\ include_messages
                         => MessagesOf(j) \subseteq v.messages \cup v.rows
        <5>1. CASE j \in w.summaries
          BY <2>19, <3>7, <4>1, <5>1
        <5>2. CASE j = k
          <6>1. dag[k].sources \subseteq v.seen
            BY <2>13, <2>14, <3>7
          <6> QED BY <2>22, <5>2, <6>1
        <5> QED BY <2>13, <3>7, <4>1, <5>1, <5>2
      <4> QED BY <4>1 DEF Followed
    <3> QED BY <1>1, <2>13, <3>7, <3>9, <3>10, <3>11 DEF WalkInv
  <2>23. include_messages \in BOOLEAN
    BY DEF Asked
  <2> QED BY <2>20, <2>21, <2>22, <2>23
<1> QED BY <1>3, <1>4

LEMMA AdvanceSound ==
  ASSUME StoreInv, NEW s, NEW depth, NEW cap, NEW include_messages,
         Asked(s, depth, cap, include_messages), NEW w,
         WalkInv(w, s, depth, cap, include_messages),
         NEW v, v = Advance(w, depth, cap, include_messages)
  PROVE  /\ WalkInv(v, s, depth, cap, include_messages)
         /\ Finished(w) => v = w
         /\ ~Finished(w) => v.cut \/ v.used >= w.used + 1
<1>1. CASE Finished(w)
  BY <1>1 DEF Advance
<1>2. CASE ~Finished(w) /\ w.rows # {}
  <2>1. ~w.cut /\ v = AppendMessage(w, cap)
    BY <1>2 DEF Advance, Finished
  <2> QED BY <1>2, <2>1, AppendMessageSound
<1>3. CASE ~Finished(w) /\ w.rows = {}
  <2>1. ~w.cut /\ w.frontier # <<>> /\ v = Visit(w, depth, cap, include_messages)
    BY <1>3 DEF Advance, Finished
  <2> QED BY <1>3, <2>1, VisitSound
<1> QED BY <1>1, <1>2, <1>3

LEMMA NewWalkSound ==
  ASSUME StoreInv, NEW s, NEW depth, NEW cap, NEW include_messages,
         Asked(s, depth, cap, include_messages), NEW w, w = NewWalk(s)
  PROVE  WalkInv(w, s, depth, cap, include_messages)
<1>1. s \in DOMAIN dag /\ depth \in Nat /\ 0 \in 0..depth /\ cap \in Nat
  BY DEF Asked
<1>2. dag[s].depth \in Nat /\ LevelOf(s, s) = 0
  BY <1>1, SummariesTyped DEF StoreInv, LevelOf
<1>3. s \in Within(s, depth)
  BY <1>1, WithinFacts, WithinGrows
<1>4. /\ w.frontier = <<[id |-> s, level |-> 0]>> /\ w.seen = {s} /\ w.rows = {}
      /\ w.summaries = {} /\ w.messages = {} /\ w.payloads = {} /\ w.used = 0 /\ w.cut = FALSE
  BY DEF NewWalk
<1>5. <<[id |-> s, level |-> 0]>> \in Seq(WalkNodes)
  BY <1>1 DEF WalkNodes
<1>6. w \in Walks
  <2>1. PICK f \in Seq(WalkNodes) : f = <<[id |-> s, level |-> 0]>>
    BY <1>5
  <2>2. PICK S \in SUBSET DOMAIN dag : S = {s}
    BY <1>1
  <2>3. w = [frontier |-> f, seen |-> S, rows |-> {}, summaries |-> {}, messages |-> {},
             payloads |-> {}, used |-> 0, cut |-> FALSE]
    BY <2>1, <2>2 DEF NewWalk
  <2> QED BY <2>3 DEF Walks
<1>7. DOMAIN w.frontier = {1} /\ w.frontier[1].id = s /\ w.frontier[1].level = 0
  BY <1>4
<1>8. Trodden(w, s, depth)
  BY <1>2, <1>3, <1>4, <1>7 DEF Trodden
<1>9. Followed(w, s, depth, include_messages) /\ Drawn(w, s, depth, include_messages)
      /\ Attached(w)
  BY <1>4 DEF Followed, Drawn, Attached, FilesOf
<1> QED BY <1>1, <1>4, <1>6, <1>8, <1>9 DEF WalkInv

(* The walk that lcm_expand takes has ended, and kept the invariant.       *)
LEMMA ExpandSound ==
  ASSUME StoreInv, NEW s, NEW depth, NEW cap, NEW include_messages,
         Asked(s, depth, cap, include_messages),
         NEW out, out = Expand(s, depth, cap, include_messages)
  PROVE  WalkInv(out, s, depth, cap, include_messages) /\ Finished(out)
<1> DEFINE S == {w \in Walks : WalkInv(w, s, depth, cap, include_messages)}
           To(w) == Advance(w, depth, cap, include_messages)
           g == [w \in S |-> To(w)]
           x == NewWalk(s)
           N == cap + 1
<1>1. N \in Nat /\ cap \in Nat /\ N \in 0..N /\ N = cap + 1
  BY DEF Asked
<1>2. x \in S
  BY NewWalkSound DEF WalkInv
<1>3. ASSUME NEW w \in S PROVE To(w) \in S
  BY AdvanceSound DEF WalkInv
<1>4. g \in [S -> S]
  <2> HIDE DEF S, To
  <2> QED BY <1>3
<1>5. PICK f : Iterates(f, S, x, g, N)
  <2> HIDE DEF S, g, x, N
  <2> QED BY <1>1, <1>2, <1>4, IteratesExist
<1>6. f[0] = x /\ \A n \in 1..N : f[n] = To(f[n - 1])
  <2>1. f \in [0..N -> S] /\ f[0] = x /\ \A n \in 1..N : f[n] = g[f[n - 1]]
    BY <1>5 DEF Iterates
  <2> HIDE DEF S, To, x, N
  <2>2. \A n \in 1..N : f[n - 1] \in S
    BY <1>1, <2>1
  <2> QED BY <2>1, <2>2
<1> DEFINE Is(h) == h = [n \in 0..N |-> IF n = 0 THEN x ELSE To(h[n - 1])]
           walk == CHOOSE h : Is(h)
<1>7. out = walk[N]
  BY DEF Expand
<1>8. Is(walk)
  <2> DEFINE k == [n \in 0..N |-> f[n]]
  <2> HIDE DEF To, x, N
  <2>1. \A n \in 0..N : k[n] = IF n = 0 THEN x ELSE To(k[n - 1])
    <3>1. TAKE n \in 0..N
    <3>2. n # 0 => n \in 1..N /\ n - 1 \in 0..N
      BY <1>1
    <3>3. k[n] = f[n] /\ (n # 0 => k[n - 1] = f[n - 1])
      BY <3>2
    <3> HIDE DEF k
    <3> QED BY <1>6, <3>2, <3>3
  <2>2. Is(k)
    BY <2>1
  <2> HIDE DEF Is, k
  <2> QED BY <2>2
<1> HIDE DEF walk, To, x, N
<1>9. /\ walk[0] = x
      /\ \A n \in 1..N : walk[n] = To(walk[n - 1])
  <2>1. \A n \in 0..N : walk[n] = IF n = 0 THEN x ELSE To(walk[n - 1])
    BY <1>8
  <2>2. 0 \in 0..N /\ \A n \in 1..N : n \in 0..N /\ n # 0
    BY <1>1
  <2> QED BY <2>1, <2>2
<1> DEFINE Fine(n) == /\ walk[n] \in S
                      /\ Finished(walk[n]) \/ walk[n].used >= n
           A == {n \in 0..N : Fine(n)}
<1>10. 0 \in A
  <2>1. walk[0].used = 0
    BY <1>9 DEF x, NewWalk
  <2> QED BY <1>1, <1>2, <1>9, <2>1
<1>11. ASSUME NEW n \in 1..N, n - 1 \in A PROVE n \in A
  <2>1. PICK w : w = walk[n - 1]
    OBVIOUS
  <2>2. PICK v : v = walk[n]
    OBVIOUS
  <2>3. v = Advance(w, depth, cap, include_messages)
    BY <1>9, <2>1, <2>2 DEF To
  <2>4. WalkInv(w, s, depth, cap, include_messages) /\ (Finished(w) \/ w.used >= n - 1)
    BY <1>11, <2>1
  <2>5. /\ WalkInv(v, s, depth, cap, include_messages)
        /\ Finished(w) => v = w
        /\ ~Finished(w) => v.cut \/ v.used >= w.used + 1
    BY <2>3, <2>4, AdvanceSound
  <2>6. v \in S
    BY <2>5 DEF WalkInv
  <2>7. w.used \in Nat /\ v.used \in Nat
    BY <2>4, <2>5, WalkFields DEF WalkInv
  <2>8. Finished(v) \/ v.used >= n
    <3>1. CASE Finished(w)
      BY <2>5, <3>1
    <3>2. CASE ~Finished(w) /\ v.cut
      BY <3>2 DEF Finished
    <3>3. CASE ~Finished(w) /\ v.used >= w.used + 1
      BY <1>1, <2>4, <2>7, <3>3
    <3> QED BY <2>5, <3>1, <3>2, <3>3
  <2>9. n \in 0..N
    BY <1>1
  <2> QED BY <2>2, <2>6, <2>8, <2>9
<1>12. N \in A
  <2> HIDE DEF A
  <2> QED BY <1>1, <1>10, <1>11, UpTo
<1>13. WalkInv(out, s, depth, cap, include_messages) /\ (Finished(out) \/ out.used >= N)
  BY <1>7, <1>12
<1>14. out.used <= cap /\ out.used \in Nat
  BY <1>13, WalkFields DEF WalkInv
<1> QED BY <1>1, <1>13, <1>14

LEMMA StoreExpands ==
  ASSUME StoreInv
  PROVE  ExpandTells
<1> SUFFICES ASSUME NEW s \in DOMAIN dag, NEW depth \in Depths, NEW cap \in Caps,
                    NEW include_messages \in BOOLEAN,
                    NEW out, out = Expand(s, depth, cap, include_messages)
             PROVE  LET stored == Recoverable(s, depth, include_messages)
                    IN  /\ out.summaries \subseteq Within(s, depth)
                        /\ out.messages \subseteq stored
                        /\ out.payloads \subseteq FilesOf(stored)
                        /\ \/ out.cut
                           \/ /\ out.summaries = Within(s, depth)
                              /\ out.messages = stored
                              /\ out.payloads = FilesOf(stored)
                        /\ out.used <= cap
  BY DEF ExpandTells, Recoverable, Opened, MessagesOf, FilesOf, FileOf
<1>1. Asked(s, depth, cap, include_messages) /\ depth \in Nat \ {0}
  BY LcmExpandAssumption DEF Asked
<1>2. WalkInv(out, s, depth, cap, include_messages) /\ Finished(out)
  BY <1>1, ExpandSound
<1> DEFINE stored == Recoverable(s, depth, include_messages)
<1>3. out.summaries \subseteq Within(s, depth) /\ out.messages \subseteq stored /\ out.used <= cap
  BY <1>2 DEF WalkInv, Trodden, Drawn
<1>4. out.payloads \subseteq FilesOf(stored)
  BY <1>2, <1>3 DEF WalkInv, Attached, FilesOf
<1>5. ASSUME ~out.cut
      PROVE  /\ out.summaries = Within(s, depth) /\ out.messages = stored
             /\ out.payloads = FilesOf(stored)
  <2>1. out.rows = {} /\ out.frontier = <<>>
    BY <1>2, <1>5 DEF Finished
  <2>2. out.seen \subseteq out.summaries /\ s \in out.summaries
    BY <1>2, <2>1 DEF WalkInv, Trodden
  <2> DEFINE A == {n \in 0..depth : Within(s, n) \subseteq out.summaries}
  <2>3. 0 \in A
    BY <1>1, <2>2, WithinFacts
  <2>4. ASSUME NEW n \in 1..depth, n - 1 \in A PROVE n \in A
    <3>1. n - 1 \in Nat /\ (n - 1) + 1 = n /\ n - 1 < depth
      BY <1>1
    <3>2. Within(s, n) = WithSources(Within(s, n - 1))
      BY <3>1, WithinFacts
    <3>3. ASSUME NEW j \in Within(s, n - 1), dag[j].depth > 0
          PROVE  dag[j].sources \subseteq out.summaries
      <4>1. LevelOf(s, j) \in 0..(n - 1)
        BY <3>1, WithinLevels
      <4>2. LevelOf(s, j) < depth
        BY <1>1, <3>1, <4>1
      <4>3. j \in out.summaries
        BY <2>4
      <4> QED BY <1>2, <2>2, <3>3, <4>2, <4>3 DEF WalkInv, Followed
    <3>4. Within(s, n) \subseteq out.summaries
      BY <2>4, <3>2, <3>3 DEF WithSources
    <3> QED BY <1>1, <3>4
  <2>5. depth \in A
    <3> HIDE DEF A
    <3> QED BY <1>1, <2>3, <2>4, UpTo
  <2>6. out.summaries = Within(s, depth)
    BY <1>3, <2>5
  <2>7. ASSUME NEW k \in Opened(s, depth, include_messages)
        PROVE  MessagesOf(k) \subseteq out.messages
    <3>1. depth - 1 \in Nat /\ depth - 1 \in 0..depth /\ depth \in Nat
      BY <1>1
    <3>2. k \in Within(s, depth - 1) /\ include_messages /\ dag[k].depth = 0
      BY DEF Opened
    <3>3. LevelOf(s, k) < depth
      <4>1. LevelOf(s, k) \in 0..(depth - 1)
        BY <3>1, <3>2, WithinLevels
      <4> QED BY <1>1, <4>1
    <3>4. k \in out.summaries
      BY <2>6, <3>1, <3>2, WithinGrows
    <3> QED BY <1>2, <2>1, <3>2, <3>3, <3>4 DEF WalkInv, Followed
  <2>8. out.messages = stored
    BY <1>3, <2>7 DEF Recoverable
  <2>9. out.payloads = FilesOf(stored)
    BY <1>2, <1>4, <1>5, <2>8 DEF WalkInv, Attached
  <2> QED BY <2>6, <2>8, <2>9
<1> QED BY <1>3, <1>4, <1>5

(* An lcm_expand that is not marked as truncated shows the summaries, the  *)
(* messages and the files within the levels asked for, all of them and     *)
(* nothing else, whatever the levels, the cap and the store: the walk of   *)
(* expand() and append_payload in tools.rs over what compaction wrote.     *)
THEOREM ExpandTellsAlways == StoreSpec => []ExpandTells
<1>1. StoreInv => ExpandTells
  BY StoreExpands
<1> QED BY <1>1, StoreInvariance, PTL
=============================================================================
