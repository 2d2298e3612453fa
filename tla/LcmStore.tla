------------------------------ MODULE LcmStore ------------------------------
(***************************************************************************)
(* The LCM engine seen across sessions (src/context/lcm/engine.rs): which  *)
(* conversation is active, the payloads that oversized messages are moved  *)
(* to (a file each, written before the message's transaction), the links   *)
(* from summaries to those files, and what assemble() says about files     *)
(* that were written.  LcmContext has the compaction of one conversation   *)
(* in detail; here a chunk or a run fits some token budget.                *)
(*                                                                         *)
(* A payload is its content (file_id is a hash of it), so the same one may *)
(* be pushed again, in any session.                                        *)
(***************************************************************************)
EXTENDS LcmConfig, Sequences, FiniteSets, FiniteSetsExt

CONSTANTS Sessions, General,  \* conversations; the one a new store starts with
          Payloads,           \* contents over the externalization threshold
          Paths,              \* what file_write and file_edit are called with
          ListCap,            \* WRITTEN_FILES_CAP
          Nothing,
          MaxStored,          \* bound: messages in all sessions together
          MaxBreaks           \* bound: failed writes and crashes

ASSUME LcmStoreAssumption ==
    /\ General \in Sessions
    /\ Nothing \notin Sessions \cup Payloads \cup Paths
    /\ ListCap \in Nat \ {0}
    /\ MaxStored \in Nat /\ MaxBreaks \in Nat

VARIABLES
    conv,     \* per session: its messages, the context items by ordinal, and
              \* (history) how many messages there were when it was cleared
    dag,      \* the summaries of all sessions, by creation
    rows,     \* large_files: the conversation_id of each payload's row
    payload,  \* the files in context/lcm/payloads
    engine,   \* the engine in memory
    cursor,   \* the file context/lcm/active_session
    breaks,
    rewrites  \* history: the payloads that have a row and whose file was opened
              \* for writing again and not filled since

storeVars == <<conv, dag, rows, payload, engine, cursor, breaks, rewrites>>

\* An assistant's call that writes a file ("write") is followed by its result.
StoredMessage == [role : {"user", "write", "result"},
                  file : Payloads \cup {Nothing}, path : Paths \cup {Nothing}]

\* `push` is the externalization under way: the message and how far it is.
\* `todo` is what the condensed pass has loaded and not yet written.
Up(session) == [up |-> TRUE, active |-> session, push |-> Nothing,
                cycle |-> "idle", todo |-> {}]

Entry(type, id) == [type |-> type, id |-> id]
NoEntries == [o \in {} |-> Entry("message", 0)]

StoreInit ==
    /\ conv = [s \in Sessions |-> [messages |-> <<>>, context |-> NoEntries, base |-> 0]]
    /\ dag = <<>>
    /\ rows = [p \in Payloads |-> Nothing]
    /\ payload = [p \in Payloads |-> "absent"]
    /\ engine = Up(General)
    /\ cursor = General
    /\ breaks = 0
    /\ rewrites = {}

Here == conv[engine.active]
Quiet == engine.up /\ engine.push = Nothing /\ engine.cycle = "idle"
Break == breaks < MaxBreaks /\ breaks' = breaks + 1
Storable == MapThenSumSet(LAMBDA s : Len(conv[s].messages), Sessions) < MaxStored

-----------------------------------------------------------------------------
(* Messages *)

FreeOrdinal(c) == IF DOMAIN c.context = {} THEN 0 ELSE Max(DOMAIN c.context) + 1
Pushed(c, m) ==
    [messages |-> Append(c.messages, m),
     context |-> [o \in DOMAIN c.context \cup {FreeOrdinal(c)} |->
                     IF o = FreeOrdinal(c) THEN Entry("message", Len(c.messages) + 1)
                     ELSE c.context[o]],
     base |-> c.base]

(* What a turn pushes next: the user's message opens it, a call is followed *)
(* by its result (unless the turn failed); a call's own text is short.      *)
NextMessages ==
    LET n == Len(Here.messages)
        last == IF n = Here.base THEN "none" ELSE Here.messages[n].role
    IN  {m \in StoredMessage :
            /\ m.role = "result" => last = "write"
            /\ m.role = "write" => last \in {"user", "result"} /\ m.file = Nothing
            /\ (m.role = "write") <=> (m.path # Nothing)}

PushWhole ==
    /\ Quiet /\ Storable
    /\ \E m \in NextMessages :
          /\ m.file = Nothing
          /\ conv' = [conv EXCEPT ![engine.active] = Pushed(@, m)]
    /\ UNCHANGED <<dag, rows, payload, engine, cursor, breaks, rewrites>>

(* intercept_large: the file is written first (created or truncated, then  *)
(* filled), also when the same payload was stored before; then the content *)
(* is explored, which cannot fail; then the message and its row commit.    *)
Intercept ==
    /\ Quiet /\ Storable
    /\ \E m \in NextMessages :
          /\ m.file # Nothing
          /\ engine' = [engine EXCEPT !.push = [message |-> m, written |-> FALSE]]
          /\ payload' = [payload EXCEPT ![m.file] = "torn"]
          /\ rewrites' = IF rows[m.file] = Nothing THEN rewrites ELSE rewrites \cup {m.file}
    /\ UNCHANGED <<conv, dag, rows, cursor, breaks>>

WritePayload ==
    /\ engine.push # Nothing /\ ~engine.push.written
    /\ engine' = [engine EXCEPT !.push.written = TRUE]
    /\ payload' = [payload EXCEPT ![engine.push.message.file] = "whole"]
    /\ rewrites' = rewrites \ {engine.push.message.file}
    /\ UNCHANGED <<conv, dag, rows, cursor, breaks>>

\* INSERT OR IGNORE: a payload keeps the row of the session that saw it first.
FirstRow(p) == IF rows[p] = Nothing THEN engine.active ELSE rows[p]

PushReference ==
    /\ engine.push # Nothing /\ engine.push.written
    /\ LET m == engine.push.message IN
          /\ conv' = [conv EXCEPT ![engine.active] = Pushed(@, m)]
          /\ rows' = [rows EXCEPT ![m.file] = FirstRow(m.file)]
    /\ engine' = [engine EXCEPT !.push = Nothing]
    /\ UNCHANGED <<dag, payload, cursor, breaks, rewrites>>

\* The write or the transaction fails: the turn ends, the file stays as it is.
PushFails ==
    /\ engine.push # Nothing /\ Break
    /\ engine' = [engine EXCEPT !.push = Nothing]
    /\ UNCHANGED <<conv, dag, rows, payload, cursor, rewrites>>

\* repair_dangling_tool_calls, when a conversation becomes the active one.
Repaired(c) ==
    LET n == Len(c.messages) IN
    IF n > 0 /\ c.messages[n].role = "write"
    THEN Pushed(c, [role |-> "result", file |-> Nothing, path |-> Nothing])
    ELSE c

\* The cursor is written last; a failure to write it is ignored.
SwitchSession ==
    /\ Quiet
    /\ \E s \in Sessions \ {engine.active} :
          /\ conv' = [conv EXCEPT ![s] = Repaired(@)]
          /\ engine' = [engine EXCEPT !.active = s]
          /\ \/ cursor' = s /\ UNCHANGED breaks
             \/ Break /\ UNCHANGED cursor
    /\ UNCHANGED <<dag, rows, payload, rewrites>>

\* clear: the context items go, messages and summaries stay.
Forget ==
    /\ Quiet
    /\ conv' = [conv EXCEPT ![engine.active].context = NoEntries,
                            ![engine.active].base = Len(Here.messages)]
    /\ UNCHANGED <<dag, rows, payload, engine, cursor, breaks, rewrites>>

Kill ==
    /\ engine.up /\ Break
    /\ engine' = [Up(engine.active) EXCEPT !.up = FALSE]
    /\ UNCHANGED <<conv, dag, rows, payload, cursor, rewrites>>

Boot ==
    /\ ~engine.up
    /\ conv' = [conv EXCEPT ![cursor] = Repaired(@)]
    /\ engine' = Up(cursor)
    /\ UNCHANGED <<dag, rows, payload, cursor, breaks, rewrites>>

-----------------------------------------------------------------------------
(* Compaction *)

RawItems(c) == {o \in DOMAIN c.context : c.context[o].type = "message"}
SummaryItems(c) == {o \in DOMAIN c.context : c.context[o].type = "summary"}
IsUser(c, o) == c.messages[c.context[o].id].role = "user"

(* The raw items outside the fresh tail, and the newest user message.      *)
OldRaw(c) == {o \in RawItems(c) : Cardinality({p \in RawItems(c) : p > o}) >= FreshTail}
Pin(c) == {o \in RawItems(c) : /\ IsUser(c, o)
                               /\ \A p \in RawItems(c) : IsUser(c, p) => p <= o}

(* The first chunk the pass may write, oldest items first: the pin ends it *)
(* and stays, or the budget does after any of its items.                   *)
NextChunks(c) ==
    LET left == OldRaw(c) \ Pin(c)
        reach == {o \in left : \A p \in Pin(c) : p > Min(left) => p > o}
    IN  {{o \in reach : o <= last} : last \in reach}

(* What is loaded of a chunk: its range and its rows' ids.  `depth` is that *)
(* of the summary it becomes.                                              *)
Chunk(c, ordinals, depth) ==
    [first |-> Min(ordinals), last |-> Max(ordinals), depth |-> depth,
     sources |-> {c.context[o].id : o \in ordinals}]

(* DELETE ... BETWEEN the chunk's first and last ordinal, one item instead. *)
Replaced(context, chunk, id) ==
    [o \in {p \in DOMAIN context : p < chunk.first \/ p > chunk.last} \cup {chunk.first} |->
        IF o = chunk.first THEN Entry("summary", id) ELSE context[o]]

(* extract_file_ids of the messages' references, those with a row. *)
FilesOfMessages(c, ids) ==
    {p \in Payloads : rows[p] # Nothing /\ \E i \in ids : c.messages[i].file = p}
\* Mutant: a condensed summary lists the files its own text still names.
FilesOfLastSummary(ids) == dag[Max(ids)].files
FilesOfSummaries(ids) == UNION {dag[k].files : k \in ids}

WriteSummary(chunk, files) ==
    /\ dag' = Append(dag, [session |-> engine.active, depth |-> chunk.depth,
                           sources |-> chunk.sources, files |-> files])
    /\ conv' = [conv EXCEPT ![engine.active].context = Replaced(@, chunk, Len(dag) + 1)]

(* Before a completion, between turns or forced: the thresholds compare    *)
(* with what the provider reported, so they do not restrict when.          *)
StartCycle ==
    /\ Quiet
    /\ engine' = [engine EXCEPT !.cycle = "leaf"]
    /\ UNCHANGED <<conv, dag, rows, payload, cursor, breaks, rewrites>>

(* write_leaf_summary, one transaction per chunk.                          *)
WriteLeafSummary ==
    /\ engine.cycle = "leaf"
    /\ \E ordinals \in NextChunks(Here) :
          LET chunk == Chunk(Here, ordinals, 0) IN
          WriteSummary(chunk, FilesOfMessages(Here, chunk.sources))
    /\ UNCHANGED <<rows, payload, engine, cursor, breaks, rewrites>>

(* load_condensed_chunks: maximal runs of summaries of one depth.          *)
Depth(c, o) == dag[c.context[o].id].depth
RunOf(c, o) ==
    {p \in SummaryItems(c) : \A q \in DOMAIN c.context :
        (o <= q /\ q <= p) \/ (p <= q /\ q <= o)
            => q \in SummaryItems(c) /\ Depth(c, q) = Depth(c, o)}
Loaded(c) ==
    {Chunk(c, run, Depth(c, Min(run)) + 1) :
        run \in {R \in {RunOf(c, o) : o \in SummaryItems(c)} : Cardinality(R) >= MinFanout}}

(* The loop's query, after the leaf pass and after each round; runs over   *)
(* the token budget are left out.                                          *)
LoadCondensed ==
    /\ \/ engine.cycle = "leaf" /\ NextChunks(Here) = {}
       \/ engine.cycle = "condense" /\ engine.todo = {}
    /\ \E fitting \in SUBSET Loaded(Here) :
          engine' = [engine EXCEPT !.cycle = IF fitting = {} THEN "idle" ELSE "condense",
                                   !.todo = fitting]
    /\ UNCHANGED <<conv, dag, rows, payload, cursor, breaks, rewrites>>

(* write_condensed_summary, one transaction per run, oldest first.         *)
WriteCondensedSummary ==
    /\ \E chunk \in engine.todo :
          /\ \A other \in engine.todo : chunk.first <= other.first
          /\ WriteSummary(chunk, FilesOfSummaries(chunk.sources))
          /\ engine' = [engine EXCEPT !.todo = @ \ {chunk}]
    /\ UNCHANGED <<rows, payload, cursor, breaks, rewrites>>

CycleFails ==
    /\ engine.cycle # "idle" /\ Break
    /\ engine' = [engine EXCEPT !.cycle = "idle", !.todo = {}]
    /\ UNCHANGED <<conv, dag, rows, payload, cursor, rewrites>>

StoreNext ==
    \/ PushWhole \/ Intercept \/ WritePayload \/ PushReference \/ PushFails
    \/ SwitchSession \/ Forget \/ Kill \/ Boot
    \/ StartCycle \/ WriteLeafSummary \/ LoadCondensed \/ WriteCondensedSummary
    \/ CycleFails

StoreSpec == StoreInit /\ [][StoreNext]_storeVars

-----------------------------------------------------------------------------
(* assemble(): the written files *)

RawIds(c) == {c.context[o].id : o \in RawItems(c)}

NewestUser(c) == {i \in DOMAIN c.messages :
                     /\ c.messages[i].role = "user"
                     /\ \A j \in DOMAIN c.messages : c.messages[j].role = "user" => j <= i}

Since(c) == {i \in DOMAIN c.messages : \E u \in NewestUser(c) : i > u}
WriteCalls(c) == {i \in Since(c) : c.messages[i].role = "write"}
WrittenPaths(c) == {c.messages[i].path : i \in WriteCalls(c)}
LastCall(c, p) == Max({i \in WriteCalls(c) : c.messages[i].path = p})
WrittenLater(c, p) == {q \in WrittenPaths(c) : LastCall(c, q) > LastCall(c, p)}

(* written_files_segment: newest first, each path once, up to the cap;     *)
(* nothing while all that follows the newest user message is raw.          *)
WrittenFiles(c) ==
    IF Since(c) \subseteq RawIds(c) THEN {}
    ELSE {p \in WrittenPaths(c) : Cardinality(WrittenLater(c, p)) < ListCap}

(* Mutant: only when the context opens with a summary.                     *)
SegmentWhenFirst(c) ==
    IF \E o \in SummaryItems(c) : \A p \in DOMAIN c.context : o <= p
    THEN WrittenFiles(c) ELSE {}

(* assemble_sync: the segment goes with the recall guidance.               *)
Segment(c) == IF SummaryItems(c) # {} THEN WrittenFiles(c) ELSE {}

-----------------------------------------------------------------------------
(* Properties *)

(* The summaries at and below s: what every set has that holds s and, with *)
(* a condensed summary, its sources.                                       *)
Below(s) ==
    {d \in DOMAIN dag :
        \A S \in SUBSET DOMAIN dag :
            s \in S /\ (\A k \in S : dag[k].depth > 0 => dag[k].sources \subseteq S) => d \in S}
MessagesUnder(s) == UNION {dag[d].sources : d \in {k \in Below(s) : dag[k].depth = 0}}

RefersTo(s, p) == \E i \in DOMAIN conv[s].messages : conv[s].messages[i].file = p

(* Every reference that a message holds was put down with its metadata     *)
(* ("a reference can never exist without its metadata"): the payload has   *)
(* the row of a session whose own messages refer to it, and a whole file,  *)
(* unless a later push of the same content has reopened the file and not   *)
(* filled it.  And every summary lists the files of all the messages below *)
(* it.  In whichever session, after whichever failure, crash, switch or    *)
(* clear.                                                                  *)
ReferencesKept ==
    /\ \A s \in Sessions : \A p \in Payloads :
          RefersTo(s, p) => /\ rows[p] \in Sessions /\ RefersTo(rows[p], p)
                            /\ payload[p] = "whole" \/ p \in rewrites
    /\ \A s \in DOMAIN dag : \A i \in MessagesUnder(s) :
          LET p == conv[dag[s].session].messages[i].file IN
          p # Nothing => p \in dag[s].files

(* A session finds what its messages refer to: lcm_grep with scope "files" *)
(* and lcm_describe look among the rows of the active conversation.        *)
FoundFromHere == \A s \in Sessions, p \in Payloads : RefersTo(s, p) => rows[p] = s

(* What was written for the current request stays visible: the call is raw *)
(* in the context, or its path is listed, or the list is full of paths     *)
(* that were written later.                                                *)
WritesVisible ==
    \A s \in Sessions :
        LET c == conv[s] IN
        \A i \in DOMAIN c.messages :
            /\ c.messages[i].role = "write" /\ i > c.base
            /\ \A u \in NewestUser(c) : u < i
            => \/ i \in RawIds(c)
               \/ c.messages[i].path \in Segment(c)
               \/ /\ Cardinality(Segment(c)) = ListCap
                  /\ \A p \in Segment(c) :
                        \E j \in DOMAIN c.messages : j > i /\ c.messages[j].path = p
=============================================================================
