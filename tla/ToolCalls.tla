------------------------------ MODULE ToolCalls ------------------------------
(***************************************************************************)
(* The tool calls of a turn's rounds that outlive a cancel: calls of one   *)
(* MCP server (Connection::request, McpServer::call and spawn in           *)
(* src/tools/mcp.rs) and reviewer sub-agents (TaskTool::execute and        *)
(* record_review_with_retry in src/agent/task.rs, ReviewLedger in          *)
(* src/review.rs).  A round runs its calls concurrently; a cancelled turn  *)
(* drops them all, wherever they stand, and the next turn meets the server *)
(* process, its pipes and the ledger as they were left.                    *)
(***************************************************************************)
EXTENDS Integers, Sequences, FiniteSets

CONSTANTS Slots,      \* the calls of a round
          Trees,      \* Git trees under review
          MaxRounds,
          MaxDeaths,  \* how often the server process exits on its own
          Nobody

ASSUME ToolCallsAssumption ==
    MaxRounds \in Nat /\ MaxDeaths \in Nat /\ Nobody \notin Slots \cup Trees

VARIABLES round, deaths,
          call,     \* the calls of this round
          lock,     \* who holds the state mutex of the server
          server,   \* the child and its connection
          backoff,  \* dead_until lies ahead
          rows      \* the reviews table

vars == <<round, deaths, call, lock, server, backoff, rows>>

Requests == Slots \X (0 .. MaxRounds)
Mine(c) == <<c, round>>
Nothing == <<Nobody, 0>>
Failure == <<Nobody, 1>>

\* `next` is next_id; id 1 went to initialize.  `open` are requests the server has
\* read, `out` responses in its stdout, `torn` a line a dropped write left unended.
Down == [live |-> FALSE, up |-> FALSE, next |-> 1, open |-> {}, out |-> <<>>, torn |-> FALSE]
Spawned == [Down EXCEPT !.live = TRUE, !.up = TRUE]

\* A response without an id, the server's answer to a line it cannot read.
NoId == [id |-> 0, of |-> Nothing]

Idle == [kind |-> "none", pc |-> "done", id |-> 0, tries |-> 0, got |-> Nothing,
         tree |-> Nobody, bills |-> 0, said |-> "none"]

Init ==
    /\ round = 0 /\ deaths = 0 /\ lock = Nobody /\ backoff = FALSE /\ rows = {}
    /\ server = Spawned
    /\ call = [c \in Slots |-> Idle]

Ids == 0 .. 2 * MaxRounds * Cardinality(Slots) + 1
Responses == [id : Ids, of : Requests \cup {Nothing}]
Sayings == {"none", "known", "ids", "clean", "unparseable", "unwritten", "error"}
TypeOK ==
    /\ round \in 0 .. MaxRounds /\ deaths \in 0 .. MaxDeaths
    /\ lock \in Slots \cup {Nobody} /\ backoff \in BOOLEAN
    /\ rows \subseteq [of : Requests, tree : Trees \cup {Nobody}]
    /\ server.live \in BOOLEAN /\ server.up \in BOOLEAN /\ server.torn \in BOOLEAN
    /\ server.next \in Ids
    /\ server.open \subseteq Responses /\ server.out \in Seq(Responses)
    /\ call \in [Slots ->
           [kind : {"none", "mcp", "review"}, id : Ids, tries : 0 .. 1,
            pc : {"done", "lock", "spawn", "send", "read", "check", "review", "retry"},
            got : Requests \cup {Nothing, Failure}, tree : Trees \cup {Nobody},
            bills : 0 .. 1, said : Sayings]]

-----------------------------------------------------------------------------
(* McpServer::call: the mutex is held from the first step to the return.    *)

At(c, p) == call[c].pc = p
Goto(c, p) == call' = [call EXCEPT ![c].pc = p]

Return(c, r) ==
    /\ call' = [call EXCEPT ![c].pc = "done", ![c].got = r]
    /\ lock' = Nobody

\* A server that is down and backing off is not asked; one that is down is respawned.
Lock(c) ==
    /\ At(c, "lock") /\ lock = Nobody
    /\ \/ /\ server.live /\ Goto(c, "send") /\ lock' = c
       \/ /\ ~server.live /\ ~backoff /\ Goto(c, "spawn") /\ lock' = c
       \/ /\ ~server.live /\ backoff /\ Return(c, Failure)
    /\ UNCHANGED <<round, deaths, server, backoff, rows>>

\* The child starts and completes the handshake.  Only the first spawn of a call
\* clears dead_until; by the second it is over.
Spawn(c) ==
    /\ At(c, "spawn")
    /\ server' = Spawned /\ Goto(c, "send")
    /\ backoff' = IF call[c].tries = 0 THEN FALSE ELSE backoff
    /\ UNCHANGED <<round, deaths, lock, rows>>

SpawnFails(c) ==
    /\ At(c, "spawn")
    /\ backoff' = TRUE
    /\ Return(c, Failure)
    /\ UNCHANGED <<round, deaths, server, rows>>

BackoffExpires ==
    /\ backoff
    /\ backoff' = FALSE
    /\ UNCHANGED <<round, deaths, call, lock, server, rows>>

\* The line is written.  Behind a torn line it makes one the server cannot read.
Send(c) ==
    LET id == server.next + 1
    IN  /\ At(c, "send") /\ server.up
        /\ server' = [server EXCEPT !.next = id, !.torn = FALSE,
               !.open = @ \cup {IF server.torn THEN NoId ELSE [id |-> id, of |-> Mine(c)]}]
        /\ call' = [call EXCEPT ![c].pc = "read", ![c].id = id]
        /\ UNCHANGED <<round, deaths, lock, backoff, rows>>

\* A response for another id belongs to an abandoned request; one without an id is
\* an error of the protocol.
AnswersNewer(c, r) == r.id > 0
Answers(c, r) == r.id = call[c].id
Read(c) ==
    /\ At(c, "read") /\ server.out # <<>>
    /\ server' = [server EXCEPT !.out = Tail(@)]
    /\ LET r == Head(server.out)
       IN  \/ /\ Answers(c, r) /\ \E got \in {r.of, Failure} : Return(c, got)
           \/ /\ r = NoId /\ Return(c, Failure)
           \/ /\ r # NoId /\ ~Answers(c, r) /\ UNCHANGED <<call, lock>>
    /\ UNCHANGED <<round, deaths, backoff, rows>>

\* The call timeout.  The connection stays, and with it the request.
CallTimesOut(c) ==
    /\ At(c, "send") \/ At(c, "read")
    /\ Return(c, Failure)
    /\ \E cut \in IF At(c, "send") THEN BOOLEAN ELSE {server.torn} :
           server' = [server EXCEPT !.torn = cut]
    /\ UNCHANGED <<round, deaths, backoff, rows>>

\* The pipe is closed: one respawn and one retry, then the error is the answer and
\* the dead connection is kept for the next call to find.
TransportFails(c) ==
    /\ ~server.up
    /\ At(c, "send") \/ (At(c, "read") /\ server.out = <<>>)
    /\ \/ /\ call[c].tries = 0
          /\ server' = Down
          /\ call' = [call EXCEPT ![c].pc = "spawn", ![c].tries = 1]
          /\ UNCHANGED lock
       \/ /\ call[c].tries = 1
          /\ Return(c, Failure)
          /\ UNCHANGED server
    /\ UNCHANGED <<round, deaths, backoff, rows>>

\* The server, on its own: it answers in any order, and it dies.
Answer ==
    /\ server.up
    /\ \E r \in server.open :
           server' = [server EXCEPT !.open = @ \ {r}, !.out = Append(@, r)]
    /\ UNCHANGED <<round, deaths, call, lock, backoff, rows>>

Die ==
    /\ server.up /\ deaths < MaxDeaths
    /\ deaths' = deaths + 1
    /\ server' = [server EXCEPT !.up = FALSE, !.open = {}]
    /\ UNCHANGED <<round, call, lock, backoff, rows>>

-----------------------------------------------------------------------------
(* A reviewer sub-agent and its record.                                     *)

\* has_reviewed_tree, when the call names its tree; a failed lookup dispatches.
Reviewed(c) == call[c].tree # Nobody /\ \E r \in rows : r.tree = call[c].tree
Check(c) ==
    /\ At(c, "check")
    /\ \/ /\ Reviewed(c)
          /\ call' = [call EXCEPT ![c].pc = "done", ![c].said = "known"]
       \/ Goto(c, "review")
    /\ UNCHANGED <<round, deaths, lock, server, backoff, rows>>

Billed(c, said) ==
    call' = [call EXCEPT ![c].pc = "done", ![c].said = said, ![c].bills = @ + 1]

\* record_review: the review and its findings in one transaction, or nothing.
RecordedTorn(c) ==
    \/ rows' = rows \cup {[of |-> Mine(c), tree |-> call[c].tree]}
       /\ \E said \in {"ids", "clean", "unwritten"} : Billed(c, said)
    \/ UNCHANGED rows /\ Billed(c, "unwritten")
Recorded(c) ==
    \/ rows' = rows \cup {[of |-> Mine(c), tree |-> call[c].tree]}
       /\ \E said \in {"ids", "clean"} : Billed(c, said)
    \/ UNCHANGED rows /\ Billed(c, "unwritten")

\* The reviewer answers, with a findings block or without; or its turn fails.
Review(c) ==
    /\ At(c, "review")
    /\ \/ Recorded(c)
       \/ Goto(c, "retry") /\ UNCHANGED rows
       \/ Billed(c, "error") /\ UNCHANGED rows
    /\ UNCHANGED <<round, deaths, lock, server, backoff>>

\* The one corrective turn.
Retry(c) ==
    /\ At(c, "retry")
    /\ \/ Recorded(c)
       \/ Billed(c, "unparseable") /\ UNCHANGED rows
    /\ UNCHANGED <<round, deaths, lock, server, backoff>>

-----------------------------------------------------------------------------
(* Rounds.                                                                  *)

McpCall == [Idle EXCEPT !.kind = "mcp", !.pc = "lock"]
ReviewCall(t) == [Idle EXCEPT !.kind = "review", !.pc = "check", !.tree = t]

StartRound ==
    /\ round < MaxRounds /\ \A c \in Slots : At(c, "done")
    /\ round' = round + 1
    /\ call' \in [Slots -> {McpCall} \cup {ReviewCall(t) : t \in Trees \cup {Nobody}}]
    /\ UNCHANGED <<deaths, lock, server, backoff, rows>>

\* The futures of the round are dropped, and the mutex with them.  A write may be
\* left half way; the connection of a retry is still a local of its call, so its
\* child goes too, as does a child whose handshake was under way.
Dropped(cut) ==
    IF lock # Nobody /\ call[lock].tries = 1 THEN Down ELSE [server EXCEPT !.torn = cut]

Cancel ==
    /\ \E c \in Slots : ~At(c, "done")
    /\ call' = [c \in Slots |-> IF At(c, "done") THEN call[c] ELSE Idle]
    /\ lock' = Nobody
    /\ \E cut \in IF lock # Nobody /\ At(lock, "send") THEN BOOLEAN ELSE {server.torn} :
           server' = Dropped(cut)
    /\ UNCHANGED <<round, deaths, backoff, rows>>

CallStep(c) ==
    \/ Lock(c) \/ Spawn(c) \/ SpawnFails(c) \/ Send(c) \/ Read(c) \/ CallTimesOut(c)
    \/ TransportFails(c) \/ Check(c) \/ Review(c) \/ Retry(c)

Next ==
    \/ \E c \in Slots : CallStep(c)
    \/ Answer \/ Die \/ BackoffExpires \/ StartRound \/ Cancel

Spec == Init /\ [][Next]_vars

-----------------------------------------------------------------------------
(* Properties. *)

\* An MCP call returns the answer to its own request and to no other, whatever
\* calls before it timed out or were dropped and are answered late.
OwnAnswer == \A c \in Slots :
    call[c].got \notin {Nothing, Failure} => call[c].got = Mine(c)

\* A reviewer call's words are true: ids or a clean verdict mean its rows are in the
\* ledger, any other ending that they are not, a known tree that an earlier review
\* of it is; and each dispatched reviewer that ended is billed once, retry included.
ReviewAccounted == \A c \in Slots : call[c].said # "none" =>
    /\ call[c].said \in {"ids", "clean"} <=> \E r \in rows : r.of = Mine(c)
    /\ call[c].said = "known" => \E r \in rows : r.tree = call[c].tree /\ r.of # Mine(c)
    /\ call[c].bills = IF call[c].said = "known" THEN 0 ELSE 1
=============================================================================
