----------------------------- MODULE ToolsProofs -----------------------------
(***************************************************************************)
(* The tools whose calls share what outlives them, for every number of     *)
(* calls, rounds and faults: an MCP server, a ledger, a clone.             *)
(*                                                                         *)
(* An MCP call returns the answer to its own request (OwnAnswer), and what *)
(* a reviewer call says, is billed and leaves in the ledger agree          *)
(* (ReviewAccounted).                                                      *)
(*                                                                         *)
(* git_rebase and git_fixup overwrite nothing at the remote that was not   *)
(* fetched, publish all that they set out from, and roll back to where     *)
(* they started: GitInv says at each step of a tool where the patches are  *)
(* (Whole), which commit is the fixup's (Fixes), and what a rollback that  *)
(* met no fault has restored (RollsBack).                                  *)
(***************************************************************************)
EXTENDS ToolCalls, GitTools, FiniteSetTheorems, TLAPS

(* MCP and reviewer calls.                                                 *)

Asked == Slots \X Nat
Response == [id : Nat, of : Asked \cup {Nothing}]
ServerRecord == [live : BOOLEAN, up : BOOLEAN, next : Nat, open : SUBSET Response,
                 out : Seq(Response), torn : BOOLEAN]
CallRecord == [kind : {"none", "mcp", "review"}, id : Nat, tries : 0 .. 1,
               pc : {"done", "lock", "spawn", "send", "read", "check", "review", "retry"},
               got : Asked \cup {Nothing, Failure}, tree : Trees \cup {Nobody},
               bills : Nat, said : Sayings]

Types ==
    /\ round \in Nat
    /\ server \in ServerRecord
    /\ call \in [Slots -> CallRecord]
    /\ rows \subseteq [of : Asked, tree : Trees \cup {Nobody}]

\* The mutex of the server is the call's while it is at work.
Held == \A c \in Slots : call[c].pc \in {"spawn", "send", "read"} => lock = c

\* What the connection still holds has an id it gave out.
Given(r) == r.id <= server.next
Numbered ==
    /\ server.next >= 1
    /\ \A r \in server.open : Given(r)
    /\ \A i \in 1 .. Len(server.out) : Given(server.out[i])

\* The id a call reads for is the id of its request alone.
For(c, r) == r.id = call[c].id => r.of = Mine(c)
Matched == \A c \in Slots : call[c].pc = "read" =>
    /\ call[c].id >= 1 /\ call[c].id <= server.next
    /\ \A r \in server.open : For(c, r)
    /\ \A i \in 1 .. Len(server.out) : For(c, server.out[i])

\* Rows come from rounds begun, and a call that said nothing left none.
Unbilled(c) == call[c].bills = 0 /\ \A r \in rows : r.of # Mine(c)
Accounts ==
    /\ \A r \in rows : r.of[2] <= round
    /\ \A c \in Slots : /\ call[c].pc # "done" => call[c].said = "none"
                        /\ call[c].pc # "done" => call[c].got = Nothing
                        /\ call[c].said = "none" => Unbilled(c)

IInv == Types /\ Held /\ Numbered /\ Matched /\ Accounts /\ OwnAnswer /\ ReviewAccounted

-----------------------------------------------------------------------------
LEMMA Records ==
    /\ Idle \in CallRecord /\ Down \in ServerRecord /\ Spawned \in ServerRecord
    /\ NoId \in Response
    /\ Nothing # Failure
    /\ Nothing \notin Asked /\ Failure \notin Asked
<1>1. Nobody \notin Slots
  BY ToolCallsAssumption
<1>2. Nothing # Failure /\ Nothing \notin Asked /\ Failure \notin Asked
  BY <1>1 DEF Nothing, Failure, Asked
<1>3. Idle \in CallRecord
  BY DEF Idle, CallRecord, Sayings
<1>4. <<>> \in Seq(Response)
  OBVIOUS
<1>5. Down \in ServerRecord
  BY <1>4 DEF Down, ServerRecord
<1>6. Spawned \in ServerRecord
  BY <1>5 DEF Spawned, ServerRecord
<1>7. NoId \in Response
  BY DEF NoId, Response
<1>8. QED
  BY <1>2, <1>3, <1>5, <1>6, <1>7

LEMMA IdleFields ==
    Idle.pc = "done" /\ Idle.got = Nothing /\ Idle.said = "none" /\ Idle.bills = 0
BY DEF Idle

LEMMA MineAsked == ASSUME Types, NEW c \in Slots PROVE Mine(c) \in Asked
BY DEF Types, Mine, Asked

LEMMA InitHolds == Init => IInv
<1> SUFFICES ASSUME Init PROVE IInv
  OBVIOUS
<1>1. Types
  BY Records DEF Init, Types
<1>2. \A c \in Slots : call[c] = Idle
  BY DEF Init
<1>3. Held /\ Matched /\ OwnAnswer /\ ReviewAccounted
  BY <1>2, IdleFields DEF Held, Matched, OwnAnswer, ReviewAccounted
<1>4. Numbered
  BY DEF Init, Numbered, Spawned, Down
<1>5. Accounts
  BY <1>2, IdleFields DEF Init, Accounts, Unbilled
<1>6. QED
  BY <1>1, <1>3, <1>4, <1>5 DEF IInv

(* A step that leaves rows, words and bills alone keeps the accounts. *)
LEMMA AccountsStay ==
    ASSUME IInv, UNCHANGED <<round, rows>>, call' \in [Slots -> CallRecord],
           \A c \in Slots : /\ call'[c].said = call[c].said /\ call'[c].bills = call[c].bills
                            /\ call'[c].tree = call[c].tree
                            /\ (call'[c].pc # "done" => call[c].pc # "done" /\ call'[c].got = Nothing)
    PROVE  Accounts' /\ ReviewAccounted'
<1>1. \A c \in Slots : Mine(c)' = Mine(c)
  BY DEF Mine
<1>2. \A c \in Slots : Unbilled(c) => Unbilled(c)'
  BY <1>1 DEF Unbilled
<1>3. Accounts'
  BY <1>2 DEF IInv, Accounts
<1>4. ReviewAccounted'
  BY <1>1 DEF IInv, ReviewAccounted
<1>5. QED
  BY <1>3, <1>4

(* A call that ends with an answer of its own, or fails. *)
LEMMA ReturnKeeps ==
    ASSUME IInv, NEW c \in Slots, call[c].pc # "done", NEW got \in {Mine(c), Failure},
           Return(c, got), UNCHANGED <<round, rows>>, server' \in ServerRecord, Numbered',
           lock \in {c, Nobody}
    PROVE  IInv'
<1> DEFINE e == [call[c] EXCEPT !.pc = "done", !.got = got]
<1>a. call' = [call EXCEPT ![c] = e]
  BY DEF Return
<1>b. call[c] \in CallRecord
  BY DEF IInv, Types
<1>c. got \in Asked \cup {Nothing, Failure}
  BY MineAsked DEF IInv
<1>d. e \in CallRecord
  BY <1>b, <1>c DEF CallRecord
<1>1. call' \in [Slots -> CallRecord]
  BY <1>a, <1>d DEF IInv, Types
<1>2. \A d \in Slots : d # c => call'[d] = call[d]
  BY DEF Return, IInv, Types
<1>3. call'[c].pc = "done" /\ call'[c].got = got /\ call'[c].said = call[c].said
      /\ call'[c].bills = call[c].bills /\ call'[c].tree = call[c].tree
  BY DEF Return, IInv, Types, CallRecord
<1>4. \A d \in Slots : call'[d].pc \notin {"spawn", "send", "read"}
  BY <1>2, <1>3, ToolCallsAssumption DEF IInv, Held
<1>5. Held' /\ Matched'
  BY <1>4 DEF Held, Matched
<1>6. OwnAnswer'
  BY <1>2, <1>3 DEF IInv, OwnAnswer, Mine
<1>7. Accounts' /\ ReviewAccounted'
  BY <1>1, <1>2, <1>3, AccountsStay DEF IInv, Accounts
<1>8. Types'
  BY <1>1 DEF IInv, Types
<1>9. QED
  BY <1>5, <1>6, <1>7, <1>8 DEF IInv

-----------------------------------------------------------------------------
(* A call that goes on, still unanswered. *)
LEMMA GoOnKeeps ==
    ASSUME IInv, NEW c \in Slots, NEW e \in CallRecord, call[c].pc # "done",
           call' = [call EXCEPT ![c] = e], e.pc \notin {"done", "read"}, e.got = Nothing,
           e.said = call[c].said, e.bills = call[c].bills, e.tree = call[c].tree,
           e.pc \in {"spawn", "send"} => lock' = c,
           lock' # lock => lock = Nobody,
           UNCHANGED <<round, rows>>,
           \/ UNCHANGED server
           \/ server' \in ServerRecord /\ Numbered' /\ lock = c
    PROVE  IInv'
<1>1. call' \in [Slots -> CallRecord] /\ call'[c] = e /\ \A d \in Slots : d # c => call'[d] = call[d]
  BY DEF IInv, Types
<1>2. Types' /\ Numbered'
  BY <1>1 DEF IInv, Types, Numbered, Given
<1>3. Held'
  BY <1>1, ToolCallsAssumption DEF IInv, Held
<1>4. Matched'
  <2>1. CASE UNCHANGED server
    BY <1>1, <2>1 DEF IInv, Matched, For, Mine
  <2>2. CASE lock = c
    <3>1. \A d \in Slots : call'[d].pc # "read"
      BY <1>1, <2>2 DEF IInv, Held
    <3>2. QED
      BY <3>1 DEF Matched
  <2>3. QED
    BY <2>1, <2>2
<1>5. OwnAnswer'
  BY <1>1 DEF IInv, OwnAnswer, Mine
<1>6. Accounts' /\ ReviewAccounted'
  BY <1>1, AccountsStay DEF IInv, Accounts
<1>7. QED
  BY <1>2, <1>3, <1>4, <1>5, <1>6 DEF IInv

LEMMA Fields == ASSUME IInv, NEW c \in Slots
    PROVE  /\ call[c] \in CallRecord
           /\ call[c].pc # "done" => call[c].got = Nothing /\ call[c].said = "none" /\ Unbilled(c)
           /\ call[c].pc \in {"spawn", "send", "read"} => lock = c
BY DEF IInv, Types, Accounts, Held

LEMMA FreshServer == ASSUME server' \in {Down, Spawned} PROVE server' \in ServerRecord /\ Numbered'
<1>0. Spawned.next = 1 /\ Spawned.open = {} /\ Spawned.out = <<>>
      /\ Down.next = 1 /\ Down.open = {} /\ Down.out = <<>>
  BY DEF Down, Spawned
<1>1. server'.next = 1 /\ server'.open = {} /\ server'.out = <<>>
  BY <1>0
<1>2. server' \in ServerRecord
  BY Records
<1>3. QED
  BY <1>1, <1>2 DEF Numbered, Given

LEMMA LockKeeps == ASSUME IInv, NEW c \in Slots, Lock(c) PROVE IInv'
<1>1. /\ call[c] \in CallRecord /\ call[c].pc = "lock" /\ call[c].got = Nothing /\ lock = Nobody
      /\ UNCHANGED <<round, rows, server>>
  BY Fields DEF Lock, At
<1>2. ASSUME NEW p \in {"send", "spawn"}, Goto(c, p), lock' = c PROVE IInv'
  <2> DEFINE e == [call[c] EXCEPT !.pc = p]
  <2>1. e \in CallRecord /\ e.pc = p /\ e.got = Nothing /\ e.said = call[c].said
        /\ e.bills = call[c].bills /\ e.tree = call[c].tree
    BY <1>1 DEF CallRecord
  <2>2. call' = [call EXCEPT ![c] = e]
    BY <1>2 DEF Goto
  <2> HIDE DEF e
  <2>3. QED
    BY <1>1, <1>2, <2>1, <2>2, GoOnKeeps
<1>3. ASSUME Return(c, Failure) PROVE IInv'
  <2>1. server' \in ServerRecord /\ Numbered'
    BY <1>1 DEF IInv, Types, Numbered, Given
  <2>2. QED
    BY <1>1, <1>3, <2>1, ReturnKeeps
<1>4. QED
  BY <1>2, <1>3 DEF Lock

LEMMA SpawnKeeps == ASSUME IInv, NEW c \in Slots, Spawn(c) PROVE IInv'
<1>1. /\ call[c] \in CallRecord /\ call[c].pc = "spawn" /\ call[c].got = Nothing /\ lock = c
      /\ UNCHANGED <<round, rows, lock>> /\ server' = Spawned /\ Goto(c, "send")
  BY Fields DEF Spawn, At
<1> DEFINE e == [call[c] EXCEPT !.pc = "send"]
<1>2. e \in CallRecord /\ e.pc = "send" /\ e.got = Nothing /\ e.said = call[c].said
      /\ e.bills = call[c].bills /\ e.tree = call[c].tree
  BY <1>1 DEF CallRecord
<1>3. call' = [call EXCEPT ![c] = e]
  BY <1>1 DEF Goto
<1> HIDE DEF e
<1>4. QED
  BY <1>1, <1>2, <1>3, FreshServer, GoOnKeeps

LEMMA SpawnFailsKeeps == ASSUME IInv, NEW c \in Slots, SpawnFails(c) PROVE IInv'
<1>1. call[c].pc = "spawn" /\ lock = c /\ UNCHANGED <<round, rows, server>> /\ Return(c, Failure)
  BY Fields DEF SpawnFails, At
<1>2. server' \in ServerRecord /\ Numbered'
  BY <1>1 DEF IInv, Types, Numbered, Given
<1>3. QED
  BY <1>1, <1>2, ReturnKeeps

(* What a connection that only loses requests keeps. *)
LEMMA Lost == ASSUME IInv, server' \in ServerRecord, server'.next = server.next,
                     server'.open \subseteq server.open, server'.out = server.out
              PROVE  Numbered'
BY DEF IInv, Numbered, Given

(* The ids in the pipe. *)
LEMMA OutIds == ASSUME IInv, NEW i \in 1 .. Len(server.out)
                PROVE  server.out[i].id \in Nat /\ server.out[i].id <= server.next
<1>1. server.out \in Seq(Response)
  BY DEF IInv, Types, ServerRecord
<1>2. server.out[i] \in Response
  BY <1>1
<1>3. QED
  BY <1>2 DEF Response, IInv, Numbered, Given

LEMMA SendKeeps == ASSUME IInv, NEW c \in Slots, Send(c) PROVE IInv'
<1> DEFINE id == server.next + 1
           r == IF server.torn THEN NoId ELSE [id |-> id, of |-> Mine(c)]
           e == [call[c] EXCEPT !.pc = "read", !.id = id]
<1>1. /\ call[c] \in CallRecord /\ call[c].pc = "send" /\ call[c].got = Nothing /\ lock = c
      /\ call[c].said = "none"
      /\ UNCHANGED <<round, rows, lock>>
      /\ call' = [call EXCEPT ![c].pc = "read", ![c].id = id]
      /\ server' = [server EXCEPT !.next = id, !.torn = FALSE, !.open = @ \cup {r}]
  BY Fields DEF Send, At
<1>2. server \in ServerRecord /\ server.next \in Nat /\ id \in Nat /\ id > server.next /\ server.next >= 1 /\ id # 0
  BY DEF IInv, Types, Numbered, ServerRecord
<1>3. r \in Response /\ r.id <= id /\ (r.id = id => r.of = Mine(c))
  BY <1>2, MineAsked, Records DEF Response, NoId, IInv
<1>4. server'.next = id /\ server'.open = server.open \cup {r} /\ server'.out = server.out
  BY <1>1, <1>2 DEF ServerRecord
<1>5. server' \in ServerRecord
  BY <1>1, <1>2, <1>3 DEF ServerRecord
<1>6. e \in CallRecord /\ e.pc = "read" /\ e.id = id /\ e.got = Nothing /\ e.said = call[c].said
      /\ e.bills = call[c].bills /\ e.tree = call[c].tree
  BY <1>1, <1>2 DEF CallRecord
<1>7. call' = [call EXCEPT ![c] = e]
  BY <1>1
<1> HIDE DEF e
<1>8. call' \in [Slots -> CallRecord] /\ call'[c] = e /\ \A d \in Slots : d # c => call'[d] = call[d]
  BY <1>6, <1>7 DEF IInv, Types
<1> HIDE DEF r
<1>9. Numbered'
  <2>1. \A x \in server'.open : x.id <= id
    BY <1>2, <1>3, <1>4 DEF IInv, Numbered, Given, ServerRecord, Response
  <2>2. \A i \in 1 .. Len(server'.out) : server'.out[i].id <= id
    <3> SUFFICES ASSUME NEW i \in 1 .. Len(server.out) PROVE server.out[i].id <= id
      BY <1>4
    <3>1. server.out[i].id \in Nat /\ server.out[i].id <= server.next
      BY OutIds
    <3>2. QED
      BY <1>2, <3>1
  <2>3. QED
    BY <1>2, <1>4, <2>1, <2>2 DEF Numbered, Given
<1>10. Held'
  BY <1>1, <1>6, <1>8 DEF IInv, Held
<1>11. Matched'
  <2>1. \A d \in Slots : call'[d].pc = "read" => d = c
    BY <1>1, <1>8 DEF IInv, Held
  <2>2. \A x \in server'.open : x.id = id => x.of = Mine(c)
    BY <1>2, <1>3, <1>4 DEF IInv, Numbered, Given, ServerRecord, Response
  <2>3. \A i \in 1 .. Len(server'.out) : server'.out[i].id # id
    BY <1>2, <1>4 DEF IInv, Numbered, Given, ServerRecord, Response
  <2>4. Mine(c)' = Mine(c)
    BY <1>1 DEF Mine
  <2>5. QED
    BY <1>2, <1>4, <1>6, <1>8, <2>1, <2>2, <2>3, <2>4 DEF Matched, For
<1>12. OwnAnswer'
  BY <1>1, <1>6, <1>8 DEF IInv, OwnAnswer, Mine
<1>13. Accounts' /\ ReviewAccounted'
  BY <1>1, <1>6, <1>8, AccountsStay DEF IInv, Accounts
<1>14. QED
  BY <1>1, <1>5, <1>8, <1>9, <1>10, <1>11, <1>12, <1>13 DEF IInv, Types

LEMMA ReadKeeps == ASSUME IInv, NEW c \in Slots, Read(c) PROVE IInv'
<1>1. /\ call[c].pc = "read" /\ lock = c /\ server.out # <<>>
      /\ UNCHANGED <<round, rows>> /\ server' = [server EXCEPT !.out = Tail(@)]
  BY Fields DEF Read, At
<1>2. server \in ServerRecord /\ server.out \in Seq(Response)
  BY DEF IInv, Types, ServerRecord
<1>3. /\ Tail(server.out) \in Seq(Response) /\ Head(server.out) = server.out[1]
      /\ Len(server.out) >= 1
      /\ Len(Tail(server.out)) = Len(server.out) - 1
      /\ \A i \in 1 .. Len(Tail(server.out)) : /\ Tail(server.out)[i] = server.out[i + 1]
                                              /\ i + 1 \in 1 .. Len(server.out)
  BY <1>1, <1>2
<1>4. /\ server' \in ServerRecord /\ server'.out = Tail(server.out)
      /\ server'.open = server.open /\ server'.next = server.next
  BY <1>1, <1>2, <1>3 DEF ServerRecord
<1>5. Numbered'
  BY <1>3, <1>4 DEF IInv, Numbered, Given
<1>6. ASSUME NEW got \in {Head(server.out).of, Failure}, Answers(c, Head(server.out)), Return(c, got)
      PROVE  IInv'
  <2>1. Head(server.out).of = Mine(c)
    BY <1>1, <1>3, <1>6 DEF IInv, Matched, For, Answers
  <2>2. QED
    BY <1>1, <1>4, <1>5, <1>6, <2>1, ReturnKeeps
<1>7. ASSUME Return(c, Failure) PROVE IInv'
  BY <1>1, <1>4, <1>5, <1>7, ReturnKeeps
<1>8. ASSUME UNCHANGED <<call, lock>> PROVE IInv'
  <2>1. Types' /\ Held' /\ OwnAnswer'
    BY <1>1, <1>4, <1>8 DEF IInv, Types, Held, OwnAnswer, Mine
  <2>2. Matched'
    BY <1>1, <1>3, <1>4, <1>8 DEF IInv, Matched, For, Mine
  <2>3. Accounts' /\ ReviewAccounted'
    BY <1>1, <1>8, AccountsStay DEF IInv, Accounts, Types
  <2>4. QED
    BY <1>5, <2>1, <2>2, <2>3 DEF IInv
<1>9. QED
  BY <1>6, <1>7, <1>8 DEF Read

LEMMA CallTimesOutKeeps == ASSUME IInv, NEW c \in Slots, CallTimesOut(c) PROVE IInv'
<1>1. PICK cut \in BOOLEAN : server' = [server EXCEPT !.torn = cut]
  BY DEF CallTimesOut, IInv, Types, ServerRecord
<1>2. call[c].pc # "done" /\ lock = c /\ UNCHANGED <<round, rows>> /\ Return(c, Failure)
  BY Fields DEF CallTimesOut, At
<1>3. server' \in ServerRecord /\ server'.next = server.next
      /\ server'.open = server.open /\ server'.out = server.out
  BY <1>1 DEF IInv, Types, ServerRecord
<1>4. QED
  BY <1>2, <1>3, Lost, ReturnKeeps

LEMMA TransportFailsKeeps == ASSUME IInv, NEW c \in Slots, TransportFails(c) PROVE IInv'
<1>1. /\ call[c] \in CallRecord /\ call[c].pc \in {"send", "read"} /\ lock = c
      /\ call[c].got = Nothing /\ UNCHANGED <<round, rows>>
  BY Fields DEF TransportFails, At
<1>2. ASSUME server' = Down, call' = [call EXCEPT ![c].pc = "spawn", ![c].tries = 1],
             UNCHANGED lock
      PROVE  IInv'
  <2> DEFINE e == [call[c] EXCEPT !.pc = "spawn", !.tries = 1]
  <2>a. 1 \in 0 .. 1
    OBVIOUS
  <2>1. e \in CallRecord /\ e.pc = "spawn" /\ e.got = Nothing /\ e.said = call[c].said
        /\ e.bills = call[c].bills /\ e.tree = call[c].tree
    BY <1>1, <2>a DEF CallRecord
  <2>2. call' = [call EXCEPT ![c] = e]
    BY <1>2
  <2> HIDE DEF e
  <2>3. QED
    BY <1>1, <1>2, <2>1, <2>2, FreshServer, GoOnKeeps
<1>3. ASSUME Return(c, Failure), UNCHANGED server PROVE IInv'
  <2>1. server' \in ServerRecord /\ Numbered'
    BY <1>3 DEF IInv, Types, Numbered, Given
  <2>2. QED
    BY <1>1, <1>3, <2>1, ReturnKeeps
<1>4. QED
  BY <1>2, <1>3 DEF TransportFails

-----------------------------------------------------------------------------
(* The server on its own. *)
LEMMA AnswerKeeps == ASSUME IInv, Answer PROVE IInv'
<1>1. PICK r \in server.open :
         server' = [server EXCEPT !.open = @ \ {r}, !.out = Append(@, r)]
  BY DEF Answer
<1>2. server \in ServerRecord /\ server.out \in Seq(Response) /\ r \in Response
  BY <1>1 DEF IInv, Types, ServerRecord
<1>3. UNCHANGED <<round, call, lock, rows>>
  BY DEF Answer
<1>4. /\ server' \in ServerRecord /\ server'.next = server.next
      /\ server'.open = server.open \ {r} /\ server'.out = Append(server.out, r)
  <2>1. Append(server.out, r) \in Seq(Response) /\ server.open \ {r} \in SUBSET Response
    BY <1>2 DEF ServerRecord
  <2>2. QED
    BY <1>1, <1>2, <2>1 DEF ServerRecord
<1>5. \A i \in 1 .. Len(server'.out) :
         server'.out[i] = r \/ \E j \in 1 .. Len(server.out) : server'.out[i] = server.out[j]
  BY <1>2, <1>4
<1>6. Numbered'
  BY <1>4, <1>5 DEF IInv, Numbered, Given
<1>7. Matched'
  BY <1>3, <1>4, <1>5 DEF IInv, Matched, For, Mine
<1>8. Types' /\ Held' /\ OwnAnswer'
  BY <1>3, <1>4 DEF IInv, Types, Held, OwnAnswer, Mine
<1>9. Accounts' /\ ReviewAccounted'
  BY <1>3, AccountsStay DEF IInv, Accounts, Types
<1>10. QED
  BY <1>6, <1>7, <1>8, <1>9 DEF IInv

LEMMA DieKeeps == ASSUME IInv, Die PROVE IInv'
<1>1. UNCHANGED <<round, call, lock, rows>> /\ server' = [server EXCEPT !.up = FALSE, !.open = {}]
  BY DEF Die
<1>2. server' \in ServerRecord /\ server'.next = server.next
      /\ server'.open = {} /\ server'.out = server.out
  BY <1>1 DEF IInv, Types, ServerRecord
<1>3. Numbered'
  BY <1>2, Lost
<1>4. Matched'
  BY <1>1, <1>2 DEF IInv, Matched, For, Mine
<1>5. Types' /\ Held' /\ OwnAnswer'
  BY <1>1, <1>2 DEF IInv, Types, Held, OwnAnswer, Mine
<1>6. Accounts' /\ ReviewAccounted'
  BY <1>1, AccountsStay DEF IInv, Accounts, Types
<1>7. QED
  BY <1>3, <1>4, <1>5, <1>6 DEF IInv

LEMMA StutterKeeps ==
    ASSUME IInv, UNCHANGED <<round, call, lock, server, rows>> PROVE IInv'
<1>1. Types' /\ Held' /\ OwnAnswer' /\ Numbered' /\ Matched'
  BY DEF IInv, Types, Held, OwnAnswer, Numbered, Given, Matched, For, Mine
<1>2. Accounts' /\ ReviewAccounted'
  BY AccountsStay DEF IInv, Accounts, Types
<1>3. QED
  BY <1>1, <1>2 DEF IInv

-----------------------------------------------------------------------------
(* Reviewers. *)
Bill(said) == IF said = "known" THEN 0 ELSE 1

(* A reviewer call that ends with a word that is true. *)
LEMMA SaysKeeps ==
    ASSUME IInv, NEW c \in Slots, NEW said \in Sayings \ {"none"}, NEW e \in CallRecord,
           call[c].pc # "done", call' = [call EXCEPT ![c] = e], e.pc = "done",
           e.said = said, e.got = call[c].got, e.tree = call[c].tree, e.bills = Bill(said),
           UNCHANGED <<round, server, lock>>,
           NEW new \in SUBSET [of : {Mine(c)}, tree : Trees \cup {Nobody}],
           rows' = rows \cup new,
           (said \in {"ids", "clean"}) <=> new # {},
           said = "known" => \E r \in rows : r.tree = call[c].tree /\ r.of # Mine(c)
    PROVE  IInv'
<1>1. call' \in [Slots -> CallRecord] /\ call'[c] = e /\ \A d \in Slots : d # c => call'[d] = call[d]
  BY DEF IInv, Types
<1>2. Mine(c) \in Asked /\ Unbilled(c) /\ call[c].got = Nothing /\ \A d \in Slots : Mine(d)' = Mine(d)
  BY Fields, MineAsked DEF IInv, Mine
<1>3. \A r \in new : r.of = Mine(c) /\ r.of[2] = round
  BY DEF Mine
<1>4. Types'
  BY <1>1, <1>2 DEF IInv, Types
<1>5. Held' /\ Numbered' /\ Matched' /\ OwnAnswer'
  BY <1>1, <1>2 DEF IInv, Held, Numbered, Given, Matched, For, OwnAnswer
<1>6. ASSUME NEW d \in Slots, d # c PROVE Mine(d) # Mine(c) /\ \A r \in new : r.of # Mine(d)
  BY <1>3, <1>6 DEF Mine
<1>7. Accounts'
  <2>1. \A r \in rows' : r.of[2] <= round'
    BY <1>3 DEF IInv, Accounts, Types
  <2>2. ASSUME NEW d \in Slots, d # c, Unbilled(d) PROVE Unbilled(d)'
    BY <1>1, <1>2, <1>6, <2>2 DEF Unbilled
  <2>3. QED
    BY <1>1, <2>1, <2>2 DEF IInv, Accounts
<1>8. ReviewAccounted'
  <2>1. (\E r \in rows' : r.of = Mine(c)) <=> new # {}
    BY <1>2, <1>3 DEF Unbilled
  <2>2. ASSUME NEW d \in Slots, d # c
        PROVE  (\E r \in rows' : r.of = Mine(d)) <=> (\E r \in rows : r.of = Mine(d))
    BY <1>6, <2>2
  <2>3. ASSUME NEW d \in Slots, call'[d].said # "none"
        PROVE  /\ call'[d].said \in {"ids", "clean"} <=> \E r \in rows' : r.of = Mine(d)
               /\ call'[d].said = "known" => \E r \in rows' : r.tree = call'[d].tree /\ r.of # Mine(d)
               /\ call'[d].bills = IF call'[d].said = "known" THEN 0 ELSE 1
    <3>1. CASE d = c
      BY <1>1, <2>1, <3>1 DEF Bill
    <3>2. CASE d # c
      BY <1>1, <2>2, <2>3, <3>2 DEF IInv, ReviewAccounted
    <3>3. QED
      BY <3>1, <3>2
  <2>4. QED
    BY <1>2, <2>3 DEF ReviewAccounted
<1>9. QED
  BY <1>4, <1>5, <1>7, <1>8 DEF IInv

LEMMA CheckKeeps == ASSUME IInv, NEW c \in Slots, Check(c) PROVE IInv'
<1>1. /\ call[c] \in CallRecord /\ call[c].pc = "check" /\ call[c].got = Nothing
      /\ call[c].said = "none" /\ Unbilled(c) /\ UNCHANGED <<round, rows, server, lock>>
  BY Fields DEF Check, At
<1>2. ASSUME Goto(c, "review") PROVE IInv'
  <2> DEFINE e == [call[c] EXCEPT !.pc = "review"]
  <2>1. e \in CallRecord /\ e.pc = "review" /\ e.got = Nothing /\ e.said = call[c].said
        /\ e.bills = call[c].bills /\ e.tree = call[c].tree
    BY <1>1 DEF CallRecord
  <2>2. call' = [call EXCEPT ![c] = e]
    BY <1>2 DEF Goto
  <2> HIDE DEF e
  <2>3. QED
    BY <1>1, <2>1, <2>2, GoOnKeeps
<1>3. ASSUME Reviewed(c), call' = [call EXCEPT ![c].pc = "done", ![c].said = "known"]
      PROVE  IInv'
  <2>1. \E r \in rows : r.tree = call[c].tree /\ r.of # Mine(c)
    BY <1>1, <1>3 DEF Reviewed, Unbilled
  <2> DEFINE e == [call[c] EXCEPT !.pc = "done", !.said = "known"]
  <2>2. e \in CallRecord /\ e.pc = "done" /\ e.said = "known" /\ e.got = call[c].got
        /\ e.tree = call[c].tree /\ e.bills = Bill("known")
    BY <1>1 DEF CallRecord, Unbilled, Bill, Sayings
  <2>3. call' = [call EXCEPT ![c] = e] /\ rows' = rows \cup {}
    BY <1>1, <1>3
  <2> HIDE DEF e
  <2>4. {} \in SUBSET [of : {Mine(c)}, tree : Trees \cup {Nobody}] /\ "known" \in Sayings \ {"none"}
    BY DEF Sayings
  <2>5. QED
    BY <1>1, <2>1, <2>2, <2>3, <2>4, SaysKeeps
<1>4. QED
  BY <1>2, <1>3 DEF Check

(* Billed and Recorded are such endings. *)
LEMMA BilledKeeps ==
    ASSUME IInv, NEW c \in Slots, NEW said \in Sayings \ {"none", "known"},
           call[c].pc # "done", Billed(c, said), UNCHANGED <<round, server, lock>>,
           NEW new \in SUBSET [of : {Mine(c)}, tree : Trees \cup {Nobody}],
           rows' = rows \cup new,
           (said \in {"ids", "clean"}) <=> new # {}
    PROVE  IInv'
<1> DEFINE e == [call[c] EXCEPT !.pc = "done", !.said = said, !.bills = @ + 1]
<1>1. call[c] \in CallRecord /\ call[c].bills = 0
  BY Fields DEF Unbilled
<1>a. call[c].bills + 1 = 1 /\ 1 \in Nat
  BY <1>1
<1>b. e = [call[c] EXCEPT !.pc = "done", !.said = said, !.bills = 1]
  BY <1>a
<1>2. e \in CallRecord /\ e.pc = "done" /\ e.said = said /\ e.got = call[c].got
      /\ e.tree = call[c].tree /\ e.bills = 1
  BY <1>1, <1>a, <1>b DEF CallRecord
<1>3. call' = [call EXCEPT ![c] = e]
  BY DEF Billed
<1>4. Bill(said) = 1
  BY DEF Bill
<1> HIDE DEF e
<1>5. QED
  BY <1>2, <1>3, <1>4, SaysKeeps

LEMMA RecordedKeeps ==
    ASSUME IInv, NEW c \in Slots, call[c].pc # "done", Recorded(c),
           UNCHANGED <<round, server, lock>>
    PROVE  IInv'
<1>1. ASSUME NEW said \in {"ids", "clean"}, Billed(c, said),
             rows' = rows \cup {[of |-> Mine(c), tree |-> call[c].tree]}
      PROVE  IInv'
  <2> DEFINE new == {[of |-> Mine(c), tree |-> call[c].tree]}
  <2>1. new \in SUBSET [of : {Mine(c)}, tree : Trees \cup {Nobody}] /\ new # {}
    BY Fields DEF CallRecord
  <2>2. said \in Sayings \ {"none", "known"}
    BY DEF Sayings
  <2>3. rows' = rows \cup new
    BY <1>1
  <2> HIDE DEF new
  <2>4. QED
    BY <1>1, <2>1, <2>2, <2>3, BilledKeeps
<1>2. ASSUME UNCHANGED rows, Billed(c, "unwritten") PROVE IInv'
  <2>1. "unwritten" \in Sayings \ {"none", "known"} /\ "unwritten" \notin {"ids", "clean"}
    BY DEF Sayings
  <2>2. rows' = rows \cup {} /\ {} \in SUBSET [of : {Mine(c)}, tree : Trees \cup {Nobody}]
    BY <1>2
  <2>3. QED
    BY <1>2, <2>1, <2>2, BilledKeeps
<1>3. QED
  BY <1>1, <1>2 DEF Recorded

(* Neither rows nor a verdict. *)
LEMMA UnrecordedKeeps ==
    ASSUME IInv, NEW c \in Slots, call[c].pc # "done", NEW said \in {"error", "unparseable"},
           Billed(c, said), UNCHANGED <<round, server, lock, rows>>
    PROVE  IInv'
<1>1. said \in Sayings \ {"none", "known"} /\ said \notin {"ids", "clean"}
  BY DEF Sayings
<1>2. rows' = rows \cup {} /\ {} \in SUBSET [of : {Mine(c)}, tree : Trees \cup {Nobody}]
  OBVIOUS
<1>3. QED
  BY <1>1, <1>2, BilledKeeps

LEMMA ReviewKeeps == ASSUME IInv, NEW c \in Slots, Review(c) PROVE IInv'
<1>1. /\ call[c] \in CallRecord /\ call[c].pc = "review" /\ call[c].got = Nothing
      /\ UNCHANGED <<round, server, lock>>
  BY Fields DEF Review, At
<1>2. ASSUME Goto(c, "retry"), UNCHANGED rows PROVE IInv'
  <2> DEFINE e == [call[c] EXCEPT !.pc = "retry"]
  <2>1. e \in CallRecord /\ e.pc = "retry" /\ e.got = Nothing /\ e.said = call[c].said
        /\ e.bills = call[c].bills /\ e.tree = call[c].tree
    BY <1>1 DEF CallRecord
  <2>2. call' = [call EXCEPT ![c] = e]
    BY <1>2 DEF Goto
  <2> HIDE DEF e
  <2>3. QED
    BY <1>1, <1>2, <2>1, <2>2, GoOnKeeps
<1>3. QED
  BY <1>1, <1>2, RecordedKeeps, UnrecordedKeeps DEF Review

LEMMA RetryKeeps == ASSUME IInv, NEW c \in Slots, Retry(c) PROVE IInv'
<1>1. call[c].pc # "done" /\ UNCHANGED <<round, server, lock>>
  BY DEF Retry, At
<1>2. QED
  BY <1>1, RecordedKeeps, UnrecordedKeeps DEF Retry

-----------------------------------------------------------------------------
(* Rounds. *)
LEMMA StartRoundKeeps == ASSUME IInv, StartRound PROVE IInv'
<1>1. /\ round' = round + 1 /\ round \in Nat
      /\ call' \in [Slots -> {McpCall} \cup {ReviewCall(t) : t \in Trees \cup {Nobody}}]
      /\ UNCHANGED <<lock, server, rows>>
  BY DEF StartRound, IInv, Types
<1>2. ASSUME NEW c \in Slots
      PROVE  /\ call'[c] \in CallRecord /\ call'[c].pc \in {"lock", "check"}
             /\ call'[c].got = Nothing /\ call'[c].said = "none" /\ call'[c].bills = 0
  <2>1. CASE call'[c] = McpCall
    BY <2>1, Records, IdleFields DEF McpCall, CallRecord
  <2>2. ASSUME NEW t \in Trees \cup {Nobody}, call'[c] = ReviewCall(t)
        PROVE  /\ call'[c] \in CallRecord /\ call'[c].pc \in {"lock", "check"}
               /\ call'[c].got = Nothing /\ call'[c].said = "none" /\ call'[c].bills = 0
    BY <2>2, Records, IdleFields DEF ReviewCall, CallRecord
  <2>3. QED
    BY <1>1, <2>1, <2>2
<1>3. Types' /\ Held' /\ Numbered' /\ Matched' /\ OwnAnswer' /\ ReviewAccounted'
  BY <1>1, <1>2 DEF IInv, Types, Held, Numbered, Given, Matched, OwnAnswer, ReviewAccounted
<1>4. \A c \in Slots, r \in rows : r.of # Mine(c)'
  BY <1>1 DEF IInv, Accounts, Types, Mine, Asked
<1>5. \A r \in rows' : r.of[2] <= round'
  BY <1>1 DEF IInv, Accounts, Types, Asked
<1>6. Accounts'
  BY <1>1, <1>2, <1>4, <1>5 DEF Accounts, Unbilled
<1>7. QED
  BY <1>3, <1>6 DEF IInv

LEMMA CancelKeeps == ASSUME IInv, Cancel PROVE IInv'
<1>1. /\ call' = [c \in Slots |-> IF At(c, "done") THEN call[c] ELSE Idle]
      /\ UNCHANGED <<round, rows>>
  BY DEF Cancel
<1>2. PICK cut \in BOOLEAN : server' = Dropped(cut)
  BY DEF Cancel, IInv, Types, ServerRecord
<1>3. server' \in ServerRecord /\ Numbered'
  <2>1. CASE server' = Down
    BY <2>1, FreshServer
  <2>2. CASE server' = [server EXCEPT !.torn = cut]
    <3>1. server' \in ServerRecord /\ server'.next = server.next
          /\ server'.open = server.open /\ server'.out = server.out
      BY <2>2 DEF IInv, Types, ServerRecord
    <3>2. QED
      BY <3>1, Lost
  <2>3. QED
    BY <1>2, <2>1, <2>2 DEF Dropped
<1>4. ASSUME NEW c \in Slots
      PROVE  /\ call'[c] \in CallRecord /\ call'[c].pc = "done"
             /\ \/ call'[c] = call[c]
                \/ call'[c].got = Nothing /\ call'[c].said = "none" /\ Unbilled(c)'
  <2>1. CASE call[c].pc = "done"
    BY <1>1, <2>1 DEF At, IInv, Types
  <2>2. CASE call[c].pc # "done"
    <3>1. call'[c] = Idle /\ Unbilled(c)
      BY <1>1, <2>2, Fields DEF At
    <3>2. QED
      BY <1>1, <3>1, IdleFields, Records DEF Unbilled, Mine
  <2>3. QED
    BY <2>1, <2>2
<1>5. \A c \in Slots : Mine(c)' = Mine(c)
  BY <1>1 DEF Mine
<1>6. Types'
  BY <1>1, <1>3, <1>4 DEF IInv, Types
<1>7. Held' /\ Matched'
  BY <1>4 DEF Held, Matched
<1>8. OwnAnswer' /\ ReviewAccounted'
  BY <1>1, <1>4, <1>5 DEF IInv, OwnAnswer, ReviewAccounted
<1>9. Accounts'
  BY <1>1, <1>4, <1>5 DEF IInv, Accounts, Unbilled
<1>10. QED
  BY <1>3, <1>6, <1>7, <1>8, <1>9 DEF IInv

-----------------------------------------------------------------------------
LEMMA NextKeeps == IInv /\ [Next]_vars => IInv'
<1> SUFFICES ASSUME IInv, [Next]_vars PROVE IInv'
  OBVIOUS
<1>1. ASSUME NEW c \in Slots, CallStep(c) PROVE IInv'
  BY <1>1, LockKeeps, SpawnKeeps, SpawnFailsKeeps, SendKeeps, ReadKeeps, CallTimesOutKeeps,
     TransportFailsKeeps, CheckKeeps, ReviewKeeps, RetryKeeps DEF CallStep
<1>2. CASE BackoffExpires
  BY <1>2, StutterKeeps DEF BackoffExpires
<1>3. CASE UNCHANGED vars
  BY <1>3, StutterKeeps DEF vars
<1>4. QED
  BY <1>1, <1>2, <1>3, AnswerKeeps, DieKeeps, StartRoundKeeps, CancelKeeps DEF Next

(* What holds in every state: who holds the mutex, whose ids the pipe      *)
(* carries and which rows each call left.                                  *)
THEOREM ToolCallsInvariance == Spec => []IInv
<1>1. QED
  BY InitHolds, NextKeeps, PTL DEF Spec

(* Connection::request: a response to a request that timed out or was      *)
(* dropped is never taken for the answer to a later one.                   *)
THEOREM OwnAnswerAlways == Spec => []OwnAnswer
<1>1. IInv => OwnAnswer
  BY DEF IInv
<1>2. QED
  BY <1>1, ToolCallsInvariance, PTL

(* TaskTool::execute: what a reviewer call says agrees with the ledger and *)
(* with its one bill.                                                      *)
THEOREM ReviewAccountedAlways == Spec => []ReviewAccounted
<1>1. IInv => ReviewAccounted
  BY DEF IInv
<1>2. QED
  BY <1>1, ToolCallsInvariance, PTL

-----------------------------------------------------------------------------
(* The git tools.                                                          *)

(* The commits there are when the patches u have been made: those of the   *)
(* clone's branches have no patch of people.                               *)

SeenTips(u) == [rewrite : 0 .. MaxRewrites, patches : SUBSET (Patches \cap u)]
OwnTips(u) == [rewrite : 0 .. MaxRewrites, patches : SUBSET (Works \cap u)]
Heads(u) == [on : SUBSET Branches, at : OwnTips(u), staged : SUBSET (Works \cap u)]
Rebases(u) == [branch : Branches, orig : OwnTips(u), todo : SUBSET (Works \cap u),
               conflict : {"open", "staged", "gone"}]
GitSteps == {"none", "fetch", "compare", "rebase", "lease", "force", "stopped", "commit",
             "resolve", "squash", "tree", "undo", "undo hard", "undo soft"}
Tools(u) == [step : GitSteps, branch : SUBSET Branches, tweak : SUBSET (Works \cap u),
             tip : OwnTips(u) \cup {NoTip}, lease : SeenTips(u) \cup {NoTip}]
Notes(u) == [rewrites : 0 .. MaxRewrites, faults : Nat, used : SUBSET Patches,
             seen : SUBSET Patches, stale : BOOLEAN, before : Heads(u), restored : BOOLEAN]

GitShapes ==
    LET u == history.used
    IN  /\ remote \in [Branches -> SeenTips(u) \cup {NoTip}]
        /\ tracking \in [Branches -> SeenTips(u) \cup {NoTip}]
        /\ local \in [Branches -> OwnTips(u) \cup {NoTip}]
        /\ head \in Heads(u) /\ rebase \subseteq Rebases(u) /\ tool \in Tools(u)
        /\ history \in Notes(u)

AtMostOne(S) == \A x, y \in S : x = y

(* What git keeps true of HEAD, the index and a rebase.                    *)
GitTidy ==
    /\ AtMostOne(head.on) /\ AtMostOne(rebase)
    /\ \A b \in head.on : local[b] = head.at
    /\ head.staged \cap head.at.patches = {}
    /\ \A r \in rebase : r.todo # {}

(* new has what old had.                                                   *)
Extends(new, old) ==
    \/ old = NoTip
    \/ new # NoTip /\ new.rewrite = old.rewrite /\ old.patches \subseteq new.patches

(* What was fetched is behind the remote, and the lease behind what was    *)
(* fetched.                                                                *)
Fetched == \A b \in Branches : Extends(remote[b], tracking[b])
Leased == tool.step = "force" => \A b \in tool.branch : Extends(tracking[b], tool.lease)

(* Where the patches are that a rewrite set out from: in HEAD's commit and *)
(* what a stopped rebase still has to pick, then on the branch.            *)
Whole ==
    history.stale \/
      /\ \A r \in rebase : /\ head.on = {} /\ r.conflict # "gone"
                           /\ history.seen \subseteq head.at.patches \cup r.todo
      /\ tool.step = "rebase" => history.seen \subseteq head.at.patches
      /\ tool.step \in {"lease", "force", "tree"} =>
            \A b \in tool.branch : history.seen \subseteq local[b].patches

(* What the steps of the tools find.                                       *)
Finds ==
    /\ tool.step # "none" => tool.branch # {} /\ AtMostOne(tool.branch)
    /\ tool.step \in {"fetch", "compare", "rebase"} =>
          tool.tweak = {} /\ rebase = {} /\ head.staged = {} /\ head.on = tool.branch
    /\ tool.step \in {"lease", "force", "tree"} => rebase = {}

(* tip is the commit that fixup made of the tweak.                         *)
Tweaked(tip) ==
    /\ history.before.on = tool.branch /\ history.before.staged = tool.tweak
    /\ tool.tweak # {} /\ tool.tweak \cap history.before.at.patches = {}
    /\ tip = [history.before.at EXCEPT !.patches = @ \cup tool.tweak]

(* The stopped rebase is fixup's.                                          *)
OfFixup == \A r \in rebase : {r.branch} = tool.branch /\ r.orig = tool.tip

Fixes ==
    /\ tool.step = "commit" => /\ history.before = head /\ tool.tweak = head.staged
                               /\ tool.tweak # {} /\ head.on = tool.branch
    /\ tool.step \in {"resolve", "squash"} => /\ Tweaked(head.at) /\ head.on = tool.branch
                                              /\ head.staged = {}
    /\ tool.step = "squash" => tool.tip = head.at
    /\ tool.step \in {"tree", "undo", "undo hard", "undo soft"} => Tweaked(tool.tip)
    /\ tool.step = "tree" => head.on = tool.branch
    /\ tool.step = "stopped" /\ tool.tweak # {} =>
          Tweaked(tool.tip) /\ OfFixup /\ rebase # {}

(* As long as no command of the rollback failed.                           *)
RollsBack ==
    history.restored =>
      /\ tool.step \in {"commit", "resolve", "squash"} => rebase = {}
      /\ tool.step = "undo" => OfFixup /\ (rebase = {} => head.on = tool.branch)
      /\ tool.step = "undo hard" => rebase = {} /\ head.on = tool.branch
      /\ tool.step = "undo soft" => head.on = tool.branch /\ head.at = tool.tip

GitInv ==
    GitShapes /\ GitTidy /\ Fetched /\ Leased /\ Whole /\ Finds /\ Fixes /\ RollsBack

-----------------------------------------------------------------------------
(* Facts about the shapes.                                                 *)

LEMMA Constants ==
  /\ MaxRewrites \in Nat /\ "none" \notin Patches /\ Works \subseteq Patches
  /\ NoTip.patches = {"none"}
BY GitToolsAssumption DEF Patches, NoTip

LEMMA TipFields ==
  ASSUME NEW u
  PROVE /\ \A t \in OwnTips(u) : /\ t.rewrite \in 0 .. MaxRewrites
                                 /\ t.patches \subseteq Works \cap u
                                 /\ t \in SeenTips(u) /\ t # NoTip
        /\ \A t \in SeenTips(u) : /\ t.rewrite \in 0 .. MaxRewrites
                                  /\ t.patches \subseteq Patches \cap u /\ t # NoTip
        /\ \A n \in 0 .. MaxRewrites, S \in SUBSET (Works \cap u) :
              [rewrite |-> n, patches |-> S] \in OwnTips(u)
        /\ \A t \in OwnTips(u), S \in SUBSET (Works \cap u) :
              LET n == [t EXCEPT !.patches = S]
              IN  n \in OwnTips(u) /\ n.patches = S /\ n.rewrite = t.rewrite
        /\ DefaultBranch \in OwnTips(u) /\ DefaultBranch.patches = {}
BY Constants DEF OwnTips, SeenTips, NoTip, DefaultBranch

(* What is made stays made.                                                *)
LEMMA Later ==
  ASSUME NEW u, NEW v, u \subseteq v
  PROVE /\ SeenTips(u) \subseteq SeenTips(v) /\ OwnTips(u) \subseteq OwnTips(v)
        /\ Heads(u) \subseteq Heads(v) /\ Rebases(u) \subseteq Rebases(v)
        /\ Tools(u) \subseteq Tools(v)
<1>1. SeenTips(u) \subseteq SeenTips(v) /\ OwnTips(u) \subseteq OwnTips(v)
  BY DEF SeenTips, OwnTips
<1> QED BY <1>1 DEF Heads, Rebases, Tools

LEMMA GitFields ==
  ASSUME GitInv
  PROVE /\ remote \in [Branches -> SeenTips(history.used) \cup {NoTip}]
        /\ tracking \in [Branches -> SeenTips(history.used) \cup {NoTip}]
        /\ local \in [Branches -> OwnTips(history.used) \cup {NoTip}]
        /\ head \in Heads(history.used) /\ rebase \subseteq Rebases(history.used)
        /\ tool \in Tools(history.used) /\ history \in Notes(history.used)
        /\ history.used \subseteq Patches
BY DEF GitInv, GitShapes, Notes

LEMMA HeadFields ==
  ASSUME NEW u, NEW h \in Heads(u)
  PROVE /\ h.on \subseteq Branches /\ h.at \in OwnTips(u) /\ h.staged \subseteq Works \cap u
        /\ h = [on |-> h.on, at |-> h.at, staged |-> h.staged]
BY DEF Heads

LEMMA HeadIs ==
  ASSUME NEW u, NEW on \in SUBSET Branches, NEW at \in OwnTips(u),
         NEW staged \in SUBSET (Works \cap u)
  PROVE [on |-> on, at |-> at, staged |-> staged] \in Heads(u)
BY DEF Heads

LEMMA FreshIs ==
  ASSUME NEW u PROVE Fresh \in Heads(u) /\ Fresh.on = {} /\ Fresh.staged = {}
BY TipFields DEF Fresh, Heads

LEMMA RebaseFields ==
  ASSUME NEW u, NEW r \in Rebases(u)
  PROVE /\ r.branch \in Branches /\ r.orig \in OwnTips(u) /\ r.todo \subseteq Works \cap u
        /\ r.conflict \in {"open", "staged", "gone"}
        /\ \A c \in {"open", "staged", "gone"} :
              LET n == [r EXCEPT !.conflict = c]
              IN  /\ n \in Rebases(u) /\ n.branch = r.branch /\ n.orig = r.orig
                  /\ n.todo = r.todo /\ n.conflict = c
BY DEF Rebases

LEMMA StoppedIs ==
  ASSUME NEW u, NEW b \in Branches, NEW orig \in OwnTips(u), NEW todo \in SUBSET (Works \cap u)
  PROVE /\ Stopped(b, orig, todo) \in Rebases(u)
        /\ Stopped(b, orig, todo).branch = b /\ Stopped(b, orig, todo).orig = orig
        /\ Stopped(b, orig, todo).todo = todo /\ Stopped(b, orig, todo).conflict = "open"
BY DEF Stopped, Rebases

LEMMA ToolFields ==
  ASSUME NEW u, NEW t \in Tools(u)
  PROVE /\ t.step \in GitSteps /\ t.branch \subseteq Branches /\ t.tweak \subseteq Works \cap u
        /\ t.tip \in OwnTips(u) \cup {NoTip} /\ t.lease \in SeenTips(u) \cup {NoTip}
        /\ \A step \in GitSteps :
              LET n == [t EXCEPT !.step = step]
              IN  /\ n \in Tools(u) /\ n.step = step /\ n.branch = t.branch
                  /\ n.tweak = t.tweak /\ n.tip = t.tip /\ n.lease = t.lease
        /\ \A lease \in SeenTips(u) \cup {NoTip} :
              LET n == [t EXCEPT !.step = "force", !.lease = lease]
              IN  /\ n \in Tools(u) /\ n.step = "force" /\ n.branch = t.branch
                  /\ n.tweak = t.tweak /\ n.tip = t.tip /\ n.lease = lease
        /\ \A tip \in OwnTips(u) :
              LET n == [t EXCEPT !.step = "squash", !.tip = tip]
              IN  /\ n \in Tools(u) /\ n.step = "squash" /\ n.branch = t.branch
                  /\ n.tweak = t.tweak /\ n.tip = tip
BY DEF Tools, GitSteps

LEMMA NoToolIs ==
  ASSUME NEW u
  PROVE /\ NoTool \in Tools(u) /\ NoTool.step = "none" /\ NoTool.tweak = {}
        /\ \A b \in Branches, step \in {"fetch", "lease"} :
              LET n == [NoTool EXCEPT !.step = step, !.branch = {b}]
              IN  /\ n \in Tools(u) /\ n.step = step /\ n.branch = {b} /\ n.tweak = {}
        /\ \A b \in Branches, tweak \in SUBSET (Works \cap u) :
              LET n == [NoTool EXCEPT !.step = "commit", !.branch = {b}, !.tweak = tweak]
              IN  /\ n \in Tools(u) /\ n.step = "commit" /\ n.branch = {b} /\ n.tweak = tweak
BY DEF NoTool, Tools, GitSteps

LEMMA NoteFields ==
  ASSUME GitInv
  PROVE /\ history.rewrites \in 0 .. MaxRewrites /\ history.faults \in Nat
        /\ history.used \in SUBSET Patches /\ history.seen \in SUBSET Patches
        /\ history.stale \in BOOLEAN /\ history.before \in Heads(history.used)
        /\ history.restored \in BOOLEAN
BY DEF GitInv, GitShapes, Notes

(* While no tool is at work, no step of one is to be explained.            *)
LEMMA AtRest ==
  ASSUME tool'.step = "none",
         history'.stale \/ \A r \in rebase' : /\ head'.on = {} /\ r.conflict # "gone"
                              /\ history'.seen \subseteq head'.at.patches \cup r.todo
  PROVE Leased' /\ Whole' /\ Finds' /\ Fixes' /\ RollsBack'
BY DEF Leased, Whole, Finds, Fixes, RollsBack

(* What is fetched extends itself and what it extends extends.             *)
LEMMA ExtendsIs ==
  /\ \A x : Extends(x, x)
  /\ \A x, y, z : Extends(x, y) /\ Extends(y, z) => Extends(x, z)
BY DEF Extends

-----------------------------------------------------------------------------
(* What moves HEAD.                                                        *)

LEMMA MoveHeadIs ==
  ASSUME GitInv, NEW tip \in OwnTips(history.used), NEW staged \in SUBSET (Works \cap history.used),
         staged \cap tip.patches = {}, MoveHead(tip, staged)
  PROVE /\ head' \in Heads(history.used)
        /\ head'.on = head.on /\ head'.at = tip /\ head'.staged = staged
        /\ local' \in [Branches -> OwnTips(history.used) \cup {NoTip}]
        /\ \A b \in Branches : local'[b] = IF b \in head.on THEN tip ELSE local[b]
        /\ AtMostOne(head'.on) /\ \A b \in head'.on : local'[b] = head'.at
        /\ head'.staged \cap head'.at.patches = {}
<1>1. head \in Heads(history.used) BY GitFields
<1>2. head' = [head EXCEPT !.at = tip, !.staged = staged]
      /\ local' = [b \in Branches |-> IF b \in head.on THEN tip ELSE local[b]]
  BY DEF MoveHead
<1>3. /\ head' \in Heads(history.used)
      /\ head'.on = head.on /\ head'.at = tip /\ head'.staged = staged
  BY <1>1, <1>2 DEF Heads
<1>4. local' \in [Branches -> OwnTips(history.used) \cup {NoTip}]
      /\ \A b \in Branches : local'[b] = IF b \in head.on THEN tip ELSE local[b]
  BY <1>2, GitFields
<1>5. head.on \subseteq Branches BY <1>1, HeadFields
<1> QED BY <1>3, <1>4, <1>5 DEF GitInv, GitTidy

LEMMA AbortIs ==
  ASSUME GitInv, NEW r \in rebase, AbortRebase(r)
  PROVE /\ head' \in Heads(history.used)
        /\ head'.on = {r.branch} /\ head'.at = r.orig /\ head'.staged = {}
        /\ local' \in [Branches -> OwnTips(history.used) \cup {NoTip}]
        /\ rebase' = {}
        /\ AtMostOne(head'.on) /\ \A b \in head'.on : local'[b] = head'.at
        /\ head'.staged \cap head'.at.patches = {}
<1>1. r.branch \in Branches /\ r.orig \in OwnTips(history.used)
  BY GitFields, RebaseFields
<1>2. /\ head' = [on |-> {r.branch}, at |-> r.orig, staged |-> {}]
      /\ local' = [local EXCEPT ![r.branch] = r.orig] /\ rebase' = {}
  BY DEF AbortRebase
<1>3. head' \in Heads(history.used)
  BY <1>1, <1>2, HeadIs
<1> QED BY <1>1, <1>2, <1>3, GitFields DEF AtMostOne

(* A rebase is done, or it stopped and nothing of what it picks is gone.   *)
PickEnds(b, orig, whole, next) ==
    \/ /\ tool' = next /\ rebase' = {} /\ head'.on = {b} /\ local'[b] = head'.at
       /\ head'.at.patches = whole
    \/ /\ tool' = [next EXCEPT !.step = "stopped"] /\ head'.on = head.on \ {b}
       /\ rebase' # {}
       /\ \A r \in rebase' : /\ r.branch = b /\ r.orig = orig /\ r.conflict = "open"
                             /\ whole \subseteq head'.at.patches \cup r.todo

LEMMA PickIs ==
  ASSUME GitInv, NEW b \in Branches, NEW orig \in OwnTips(history.used),
         NEW base \in SUBSET (Works \cap history.used),
         NEW todo \in SUBSET (Works \cap history.used), CanRewrite,
         NEW next, Pick(b, orig, base, todo, next)
  PROVE /\ head' \in Heads(history.used) /\ rebase' \subseteq Rebases(history.used)
        /\ local' \in [Branches -> OwnTips(history.used) \cup {NoTip}]
        /\ AtMostOne(head'.on) /\ AtMostOne(rebase')
        /\ \A c \in head'.on : local'[c] = head'.at
        /\ head'.staged = {} /\ \A r \in rebase' : r.todo # {}
        /\ PickEnds(b, orig, base \cup todo, next)
<1> DEFINE u == history.used
<1>1. history.rewrites + 1 \in 0 .. MaxRewrites BY NoteFields, Constants DEF CanRewrite
<1>2. head.on \subseteq Branches /\ AtMostOne(head.on)
  BY GitFields, HeadFields DEF GitInv, GitTidy
<1>3. local \in [Branches -> OwnTips(u) \cup {NoTip}] BY GitFields
<1>4. CASE /\ LET tip == [rewrite |-> Rewrite, patches |-> base \cup todo]
              IN  /\ head' = [on |-> {b}, at |-> tip, staged |-> {}]
                  /\ local' = [c \in Branches |->
                                  IF c = b \/ c \in head.on THEN tip ELSE local[c]]
           /\ rebase' = {} /\ tool' = next
  <2> DEFINE tip == [rewrite |-> Rewrite, patches |-> base \cup todo]
  <2>1. tip \in OwnTips(u) /\ tip.patches = base \cup todo BY <1>1, TipFields DEF Rewrite
  <2>2. /\ head' = [on |-> {b}, at |-> tip, staged |-> {}]
        /\ local' = [c \in Branches |-> IF c = b \/ c \in head.on THEN tip ELSE local[c]]
    BY <1>4
  <2> HIDE DEF tip, u
  <2>3. head' \in Heads(u) /\ head'.on = {b} /\ head'.at = tip /\ head'.staged = {}
    BY <2>1, <2>2, HeadIs
  <2>4. local' \in [Branches -> OwnTips(u) \cup {NoTip}] /\ local'[b] = tip
    BY <1>3, <2>1, <2>2
  <2> QED BY <1>4, <2>1, <2>3, <2>4 DEF AtMostOne, u, PickEnds
<1>5. CASE \E left \in SUBSET todo :
             /\ left # {}
             /\ LET tip == [rewrite |-> Rewrite, patches |-> base \cup (todo \ left)]
                IN  /\ head' = [on |-> head.on \ {b}, at |-> tip, staged |-> {}]
                    /\ local' = [c \in Branches |->
                                    IF c \in head.on \ {b} THEN tip ELSE local[c]]
             /\ rebase' = {Stopped(b, orig, left)}
             /\ tool' = [next EXCEPT !.step = "stopped"]
  <2>1. PICK left \in SUBSET todo :
             /\ left # {}
             /\ LET tip == [rewrite |-> Rewrite, patches |-> base \cup (todo \ left)]
                IN  /\ head' = [on |-> head.on \ {b}, at |-> tip, staged |-> {}]
                    /\ local' = [c \in Branches |->
                                    IF c \in head.on \ {b} THEN tip ELSE local[c]]
             /\ rebase' = {Stopped(b, orig, left)}
             /\ tool' = [next EXCEPT !.step = "stopped"]
    BY <1>5
  <2> DEFINE tip == [rewrite |-> Rewrite, patches |-> base \cup (todo \ left)]
  <2>2. tip \in OwnTips(u) /\ tip.patches = base \cup (todo \ left)
    BY <1>1, TipFields DEF Rewrite
  <2>3. /\ head' = [on |-> head.on \ {b}, at |-> tip, staged |-> {}]
        /\ local' = [c \in Branches |-> IF c \in head.on \ {b} THEN tip ELSE local[c]]
        /\ rebase' = {Stopped(b, orig, left)} /\ tool' = [next EXCEPT !.step = "stopped"]
    BY <2>1
  <2> HIDE DEF tip
  <2>4. left \in SUBSET (Works \cap u) BY <2>1
  <2>5. /\ Stopped(b, orig, left) \in Rebases(u) /\ Stopped(b, orig, left).branch = b
        /\ Stopped(b, orig, left).orig = orig /\ Stopped(b, orig, left).todo = left
        /\ Stopped(b, orig, left).conflict = "open"
    BY <2>4, StoppedIs
  <2> HIDE DEF u
  <2>6. /\ head' \in Heads(u) /\ head'.on = head.on \ {b} /\ head'.at = tip
        /\ head'.staged = {}
    BY <1>2, <2>2, <2>3, HeadIs
  <2>7. local' \in [Branches -> OwnTips(u) \cup {NoTip}]
        /\ \A c \in head'.on : local'[c] = tip
    BY <1>2, <1>3, <2>2, <2>3, <2>6
  <2>8. /\ rebase' \subseteq Rebases(u) /\ AtMostOne(rebase') /\ AtMostOne(head'.on)
        /\ \A r \in rebase' : /\ r.branch = b /\ r.orig = orig /\ r.conflict = "open"
                              /\ r.todo = left
    BY <1>2, <2>3, <2>5, <2>6 DEF AtMostOne
  <2>9. base \cup todo \subseteq head'.at.patches \cup left BY <2>2, <2>6
  <2> QED BY <2>1, <2>3, <2>6, <2>7, <2>8, <2>9 DEF u, PickEnds
<1> QED BY <1>4, <1>5 DEF Pick

-----------------------------------------------------------------------------
(* What people and turns do.                                               *)

(* Patches that are made make no difference to what there was.             *)
LEMMA Grown ==
  ASSUME GitInv, history.used \subseteq history'.used, history' \in Notes(history'.used),
         remote' \in [Branches -> SeenTips(history'.used) \cup {NoTip}],
         head' \in Heads(history'.used), UNCHANGED <<tracking, local, rebase, tool>>
  PROVE GitShapes'
<1> DEFINE u == history.used
           v == history'.used
<1>1. /\ SeenTips(u) \subseteq SeenTips(v) /\ OwnTips(u) \subseteq OwnTips(v)
      /\ Rebases(u) \subseteq Rebases(v) /\ Tools(u) \subseteq Tools(v)
  BY Later
<1>2. /\ tracking \in [Branches -> SeenTips(u) \cup {NoTip}]
      /\ local \in [Branches -> OwnTips(u) \cup {NoTip}]
      /\ rebase \subseteq Rebases(u) /\ tool \in Tools(u)
  BY GitFields
<1> HIDE DEF u
<1>3. /\ tracking \in [Branches -> SeenTips(v) \cup {NoTip}]
      /\ local \in [Branches -> OwnTips(v) \cup {NoTip}]
      /\ rebase \subseteq Rebases(v) /\ tool \in Tools(v)
  <2> HIDE DEF v
  <2> QED BY <1>1, <1>2
<1> QED BY <1>3 DEF GitShapes

LEMMA UsedIs ==
  ASSUME GitInv, NEW w \in Patches, history' = [history EXCEPT !.used = @ \cup {w}]
  PROVE /\ history'.used = history.used \cup {w} /\ history' \in Notes(history'.used)
        /\ history'.seen = history.seen /\ history'.stale = history.stale
        /\ history'.before = history.before /\ history'.restored = history.restored
<1>1. history \in Notes(history.used) BY GitFields
<1>2. /\ history'.used = history.used \cup {w} /\ history'.rewrites = history.rewrites
      /\ history'.faults = history.faults
      /\ history'.seen = history.seen /\ history'.stale = history.stale
      /\ history'.before = history.before /\ history'.restored = history.restored
      /\ DOMAIN history' = DOMAIN history
  BY <1>1 DEF Notes
<1>3. Heads(history.used) \subseteq Heads(history.used \cup {w}) BY Later
<1>4. history' = [history EXCEPT !.used = history.used \cup {w}] BY <1>1 DEF Notes
<1>5. history' \in Notes(history.used \cup {w})
  <2>1. history.before \in Heads(history.used \cup {w}) BY <1>3, NoteFields
  <2>2. history.used \cup {w} \in SUBSET Patches BY NoteFields
  <2> QED BY <1>1, <1>4, <2>1, <2>2 DEF Notes
<1> QED BY <1>2, <1>5

LEMMA HumanPushesKeeps ==
  ASSUME GitInv, NEW b \in Branches, NEW h \in HumanWorks, HumanPushes(b, h) PROVE GitInv'
<1> DEFINE tip == [remote[b] EXCEPT !.patches = @ \cup {h}]
           v == history'.used
<1>1. /\ remote[b] # NoTip /\ remote' = [remote EXCEPT ![b] = tip]
      /\ history' = [history EXCEPT !.used = @ \cup {h}]
      /\ UNCHANGED <<tracking, local, head, rebase, tool>>
  BY GitFields DEF HumanPushes
<1>2. h \in Patches BY DEF Patches
<1>3. /\ v = history.used \cup {h} /\ history' \in Notes(v)
      /\ history'.seen = history.seen /\ history'.stale = history.stale
      /\ history'.before = history.before /\ history'.restored = history.restored
  BY <1>1, <1>2, UsedIs
<1>4. /\ SeenTips(history.used) \subseteq SeenTips(v) /\ Heads(history.used) \subseteq Heads(v)
  BY <1>3, Later
<1>5. remote[b] \in SeenTips(history.used) BY <1>1, GitFields
<1>6. /\ tip \in SeenTips(v) /\ tip.rewrite = remote[b].rewrite
      /\ remote[b].patches \subseteq tip.patches /\ tip # NoTip
  <2>1. /\ tip \in SeenTips(v) /\ tip.rewrite = remote[b].rewrite
        /\ remote[b].patches \subseteq tip.patches
    BY <1>2, <1>3, <1>5 DEF SeenTips
  <2>2. tip # NoTip
    <3> HIDE DEF tip, v
    <3>1. \A t \in SeenTips(v) : t # NoTip BY TipFields
    <3> QED BY <2>1, <3>1
  <2> QED BY <2>1, <2>2
<1> HIDE DEF tip
<1>7. remote' \in [Branches -> SeenTips(v) \cup {NoTip}] /\ remote'[b] = tip
      /\ \A c \in Branches : c # b => remote'[c] = remote[c]
  <2> HIDE DEF v
  <2> QED BY <1>1, <1>4, <1>6, GitFields
<1>8. GitShapes'
  <2>1. head' \in Heads(v) BY <1>1, <1>4, GitFields
  <2> QED BY <1>1, <1>3, <1>7, <2>1, Grown
<1>9. Fetched'
  <2>1. ASSUME NEW c \in Branches PROVE Extends(remote'[c], tracking[c])
    <3>1. Extends(remote[c], tracking[c]) BY DEF GitInv, Fetched
    <3> QED BY <1>6, <1>7, <3>1 DEF Extends
  <2> QED BY <1>1, <2>1 DEF Fetched
<1>10. GitTidy' /\ Leased' BY <1>1 DEF GitInv, GitTidy, Leased
<1>11. Whole' /\ Finds' BY <1>1, <1>3 DEF GitInv, Whole, Finds
<1>12. Fixes' /\ RollsBack' BY <1>1, <1>3 DEF GitInv, Fixes, RollsBack, Tweaked, OfFixup
<1> QED BY <1>8, <1>9, <1>10, <1>11, <1>12 DEF GitInv

LEMMA StageWorkKeeps == ASSUME GitInv, NEW w \in Works, StageWork(w) PROVE GitInv'
<1> DEFINE v == history'.used
<1>1. /\ tool.step = "none" /\ w \notin history.used
      /\ head' = [head EXCEPT !.staged = @ \cup {w}]
      /\ history' = [history EXCEPT !.used = @ \cup {w}]
      /\ UNCHANGED <<remote, tracking, local, rebase, tool>>
  BY DEF StageWork, Quiet
<1>2. w \in Patches BY DEF Patches
<1>3. /\ v = history.used \cup {w} /\ history' \in Notes(v)
      /\ history'.seen = history.seen /\ history'.stale = history.stale
  BY <1>1, <1>2, UsedIs
<1>4. /\ SeenTips(history.used) \subseteq SeenTips(v) /\ Heads(history.used) \subseteq Heads(v)
  BY <1>3, Later
<1>5. head \in Heads(v) BY <1>4, GitFields
<1>6. /\ head' \in Heads(v) /\ head'.on = head.on /\ head'.at = head.at
      /\ head'.staged = head.staged \cup {w}
  <2>1. w \in Works \cap v BY <1>3
  <2> HIDE DEF v
  <2> QED BY <1>1, <1>5, <2>1 DEF Heads
<1>7. GitShapes'
  <2>1. remote' \in [Branches -> SeenTips(v) \cup {NoTip}]
    <3> HIDE DEF v
    <3> QED BY <1>1, <1>4, GitFields
  <2> QED BY <1>1, <1>3, <1>6, <2>1, Grown
<1>8. GitTidy'
  <2>1. w \notin head.at.patches BY <1>1, GitFields, HeadFields, TipFields
  <2> QED BY <1>1, <1>6, <2>1 DEF GitInv, GitTidy
<1>9. Fetched' BY <1>1 DEF GitInv, Fetched
<1>10. Leased' /\ Whole' /\ Finds' /\ Fixes' /\ RollsBack'
  BY <1>1, <1>3, <1>6, AtRest DEF GitInv, Whole
<1> QED BY <1>7, <1>8, <1>9, <1>10 DEF GitInv

LEMMA CommitKeeps == ASSUME GitInv, Commit PROVE GitInv'
<1> DEFINE tip == [head.at EXCEPT !.patches = @ \cup head.staged]
<1>1. /\ tool.step = "none" /\ MoveHead(tip, {})
      /\ UNCHANGED <<remote, tracking, rebase, tool, history>>
  BY DEF Commit, Quiet
<1>2. /\ head.at \in OwnTips(history.used) /\ head.staged \subseteq Works \cap history.used
  BY GitFields, HeadFields
<1>3. tip \in OwnTips(history.used) /\ tip.patches = head.at.patches \cup head.staged
  BY <1>2 DEF OwnTips
<1> HIDE DEF tip
<1>4. /\ head' \in Heads(history.used) /\ head'.on = head.on /\ head'.at = tip
      /\ local' \in [Branches -> OwnTips(history.used) \cup {NoTip}]
      /\ AtMostOne(head'.on) /\ \A b \in head'.on : local'[b] = head'.at
      /\ head'.staged \cap head'.at.patches = {}
  BY <1>1, <1>3, MoveHeadIs
<1>5. GitShapes' BY <1>1, <1>4, GitFields DEF GitShapes
<1>6. GitTidy' BY <1>1, <1>4 DEF GitInv, GitTidy
<1>7. Fetched' BY <1>1 DEF GitInv, Fetched
<1>8. Leased' /\ Whole' /\ Finds' /\ Fixes' /\ RollsBack'
  <2>1. head.at.patches \subseteq head'.at.patches BY <1>3, <1>4
  <2> QED BY <1>1, <1>4, <2>1, AtRest DEF GitInv, Whole
<1> QED BY <1>5, <1>6, <1>7, <1>8 DEF GitInv

LEMMA TakeBranchKeeps == ASSUME GitInv, NEW b \in Branches, TakeBranch(b) PROVE GitInv'
<1> DEFINE tip == IF local[b] = NoTip THEN head.at ELSE local[b]
<1>1. /\ tool.step = "none" /\ \A r \in rebase : r.conflict = "gone"
      /\ local' = [local EXCEPT ![b] = tip]
      /\ head' = [on |-> {b}, at |-> local'[b], staged |-> {}]
      /\ UNCHANGED <<remote, tracking, rebase, tool, history>>
  BY GitFields DEF TakeBranch, Quiet
<1>2. tip \in OwnTips(history.used) BY GitFields, HeadFields
<1> HIDE DEF tip
<1>3. /\ local' \in [Branches -> OwnTips(history.used) \cup {NoTip}] /\ local'[b] = tip
  BY <1>1, <1>2, GitFields
<1>4. /\ head' \in Heads(history.used) /\ head'.on = {b} /\ head'.at = tip /\ head'.staged = {}
  BY <1>1, <1>2, <1>3, HeadIs
<1>5. GitShapes' BY <1>1, <1>3, <1>4, GitFields DEF GitShapes
<1>6. GitTidy' BY <1>1, <1>3, <1>4 DEF GitInv, GitTidy, AtMostOne
<1>7. Fetched' BY <1>1 DEF GitInv, Fetched
<1>8. Leased' /\ Whole' /\ Finds' /\ Fixes' /\ RollsBack'
  BY <1>1, AtRest DEF GitInv, Whole
<1> QED BY <1>5, <1>6, <1>7, <1>8 DEF GitInv

(* The branch is published as it is.                                       *)
LEMMA Published ==
  ASSUME GitInv, NEW b \in Branches, remote' = [remote EXCEPT ![b] = local[b]],
         tracking' = [tracking EXCEPT ![b] = local[b]]
  PROVE /\ remote' \in [Branches -> SeenTips(history.used) \cup {NoTip}]
        /\ tracking' \in [Branches -> SeenTips(history.used) \cup {NoTip}]
        /\ Fetched'
<1>1. local[b] \in SeenTips(history.used) \cup {NoTip} BY GitFields, TipFields
<1>2. /\ remote' \in [Branches -> SeenTips(history.used) \cup {NoTip}]
      /\ tracking' \in [Branches -> SeenTips(history.used) \cup {NoTip}]
      /\ remote'[b] = local[b] /\ tracking'[b] = local[b]
      /\ \A c \in Branches : c # b => remote'[c] = remote[c] /\ tracking'[c] = tracking[c]
  BY <1>1, GitFields
<1>3. Fetched' BY <1>2, ExtendsIs DEF GitInv, Fetched
<1> QED BY <1>2, <1>3

LEMMA PushKeeps == ASSUME GitInv, NEW b \in Branches, Push(b) PROVE GitInv'
<1>1. /\ tool.step = "none" /\ remote' = [remote EXCEPT ![b] = local[b]]
      /\ tracking' = [tracking EXCEPT ![b] = local[b]]
      /\ UNCHANGED <<local, head, rebase, tool, history>>
  BY DEF Push, Quiet
<1>2. /\ remote' \in [Branches -> SeenTips(history.used) \cup {NoTip}]
      /\ tracking' \in [Branches -> SeenTips(history.used) \cup {NoTip}]
      /\ Fetched'
  BY <1>1, Published
<1>3. GitShapes' BY <1>1, <1>2, GitFields DEF GitShapes
<1>4. GitTidy' BY <1>1 DEF GitInv, GitTidy
<1>5. Leased' /\ Whole' /\ Finds' /\ Fixes' /\ RollsBack'
  BY <1>1, AtRest DEF GitInv, Whole
<1> QED BY <1>2, <1>3, <1>4, <1>5 DEF GitInv

LEMMA FetchKeeps == ASSUME GitInv, Fetch PROVE GitInv'
<1>1. tracking' = remote /\ UNCHANGED <<remote, local, head, rebase, tool, history>>
  BY DEF Fetch
<1>2. GitShapes' BY <1>1, GitFields DEF GitShapes
<1>3. GitTidy' /\ Whole' /\ Finds' BY <1>1 DEF GitInv, GitTidy, Whole, Finds
<1>4. Fixes' /\ RollsBack' BY <1>1 DEF GitInv, Fixes, RollsBack, Tweaked, OfFixup
<1>5. Fetched' BY <1>1, ExtendsIs DEF Fetched
<1>6. Leased'
  <2> SUFFICES ASSUME tool.step = "force", NEW b \in tool.branch
               PROVE Extends(remote[b], tool.lease)
    BY <1>1 DEF Leased
  <2>1. b \in Branches
    <3>1. tool \in Tools(history.used) BY GitFields
    <3>2. tool.branch \subseteq Branches BY <3>1, ToolFields
    <3> QED BY <3>2
  <2>2. Extends(tracking[b], tool.lease) /\ Extends(remote[b], tracking[b])
    BY <2>1 DEF GitInv, Leased, Fetched
  <2> QED BY <2>2, ExtendsIs
<1> QED BY <1>2, <1>3, <1>4, <1>5, <1>6 DEF GitInv

LEMMA ResolveKeeps == ASSUME GitInv, Resolve PROVE GitInv'
<1>1. tool.step = "none" /\ UNCHANGED <<remote, tracking, local, head, tool, history>>
  BY DEF Resolve, Quiet
<1>2. PICK r \in rebase : rebase' = {[r EXCEPT !.conflict = "staged"]} BY DEF Resolve
<1> DEFINE n == [r EXCEPT !.conflict = "staged"]
<1>3. /\ n \in Rebases(history.used) /\ n.branch = r.branch /\ n.orig = r.orig
      /\ n.todo = r.todo /\ n.conflict = "staged"
  <2>1. r \in Rebases(history.used) BY GitFields
  <2> QED BY <2>1, RebaseFields
<1> HIDE DEF n
<1>4. rebase' = {n} BY <1>2 DEF n
<1>5. GitShapes' BY <1>1, <1>3, <1>4, GitFields DEF GitShapes
<1>6. GitTidy' BY <1>1, <1>3, <1>4 DEF GitInv, GitTidy, AtMostOne
<1>7. Fetched' BY <1>1 DEF GitInv, Fetched
<1>8. Leased' /\ Whole' /\ Finds' /\ Fixes' /\ RollsBack'
  BY <1>1, <1>3, <1>4, AtRest DEF GitInv, Whole
<1> QED BY <1>5, <1>6, <1>7, <1>8 DEF GitInv

(* A stopped rebase whose conflicts are gone.                              *)
LEMMA GoneIs ==
  ASSUME GitInv, rebase' = {[r EXCEPT !.conflict = "gone"] : r \in rebase}
  PROVE /\ rebase' \subseteq Rebases(history.used) /\ AtMostOne(rebase')
        /\ \A n \in rebase' : n.todo # {}
        /\ rebase' = {} <=> rebase = {}
<1>1. \A r \in rebase : LET n == [r EXCEPT !.conflict = "gone"]
                        IN  n \in Rebases(history.used) /\ n.todo = r.todo
  BY GitFields, RebaseFields
<1>2. AtMostOne(rebase) /\ \A r \in rebase : r.todo # {} BY DEF GitInv, GitTidy
<1>3. rebase' \subseteq Rebases(history.used) /\ \A n \in rebase' : n.todo # {}
  <2> SUFFICES ASSUME NEW n \in rebase' PROVE n \in Rebases(history.used) /\ n.todo # {}
    OBVIOUS
  <2>1. PICK r \in rebase : n = [r EXCEPT !.conflict = "gone"] OBVIOUS
  <2> QED BY <1>1, <1>2, <2>1
<1>4. AtMostOne(rebase') BY <1>2 DEF AtMostOne
<1>5. rebase' = {} <=> rebase = {} OBVIOUS
<1> QED BY <1>3, <1>4, <1>5

LEMMA StaleIs ==
  ASSUME GitInv, history' = [history EXCEPT !.stale = rebase # {}]
  PROVE /\ history' \in Notes(history.used) /\ history'.used = history.used
        /\ history'.stale = (rebase # {}) /\ history'.seen = history.seen
        /\ history'.before = history.before /\ history'.restored = history.restored
BY GitFields DEF Notes

LEMMA PrepareKeeps == ASSUME GitInv, Prepare PROVE GitInv'
<1>1. /\ tool.step = "none" /\ tracking' = remote /\ head' = Fresh
      /\ rebase' = {[r EXCEPT !.conflict = "gone"] : r \in rebase}
      /\ history' = [history EXCEPT !.stale = rebase # {}]
      /\ UNCHANGED <<remote, local, tool>>
  BY DEF Prepare, Quiet
<1>2. /\ history' \in Notes(history.used) /\ history'.used = history.used
      /\ history'.stale = (rebase # {})
  BY <1>1, StaleIs
<1>3. /\ rebase' \subseteq Rebases(history.used) /\ AtMostOne(rebase')
      /\ \A n \in rebase' : n.todo # {} /\ (rebase' = {} <=> rebase = {})
  BY <1>1, GoneIs
<1>4. head' \in Heads(history.used) /\ head'.on = {} /\ head'.staged = {} BY <1>1, FreshIs
<1>5. GitShapes' BY <1>1, <1>2, <1>3, <1>4, GitFields DEF GitShapes
<1>6. GitTidy' BY <1>3, <1>4 DEF GitTidy, AtMostOne
<1>7. Fetched' BY <1>1, ExtendsIs DEF Fetched
<1>8. rebase = {} => rebase' = {} BY <1>1
<1>9. Leased' /\ Whole' /\ Finds' /\ Fixes' /\ RollsBack' BY <1>1, <1>2, <1>8, AtRest
<1> QED BY <1>5, <1>6, <1>7, <1>9 DEF GitInv

(* Nothing but the tool moves, which is at rest or has let go of HEAD's    *)
(* history.                                                                *)
LEMMA LetGo ==
  ASSUME GitInv, tool' = NoTool, UNCHANGED <<local, head, rebase>>,
         history'.stale = history.stale, history'.seen = history.seen,
         history'.used = history.used, history' \in Notes(history.used),
         remote' \in [Branches -> SeenTips(history.used) \cup {NoTip}],
         tracking' \in [Branches -> SeenTips(history.used) \cup {NoTip}], Fetched'
  PROVE GitInv'
<1>1. NoTool \in Tools(history.used) /\ NoTool.step = "none" BY NoToolIs
<1>2. GitShapes' BY <1>1, GitFields DEF GitShapes
<1>3. GitTidy' BY DEF GitInv, GitTidy
<1>4. Leased' /\ Whole' /\ Finds' /\ Fixes' /\ RollsBack'
  BY <1>1, AtRest DEF GitInv, Whole
<1> QED BY <1>2, <1>3, <1>4 DEF GitInv

-----------------------------------------------------------------------------
(* What git_rebase does.                                                   *)

(* A step of a tool that changes nothing but where the tool is.            *)
LEMMA Steps ==
  ASSUME GitInv, UNCHANGED <<remote, tracking, local, head, rebase, history>>,
         tool' \in Tools(history.used)
  PROVE GitShapes' /\ GitTidy' /\ Fetched'
<1>1. GitShapes' BY GitFields DEF GitShapes
<1> QED BY <1>1 DEF GitInv, GitTidy, Fetched

LEMMA RebaseStartKeeps == ASSUME GitInv, NEW b \in Branches, RebaseStart(b) PROVE GitInv'
<1>1. /\ tool.step = "none" /\ rebase = {} /\ head.on = {b} /\ head.staged = {}
      /\ tool' = [NoTool EXCEPT !.step = "fetch", !.branch = {b}]
      /\ UNCHANGED <<remote, tracking, local, head, rebase, history>>
  BY DEF RebaseStart, Quiet
<1>2. /\ tool' \in Tools(history.used) /\ tool'.step = "fetch" /\ tool'.branch = {b}
      /\ tool'.tweak = {}
  BY <1>1, NoToolIs
<1>3. GitShapes' /\ GitTidy' /\ Fetched' BY <1>1, <1>2, Steps
<1>4. Leased' /\ Whole' /\ Finds' /\ Fixes' /\ RollsBack'
  BY <1>1, <1>2 DEF GitInv, Leased, Whole, Finds, Fixes, RollsBack, AtMostOne
<1> QED BY <1>3, <1>4 DEF GitInv

LEMMA RebaseFetchKeeps == ASSUME GitInv, RebaseFetch PROVE GitInv'
<1>1. /\ tool.step = "fetch" /\ tracking' = remote /\ tool' = [tool EXCEPT !.step = "compare"]
      /\ UNCHANGED <<remote, local, head, rebase, history>>
  BY DEF RebaseFetch, To
<1>2. tool \in Tools(history.used) BY GitFields
<1>3. /\ tool' \in Tools(history.used) /\ tool'.step = "compare" /\ tool'.branch = tool.branch
      /\ tool'.tweak = tool.tweak
  BY <1>1, <1>2 DEF Tools, GitSteps
<1>4. GitShapes' BY <1>1, <1>3, GitFields DEF GitShapes
<1>5. Fetched' BY <1>1, ExtendsIs DEF Fetched
<1>6. GitTidy' /\ Leased' /\ Whole' /\ Finds' /\ Fixes' /\ RollsBack'
  BY <1>1, <1>3 DEF GitInv, GitTidy, Leased, Whole, Finds, Fixes, RollsBack
<1> QED BY <1>4, <1>5, <1>6 DEF GitInv

(* The branch is what the remote has, and HEAD is on it.                   *)
LEMMA RebaseCompareKeeps == ASSUME GitInv, NEW b \in Branches, RebaseCompare(b) PROVE GitInv'
<1>1. /\ tool.step = "compare" /\ tool.branch = {b}
      /\ UNCHANGED <<remote, tracking, local, head, rebase>>
  BY DEF RebaseCompare
<1>2. tool \in Tools(history.used) BY GitFields
<1>3. CASE /\ SameAsRemote(b) /\ tool' = [tool EXCEPT !.step = "rebase"]
           /\ history' = [history EXCEPT !.seen = tracking[b].patches \cap Patches,
                                         !.stale = FALSE]
  <2>1. /\ tool' \in Tools(history.used) /\ tool'.step = "rebase" /\ tool'.branch = {b}
        /\ tool'.tweak = tool.tweak
    BY <1>1, <1>2, <1>3 DEF Tools, GitSteps
  <2>2. /\ history'.used = history.used /\ history' \in Notes(history.used)
        /\ history'.seen = tracking[b].patches \cap Patches /\ history'.stale = FALSE
        /\ history'.before = history.before /\ history'.restored = history.restored
    BY <1>3, GitFields DEF Notes
  <2>3. GitShapes' BY <1>1, <2>1, <2>2, GitFields DEF GitShapes
  <2>4. GitTidy' /\ Fetched' BY <1>1 DEF GitInv, GitTidy, Fetched
  <2>5. /\ tool.tweak = {} /\ rebase = {} /\ head.staged = {} /\ head.on = {b}
        /\ local[b] = head.at
    BY <1>1 DEF GitInv, Finds, GitTidy
  <2>6. history'.seen \subseteq head.at.patches
    <3>1. CASE tracking[b] = NoTip BY <2>2, <3>1, Constants
    <3>2. CASE tracking[b] = local[b] BY <2>2, <2>5, <3>2
    <3> QED BY <1>3, <3>1, <3>2 DEF SameAsRemote
  <2>7. Leased' /\ Whole' /\ Finds' BY <1>1, <2>1, <2>2, <2>5, <2>6 DEF GitInv, Leased, Whole, Finds
  <2>8. Fixes' /\ RollsBack' BY <1>1, <2>1, <2>5 DEF Fixes, RollsBack
  <2> QED BY <2>3, <2>4, <2>7, <2>8 DEF GitInv
<1>4. CASE tool' = NoTool /\ history' = history
  BY <1>1, <1>4, GitFields, LetGo DEF GitInv, Fetched
<1> QED BY <1>3, <1>4 DEF RebaseCompare, To

(* What a pick leaves of the shapes.                                       *)
LEMMA Picked ==
  ASSUME GitInv, head' \in Heads(history.used), rebase' \subseteq Rebases(history.used),
         local' \in [Branches -> OwnTips(history.used) \cup {NoTip}],
         AtMostOne(head'.on), AtMostOne(rebase'), \A c \in head'.on : local'[c] = head'.at,
         head'.staged = {}, \A r \in rebase' : r.todo # {},
         tool' \in Tools(history.used), history' \in Notes(history.used),
         history'.used = history.used, UNCHANGED <<remote, tracking>>
  PROVE GitShapes' /\ GitTidy' /\ Fetched'
<1>1. GitShapes' BY GitFields DEF GitShapes
<1> QED BY <1>1 DEF GitInv, GitTidy, Fetched

LEMMA RewriteIs ==
  ASSUME GitInv, CanRewrite, NEW seen \in SUBSET Patches, NEW stale \in BOOLEAN,
         history' = [history EXCEPT !.rewrites = Rewrite, !.seen = seen, !.stale = stale]
  PROVE /\ history' \in Notes(history.used) /\ history'.used = history.used
        /\ history'.seen = seen /\ history'.stale = stale
        /\ history'.before = history.before /\ history'.restored = history.restored
<1>1. history.rewrites + 1 \in 0 .. MaxRewrites BY NoteFields, Constants DEF CanRewrite
<1> QED BY <1>1, GitFields DEF Notes, Rewrite

LEMMA RewriteOnly ==
  ASSUME GitInv, history' = [history EXCEPT !.rewrites = Rewrite]
  PROVE history' = [history EXCEPT !.rewrites = Rewrite, !.seen = history.seen,
                                   !.stale = history.stale]
<1>1. history \in Notes(history.used) BY GitFields
<1> QED BY <1>1 DEF Notes

LEMMA RebaseRunKeeps == ASSUME GitInv, NEW b \in Branches, RebaseRun(b) PROVE GitInv'
<1> DEFINE next == [tool EXCEPT !.step = "lease"]
<1>1. /\ tool.step = "rebase" /\ tool.branch = {b} /\ UNCHANGED <<remote, tracking>>
      /\ \/ tool' = next /\ UNCHANGED <<local, head, rebase, history>>
         \/ /\ CanRewrite /\ Pick(b, head.at, {}, head.at.patches, next)
            /\ history' = [history EXCEPT !.rewrites = Rewrite]
  BY DEF RebaseRun, To
<1>2. tool \in Tools(history.used) BY GitFields
<1>3. /\ next \in Tools(history.used) /\ next.step = "lease" /\ next.branch = {b}
      /\ next.tweak = tool.tweak
  BY <1>1, <1>2 DEF Tools, GitSteps
<1> HIDE DEF next
<1>4. /\ tool.tweak = {} /\ rebase = {} /\ head.staged = {} /\ head.on = {b}
      /\ local[b] = head.at
  BY <1>1 DEF GitInv, Finds, GitTidy
<1>5. history.stale \/ history.seen \subseteq head.at.patches BY <1>1 DEF GitInv, Whole
<1>6. CASE tool' = next /\ UNCHANGED <<local, head, rebase, history>>
  <2>1. GitShapes' /\ GitTidy' /\ Fetched' BY <1>1, <1>3, <1>6, Steps
  <2>2. Leased' /\ Whole' /\ Finds' BY <1>3, <1>4, <1>5, <1>6 DEF Leased, Whole, Finds, AtMostOne
  <2>3. Fixes' /\ RollsBack' BY <1>3, <1>4, <1>6 DEF Fixes, RollsBack
  <2> QED BY <2>1, <2>2, <2>3 DEF GitInv
<1>7. CASE /\ CanRewrite /\ Pick(b, head.at, {}, head.at.patches, next)
           /\ history' = [history EXCEPT !.rewrites = Rewrite]
  <2>1. head.at \in OwnTips(history.used)
        /\ head.at.patches \in SUBSET (Works \cap history.used)
    BY GitFields, HeadFields, TipFields
  <2>2. /\ history' \in Notes(history.used) /\ history'.used = history.used
        /\ history'.seen = history.seen /\ history'.stale = history.stale
        /\ history'.before = history.before /\ history'.restored = history.restored
    BY <1>7, RewriteOnly, RewriteIs, NoteFields
  <2>3. /\ head' \in Heads(history.used) /\ rebase' \subseteq Rebases(history.used)
        /\ local' \in [Branches -> OwnTips(history.used) \cup {NoTip}]
        /\ AtMostOne(head'.on) /\ AtMostOne(rebase')
        /\ \A c \in head'.on : local'[c] = head'.at
        /\ head'.staged = {} /\ \A r \in rebase' : r.todo # {}
    BY <1>7, <2>1, PickIs
  <2>4. \/ /\ tool' = next /\ rebase' = {} /\ head'.on = {b} /\ local'[b] = head'.at
           /\ head'.at.patches = head.at.patches
        \/ /\ tool' = [next EXCEPT !.step = "stopped"] /\ head'.on = {}
           /\ \A r \in rebase' : /\ r.conflict = "open"
                                 /\ head.at.patches \subseteq head'.at.patches \cup r.todo
    <3>1. PickEnds(b, head.at, {} \cup head.at.patches, next) BY <1>7, <2>1, PickIs
    <3> QED BY <1>4, <3>1 DEF PickEnds
  <2>5. CASE tool' = next /\ rebase' = {} /\ local'[b] = head'.at
             /\ head'.at.patches = head.at.patches
    <3>1. GitShapes' /\ GitTidy' /\ Fetched' BY <1>1, <1>3, <2>2, <2>3, <2>5, Picked
    <3>2. Leased' /\ Whole' /\ Finds'
      BY <1>3, <1>5, <2>2, <2>5 DEF Leased, Whole, Finds, AtMostOne
    <3>3. Fixes' /\ RollsBack' BY <1>3, <2>5 DEF Fixes, RollsBack
    <3> QED BY <3>1, <3>2, <3>3 DEF GitInv
  <2>6. CASE /\ tool' = [next EXCEPT !.step = "stopped"] /\ head'.on = {}
             /\ \A r \in rebase' : /\ r.conflict = "open"
                                   /\ head.at.patches \subseteq head'.at.patches \cup r.todo
    <3>1. /\ tool' \in Tools(history.used) /\ tool'.step = "stopped" /\ tool'.branch = {b}
          /\ tool'.tweak = {}
      BY <1>3, <1>4, <2>6 DEF Tools, GitSteps
    <3>2. GitShapes' /\ GitTidy' /\ Fetched' BY <1>1, <2>2, <2>3, <3>1, Picked
    <3>3. Whole' BY <1>5, <2>2, <2>6, <3>1 DEF Whole
    <3>4. Leased' /\ Finds' BY <3>1 DEF Leased, Finds, AtMostOne
    <3>5. Fixes' /\ RollsBack' BY <3>1 DEF Fixes, RollsBack
    <3> QED BY <3>2, <3>3, <3>4, <3>5 DEF GitInv
  <2> QED BY <2>4, <2>5, <2>6
<1> QED BY <1>1, <1>6, <1>7

(* What was resolved is picked with the rest.                              *)
LEMMA RebaseContinueKeeps == ASSUME GitInv, NEW b \in Branches, RebaseContinue(b) PROVE GitInv'
<1> DEFINE next == [NoTool EXCEPT !.step = "lease", !.branch = {b}]
           base(r, x) == head.at.patches \cup head.staged
                            \cup (IF r.conflict = "staged" THEN {x} ELSE {})
<1>1. /\ tool.step = "none" /\ CanRewrite /\ UNCHANGED <<remote, tracking>>
      /\ history' = [history EXCEPT !.rewrites = Rewrite]
  BY DEF RebaseContinue, Quiet
<1>2. PICK r \in rebase :
         /\ r.branch = b /\ r.conflict # "open"
         /\ \E x \in r.todo : Pick(b, r.orig, base(r, x), r.todo \ {x}, next)
  BY DEF RebaseContinue
<1>2a. PICK current \in r.todo : Pick(b, r.orig, base(r, current), r.todo \ {current}, next)
  BY <1>2
<1> DEFINE start == base(r, current)
           rest == r.todo \ {current}
<1>3. /\ next \in Tools(history.used) /\ next.step = "lease" /\ next.branch = {b}
      /\ next.tweak = {}
  BY NoToolIs
<1> HIDE DEF next
<1>4. /\ r \in Rebases(history.used) /\ r.orig \in OwnTips(history.used)
      /\ r.todo \subseteq Works \cap history.used
      /\ r.conflict \in {"open", "staged", "gone"}
  <2>1. r \in Rebases(history.used) BY GitFields
  <2> QED BY <2>1, RebaseFields
<1>5. /\ start \in SUBSET (Works \cap history.used) /\ rest \in SUBSET (Works \cap history.used)
  <2>1. head.at.patches \subseteq Works \cap history.used
        /\ head.staged \subseteq Works \cap history.used
    BY GitFields, HeadFields, TipFields
  <2> QED BY <1>2, <1>4, <2>1
<1>6. /\ history' \in Notes(history.used) /\ history'.used = history.used
      /\ history'.seen = history.seen /\ history'.stale = history.stale
  BY <1>1, RewriteOnly, RewriteIs, NoteFields
<1>7. history.stale \/ (head.on = {} /\ history.seen \subseteq start \cup rest)
  <2>1. history.stale \/ /\ head.on = {} /\ r.conflict = "staged"
                         /\ history.seen \subseteq head.at.patches \cup r.todo
    BY <1>2, <1>4 DEF GitInv, Whole
  <2> QED BY <2>1
<1>8. Pick(b, r.orig, start, rest, next) BY <1>2a
<1> HIDE DEF start, rest
<1>9. /\ head' \in Heads(history.used) /\ rebase' \subseteq Rebases(history.used)
      /\ local' \in [Branches -> OwnTips(history.used) \cup {NoTip}]
      /\ AtMostOne(head'.on) /\ AtMostOne(rebase')
      /\ \A c \in head'.on : local'[c] = head'.at
      /\ head'.staged = {} /\ \A n \in rebase' : n.todo # {}
  BY <1>1, <1>4, <1>5, <1>8, PickIs
<1>10. PickEnds(b, r.orig, start \cup rest, next) BY <1>1, <1>4, <1>5, <1>8, PickIs
<1>11. CASE tool' = next /\ rebase' = {} /\ local'[b] = head'.at
            /\ head'.at.patches = start \cup rest
  <2>1. GitShapes' /\ GitTidy' /\ Fetched' BY <1>1, <1>3, <1>6, <1>9, <1>11, Picked
  <2>2. Leased' /\ Whole' /\ Finds'
    BY <1>3, <1>6, <1>7, <1>11 DEF Leased, Whole, Finds, AtMostOne
  <2>3. Fixes' /\ RollsBack' BY <1>3, <1>11 DEF Fixes, RollsBack
  <2> QED BY <2>1, <2>2, <2>3 DEF GitInv
<1>12. CASE /\ tool' = [next EXCEPT !.step = "stopped"] /\ head'.on = head.on \ {b}
            /\ \A n \in rebase' : /\ n.conflict = "open"
                                  /\ start \cup rest \subseteq head'.at.patches \cup n.todo
  <2>1. /\ tool' \in Tools(history.used) /\ tool'.step = "stopped" /\ tool'.branch = {b}
        /\ tool'.tweak = {}
    BY <1>3, <1>12 DEF Tools, GitSteps
  <2>2. GitShapes' /\ GitTidy' /\ Fetched' BY <1>1, <1>6, <1>9, <2>1, Picked
  <2>3. Whole' BY <1>6, <1>7, <1>12, <2>1 DEF Whole
  <2>4. Leased' /\ Finds' BY <2>1 DEF Leased, Finds, AtMostOne
  <2>5. Fixes' /\ RollsBack' BY <2>1 DEF Fixes, RollsBack
  <2> QED BY <2>2, <2>3, <2>4, <2>5 DEF GitInv
<1> QED BY <1>10, <1>11, <1>12 DEF PickEnds

LEMMA RebasePausedKeeps == ASSUME GitInv, RebasePaused PROVE GitInv'
BY GitFields, LetGo DEF RebasePaused, GitInv, Fetched

LEMMA RebaseAbortKeeps == ASSUME GitInv, RebaseAbort PROVE GitInv'
<1>1. tool.step = "none" /\ UNCHANGED <<remote, tracking, tool, history>>
  BY DEF RebaseAbort, Quiet
<1>2. PICK r \in rebase : AbortRebase(r) BY DEF RebaseAbort
<1>3. /\ head' \in Heads(history.used) /\ rebase' = {}
      /\ local' \in [Branches -> OwnTips(history.used) \cup {NoTip}]
      /\ AtMostOne(head'.on) /\ \A b \in head'.on : local'[b] = head'.at
      /\ head'.staged \cap head'.at.patches = {}
  BY <1>2, AbortIs
<1>4. GitShapes' BY <1>1, <1>3, GitFields DEF GitShapes
<1>5. GitTidy' /\ Fetched' BY <1>1, <1>3 DEF GitInv, GitTidy, Fetched, AtMostOne
<1>6. Leased' /\ Whole' /\ Finds' /\ Fixes' /\ RollsBack' BY <1>1, <1>3, AtRest
<1> QED BY <1>4, <1>5, <1>6 DEF GitInv

(* The lease is what is known of the remote.                               *)
LEMMA Leases ==
  ASSUME GitInv, NEW b \in Branches, tool.branch = {b}, tool.step \in {"lease", "tree"},
         tool' = [tool EXCEPT !.step = "force", !.lease = tracking[b]],
         UNCHANGED <<remote, tracking, local, head, rebase, history>>
  PROVE GitInv'
<1>1. tool \in Tools(history.used) /\ tracking[b] \in SeenTips(history.used) \cup {NoTip}
  BY GitFields
<1>2. /\ tool' \in Tools(history.used) /\ tool'.step = "force" /\ tool'.branch = {b}
      /\ tool'.lease = tracking[b]
  BY <1>1 DEF Tools, GitSteps
<1>3. GitShapes' /\ GitTidy' /\ Fetched' BY <1>2, Steps
<1>4. Leased' BY <1>2, ExtendsIs DEF Leased
<1>5. Whole' /\ Finds' BY <1>2 DEF GitInv, Whole, Finds, AtMostOne
<1>6. Fixes' /\ RollsBack' BY <1>2 DEF Fixes, RollsBack
<1> QED BY <1>3, <1>4, <1>5, <1>6 DEF GitInv

LEMMA RebaseLeaseKeeps == ASSUME GitInv, NEW b \in Branches, RebaseLease(b) PROVE GitInv'
BY Leases DEF RebaseLease

LEMMA ForcePushKeeps == ASSUME GitInv, NEW b \in Branches, ForcePush(b) PROVE GitInv'
<1>1. tool' = NoTool /\ UNCHANGED <<local, head, rebase, history>> BY DEF ForcePush
<1>2. CASE remote' = [remote EXCEPT ![b] = local[b]]
           /\ tracking' = [tracking EXCEPT ![b] = local[b]]
  BY <1>1, <1>2, Published, GitFields, LetGo
<1>3. CASE UNCHANGED <<remote, tracking>>
  BY <1>1, <1>3, GitFields, LetGo DEF GitInv, Fetched
<1> QED BY <1>2, <1>3 DEF ForcePush

-----------------------------------------------------------------------------
(* What git_fixup does.                                                    *)

LEMMA FixupStartKeeps == ASSUME GitInv, NEW b \in Branches, FixupStart(b) PROVE GitInv'
<1>1. /\ tool.step = "none" /\ head.staged # {} /\ head.on = {b}
      /\ tool' = [NoTool EXCEPT !.step = "commit", !.branch = {b}, !.tweak = head.staged]
      /\ history' = [history EXCEPT !.before = head, !.restored = rebase = {}]
      /\ UNCHANGED <<remote, tracking, local, head, rebase>>
  BY DEF FixupStart, Quiet
<1>2. head \in Heads(history.used) /\ head.staged \in SUBSET (Works \cap history.used)
  BY GitFields, HeadFields
<1>3. /\ tool' \in Tools(history.used) /\ tool'.step = "commit" /\ tool'.branch = {b}
      /\ tool'.tweak = head.staged
  BY <1>1, <1>2 DEF NoTool, Tools, GitSteps
<1>4. /\ history' \in Notes(history.used) /\ history'.used = history.used
      /\ history'.seen = history.seen /\ history'.stale = history.stale
      /\ history'.before = head /\ history'.restored = (rebase = {})
  BY <1>1, <1>2, GitFields DEF Notes
<1>5. GitShapes' BY <1>1, <1>3, <1>4, GitFields DEF GitShapes
<1>6. GitTidy' /\ Fetched' BY <1>1 DEF GitInv, GitTidy, Fetched
<1>7. Leased' /\ Whole' /\ Finds'
  BY <1>1, <1>3, <1>4 DEF GitInv, Leased, Whole, Finds, AtMostOne
<1>8. Fixes' /\ RollsBack' BY <1>1, <1>3, <1>4 DEF Fixes, RollsBack
<1> QED BY <1>5, <1>6, <1>7, <1>8 DEF GitInv

LEMMA FixupCommitKeeps == ASSUME GitInv, FixupCommit PROVE GitInv'
<1> DEFINE tip == [head.at EXCEPT !.patches = @ \cup head.staged]
<1>1. /\ tool.step = "commit" /\ MoveHead(tip, {}) /\ tool' = [tool EXCEPT !.step = "resolve"]
      /\ UNCHANGED <<remote, tracking, rebase, history>>
  BY DEF FixupCommit, To
<1>2. /\ head.at \in OwnTips(history.used) /\ head.staged \subseteq Works \cap history.used
  BY GitFields, HeadFields
<1>3. tip \in OwnTips(history.used) /\ tip.patches = head.at.patches \cup head.staged
  BY <1>2 DEF OwnTips
<1>4. /\ history.before = head /\ tool.tweak = head.staged /\ tool.tweak # {}
      /\ head.on = tool.branch /\ head.staged \cap head.at.patches = {}
      /\ tool.branch # {} /\ AtMostOne(tool.branch)
  BY <1>1 DEF GitInv, Fixes, GitTidy, Finds
<1>5. tip = [history.before.at EXCEPT !.patches = @ \cup tool.tweak] BY <1>4
<1> HIDE DEF tip
<1>6. /\ head' \in Heads(history.used) /\ head'.on = head.on /\ head'.at = tip
      /\ head'.staged = {}
      /\ local' \in [Branches -> OwnTips(history.used) \cup {NoTip}]
      /\ AtMostOne(head'.on) /\ \A b \in head'.on : local'[b] = head'.at
  BY <1>1, <1>3, MoveHeadIs
<1>7. /\ tool' \in Tools(history.used) /\ tool'.step = "resolve" /\ tool'.branch = tool.branch
      /\ tool'.tweak = tool.tweak
  BY <1>1, GitFields DEF Tools, GitSteps
<1>8. GitShapes' BY <1>1, <1>6, <1>7, GitFields DEF GitShapes
<1>9. GitTidy' /\ Fetched' BY <1>1, <1>6 DEF GitInv, GitTidy, Fetched
<1>10. Whole'
  <2>1. head.at.patches \subseteq head'.at.patches BY <1>3, <1>6
  <2> QED BY <1>1, <1>6, <1>7, <2>1 DEF GitInv, Whole
<1>11. Leased' /\ Finds' BY <1>4, <1>7 DEF Leased, Finds
<1>12. Fixes' BY <1>1, <1>4, <1>5, <1>6, <1>7 DEF Fixes, Tweaked
<1>2a. RollsBack' BY <1>1, <1>7 DEF GitInv, RollsBack
<1> QED BY <1>8, <1>9, <1>10, <1>11, <1>12, <1>2a DEF GitInv

LEMMA FixupResolveKeeps == ASSUME GitInv, FixupResolve PROVE GitInv'
<1>1. /\ tool.step = "resolve" /\ tool' = [tool EXCEPT !.step = "squash", !.tip = head.at]
      /\ UNCHANGED <<remote, tracking, local, head, rebase, history>>
  BY DEF FixupResolve
<1>2. tool \in Tools(history.used) /\ head.at \in OwnTips(history.used)
  BY GitFields, HeadFields
<1>3. /\ tool' \in Tools(history.used) /\ tool'.step = "squash" /\ tool'.branch = tool.branch
      /\ tool'.tweak = tool.tweak /\ tool'.tip = head.at
  BY <1>1, <1>2 DEF Tools, GitSteps
<1>4. GitShapes' /\ GitTidy' /\ Fetched' BY <1>1, <1>3, Steps
<1>5. Leased' /\ Whole' /\ Finds' BY <1>1, <1>3 DEF GitInv, Leased, Whole, Finds
<1>6. Fixes' BY <1>1, <1>3 DEF GitInv, Fixes, Tweaked
<1>7. RollsBack' BY <1>1, <1>3 DEF GitInv, RollsBack
<1> QED BY <1>4, <1>5, <1>6, <1>7 DEF GitInv

(* What the tool set out from is what fixup's commit has.                  *)
LEMMA FixupSquashKeeps == ASSUME GitInv, NEW b \in Branches, FixupSquash(b) PROVE GitInv'
<1> DEFINE next == [tool EXCEPT !.step = "tree"]
           seen == history.before.at.patches \cup tool.tweak
<1>1. /\ tool.step = "squash" /\ tool.branch = {b} /\ CanRewrite /\ rebase = {}
      /\ Pick(b, head.at, {}, head.at.patches, next)
      /\ history' = [history EXCEPT !.rewrites = Rewrite, !.seen = seen, !.stale = FALSE]
      /\ UNCHANGED <<remote, tracking>>
  BY DEF FixupSquash
<1>2. tool \in Tools(history.used) BY GitFields
<1>3. /\ next \in Tools(history.used) /\ next.step = "tree" /\ next.branch = {b}
      /\ next.tweak = tool.tweak /\ next.tip = tool.tip
  BY <1>1, <1>2 DEF Tools, GitSteps
<1>4. Tweaked(head.at) /\ tool.tip = head.at /\ head.on = {b}
  BY <1>1 DEF GitInv, Fixes
<1>5. head.at \in OwnTips(history.used)
      /\ head.at.patches \in SUBSET (Works \cap history.used)
  BY GitFields, HeadFields, TipFields
<1>6. seen = head.at.patches
  <2>1. history.before.at \in OwnTips(history.used) BY NoteFields, HeadFields
  <2> QED BY <1>4, <2>1 DEF Tweaked, OwnTips
<1> HIDE DEF next, seen
<1>7. seen \in SUBSET Patches BY <1>5, <1>6, Constants
<1>8. /\ history' \in Notes(history.used) /\ history'.used = history.used
      /\ history'.seen = seen /\ history'.stale = FALSE /\ history'.before = history.before
      /\ history'.restored = history.restored
  BY <1>1, <1>7, RewriteIs
<1>9. /\ head' \in Heads(history.used) /\ rebase' \subseteq Rebases(history.used)
      /\ local' \in [Branches -> OwnTips(history.used) \cup {NoTip}]
      /\ AtMostOne(head'.on) /\ AtMostOne(rebase')
      /\ \A c \in head'.on : local'[c] = head'.at
      /\ head'.staged = {} /\ \A n \in rebase' : n.todo # {}
  BY <1>1, <1>5, PickIs
<1>10. PickEnds(b, head.at, {} \cup head.at.patches, next) BY <1>1, <1>5, PickIs
<1>11. CASE tool' = next /\ rebase' = {} /\ local'[b] = head'.at /\ head'.on = {b}
            /\ head'.at.patches = head.at.patches
  <2>1. GitShapes' /\ GitTidy' /\ Fetched' BY <1>1, <1>3, <1>8, <1>9, <1>11, Picked
  <2>2. Leased' /\ Whole' /\ Finds'
    BY <1>3, <1>6, <1>8, <1>11 DEF Leased, Whole, Finds, AtMostOne
  <2>3. Tweaked(tool.tip)' BY <1>1, <1>3, <1>4, <1>8, <1>11 DEF Tweaked
  <2>4. Fixes' BY <1>3, <1>11, <2>3 DEF Fixes
  <2>5. RollsBack' BY <1>3, <1>11 DEF RollsBack
  <2> QED BY <2>1, <2>2, <2>4, <2>5 DEF GitInv
<1>12. CASE /\ tool' = [next EXCEPT !.step = "stopped"] /\ head'.on = {} /\ rebase' # {}
            /\ \A n \in rebase' : /\ n.branch = b /\ n.orig = head.at /\ n.conflict = "open"
                                  /\ head.at.patches \subseteq head'.at.patches \cup n.todo
  <2>1. /\ tool' \in Tools(history.used) /\ tool'.step = "stopped" /\ tool'.branch = {b}
        /\ tool'.tweak = tool.tweak /\ tool'.tip = tool.tip
    BY <1>3, <1>12 DEF Tools, GitSteps
  <2>2. GitShapes' /\ GitTidy' /\ Fetched' BY <1>1, <1>8, <1>9, <2>1, Picked
  <2>3. Whole' BY <1>6, <1>8, <1>12, <2>1 DEF Whole
  <2>4. Leased' /\ Finds' BY <2>1 DEF Leased, Finds, AtMostOne
  <2>5. Tweaked(tool.tip)' BY <1>1, <1>4, <1>8, <2>1 DEF Tweaked
  <2>7. OfFixup' BY <1>4, <1>12, <2>1 DEF OfFixup
  <2>6. Fixes' /\ RollsBack' BY <1>12, <2>1, <2>5, <2>7 DEF Fixes, RollsBack
  <2> QED BY <2>2, <2>3, <2>4, <2>6 DEF GitInv
<1> QED BY <1>4, <1>10, <1>11, <1>12 DEF PickEnds

(* The rollback begins, or goes on, with the tool's commit as it was.      *)
LEMMA ToUndo ==
  ASSUME GitInv, tool' = [tool EXCEPT !.step = "undo"], tool.step # "none",
         UNCHANGED <<remote, tracking, local, head, rebase, history>>, Tweaked(tool.tip),
         history.restored => OfFixup /\ (rebase = {} => head.on = tool.branch)
  PROVE GitInv'
<1>1. /\ tool' \in Tools(history.used) /\ tool'.step = "undo" /\ tool'.branch = tool.branch
      /\ tool'.tweak = tool.tweak /\ tool'.tip = tool.tip
  BY GitFields DEF Tools, GitSteps
<1>2. GitShapes' /\ GitTidy' /\ Fetched' BY <1>1, Steps
<1>3. Leased' /\ Whole' /\ Finds' BY <1>1 DEF GitInv, Leased, Whole, Finds
<1>4. Fixes' BY <1>1 DEF Fixes, Tweaked
<1>5. RollsBack' BY <1>1 DEF RollsBack, OfFixup
<1> QED BY <1>2, <1>3, <1>4, <1>5 DEF GitInv

LEMMA FixupRefusedKeeps == ASSUME GitInv, FixupRefused PROVE GitInv'
<1>1. /\ tool.step = "squash" /\ rebase # {} /\ tool' = [tool EXCEPT !.step = "undo"]
      /\ UNCHANGED <<remote, tracking, local, head, rebase, history>>
  BY DEF FixupRefused, To
<1>2. Tweaked(tool.tip) /\ ~history.restored BY <1>1 DEF GitInv, Fixes, RollsBack
<1> QED BY <1>1, <1>2, ToUndo

LEMMA FixupTreeKeeps == ASSUME GitInv, NEW b \in Branches, FixupTree(b) PROVE GitInv'
<1>1. /\ tool.branch = {b} /\ tool.tweak # {}
      /\ UNCHANGED <<remote, tracking, local, head, rebase, history>>
      /\ \/ tool.step = "tree" /\ tool' = [tool EXCEPT !.step = "force", !.lease = tracking[b]]
         \/ tool.step \in {"tree", "stopped"} /\ tool' = [tool EXCEPT !.step = "undo"]
  BY DEF FixupTree, To
<1>2. CASE tool.step = "tree" /\ tool' = [tool EXCEPT !.step = "force", !.lease = tracking[b]]
  BY <1>1, <1>2, Leases
<1>3. CASE tool.step \in {"tree", "stopped"} /\ tool' = [tool EXCEPT !.step = "undo"]
  <2>1. /\ Tweaked(tool.tip) /\ OfFixup
        /\ rebase = {} => head.on = tool.branch
    <3>1. CASE tool.step = "tree" BY <3>1 DEF GitInv, Fixes, Finds, OfFixup
    <3>2. CASE tool.step = "stopped" BY <1>1, <3>2 DEF GitInv, Fixes
    <3> QED BY <1>3, <3>1, <3>2
  <2> QED BY <1>1, <1>3, <2>1, ToUndo
<1> QED BY <1>1, <1>2, <1>3

LEMMA UndoAbortKeeps == ASSUME GitInv, UndoAbort PROVE GitInv'
<1>1. /\ tool.step = "undo" /\ tool' = [tool EXCEPT !.step = "undo hard"]
      /\ UNCHANGED <<remote, tracking, history>>
  BY DEF UndoAbort, To
<1>2. /\ tool' \in Tools(history.used) /\ tool'.step = "undo hard"
      /\ tool'.branch = tool.branch /\ tool'.tweak = tool.tweak /\ tool'.tip = tool.tip
  BY <1>1, GitFields DEF Tools, GitSteps
<1>3. Tweaked(tool.tip)' BY <1>1, <1>2 DEF GitInv, Fixes, Tweaked
<1>4. Leased' /\ Finds' /\ Fixes' BY <1>1, <1>2, <1>3 DEF GitInv, Leased, Finds, Fixes
<1>5. CASE rebase = {} /\ UNCHANGED <<local, head, rebase>>
  <2>1. GitShapes' /\ GitTidy' /\ Fetched' BY <1>1, <1>2, <1>5, Steps
  <2>2. Whole' BY <1>2, <1>5 DEF Whole
  <2>3. RollsBack' BY <1>1, <1>2, <1>5 DEF GitInv, RollsBack
  <2> QED BY <1>4, <2>1, <2>2, <2>3 DEF GitInv
<1>6. ASSUME NEW r \in rebase, AbortRebase(r) PROVE GitInv'
  <2>1. /\ head' \in Heads(history.used) /\ rebase' = {} /\ head'.on = {r.branch}
        /\ local' \in [Branches -> OwnTips(history.used) \cup {NoTip}]
        /\ AtMostOne(head'.on) /\ \A b \in head'.on : local'[b] = head'.at
        /\ head'.staged \cap head'.at.patches = {}
    BY <1>6, AbortIs
  <2>2. GitShapes' BY <1>1, <1>2, <2>1, GitFields DEF GitShapes
  <2>3. GitTidy' /\ Fetched' BY <1>1, <2>1 DEF GitInv, GitTidy, Fetched, AtMostOne
  <2>4. Whole' BY <1>2, <2>1 DEF Whole
  <2>5. history.restored => {r.branch} = tool.branch
    BY <1>1, <1>6 DEF GitInv, RollsBack, OfFixup
  <2>6. RollsBack' BY <1>1, <1>2, <2>1, <2>5 DEF RollsBack
  <2> QED BY <1>4, <2>2, <2>3, <2>4, <2>6 DEF GitInv
<1> QED BY <1>5, <1>6 DEF UndoAbort

LEMMA TweakedTip ==
  ASSUME GitInv, NEW tip, Tweaked(tip)
  PROVE /\ tip \in OwnTips(history.used)
        /\ tip.patches = history.before.at.patches \cup tool.tweak
        /\ [tip EXCEPT !.patches = @ \ tool.tweak] = history.before.at
<1>1. history.before.at \in OwnTips(history.used) BY NoteFields, HeadFields
<1>2. tool.tweak \subseteq Works \cap history.used
  <2>1. tool \in Tools(history.used) BY GitFields
  <2> QED BY <2>1, ToolFields
<1>3. /\ tip = [history.before.at EXCEPT !.patches = @ \cup tool.tweak]
      /\ tool.tweak \cap history.before.at.patches = {}
  BY DEF Tweaked
<1>4. /\ tip \in OwnTips(history.used)
      /\ tip.patches = history.before.at.patches \cup tool.tweak
      /\ tip.rewrite = history.before.at.rewrite
  BY <1>1, <1>2, <1>3 DEF OwnTips
<1>5. tip.patches \ tool.tweak = history.before.at.patches BY <1>3, <1>4
<1> QED BY <1>1, <1>4, <1>5 DEF OwnTips

LEMMA UndoHardKeeps == ASSUME GitInv, UndoHard PROVE GitInv'
<1>1. /\ tool.step = "undo hard" /\ MoveHead(tool.tip, {})
      /\ rebase' = {[r EXCEPT !.conflict = "gone"] : r \in rebase}
      /\ tool' = [tool EXCEPT !.step = "undo soft"]
      /\ history' = [history EXCEPT !.stale = rebase # {}]
      /\ UNCHANGED <<remote, tracking>>
  BY DEF UndoHard, To
<1>2. Tweaked(tool.tip) /\ tool.tip \in OwnTips(history.used)
  BY <1>1, TweakedTip DEF GitInv, Fixes
<1>3. /\ tool' \in Tools(history.used) /\ tool'.step = "undo soft"
      /\ tool'.branch = tool.branch /\ tool'.tweak = tool.tweak /\ tool'.tip = tool.tip
  BY <1>1, GitFields DEF Tools, GitSteps
<1>4. /\ history' \in Notes(history.used) /\ history'.used = history.used
      /\ history'.stale = (rebase # {}) /\ history'.before = history.before
      /\ history'.restored = history.restored
  BY <1>1, StaleIs
<1>5. /\ rebase' \subseteq Rebases(history.used) /\ AtMostOne(rebase')
      /\ \A n \in rebase' : n.todo # {}
  BY <1>1, GoneIs
<1>6. /\ head' \in Heads(history.used) /\ head'.on = head.on /\ head'.at = tool.tip
      /\ head'.staged = {}
      /\ local' \in [Branches -> OwnTips(history.used) \cup {NoTip}]
      /\ AtMostOne(head'.on) /\ \A b \in head'.on : local'[b] = head'.at
  BY <1>1, <1>2, MoveHeadIs
<1>7. GitShapes' BY <1>1, <1>3, <1>4, <1>5, <1>6, GitFields DEF GitShapes
<1>8. GitTidy' /\ Fetched' BY <1>1, <1>5, <1>6 DEF GitInv, GitTidy, Fetched
<1>9. Whole'
  <2>1. rebase = {} => rebase' = {} BY <1>1
  <2> QED BY <1>3, <1>4, <2>1 DEF Whole
<1>10. Leased' /\ Finds' BY <1>1, <1>3 DEF GitInv, Leased, Finds
<1>11. Fixes' BY <1>2, <1>3, <1>4 DEF Fixes, Tweaked
<1>12. RollsBack' BY <1>1, <1>3, <1>4, <1>6 DEF GitInv, RollsBack
<1> QED BY <1>7, <1>8, <1>9, <1>10, <1>11, <1>12 DEF GitInv

LEMMA UndoSoftKeeps == ASSUME GitInv, UndoSoft PROVE GitInv'
<1>1. /\ tool.step = "undo soft" /\ tool' = NoTool
      /\ history' = [history EXCEPT !.stale = rebase # {}]
      /\ UNCHANGED <<remote, tracking, rebase>>
  BY DEF UndoSoft
<1>2. /\ head.at \in OwnTips(history.used)
      /\ head.at.patches \subseteq Works \cap history.used
  BY GitFields, HeadFields, TipFields
<1>3. tool.tweak \subseteq Works \cap history.used
  <2>1. tool \in Tools(history.used) BY GitFields
  <2> QED BY <2>1, ToolFields
<1>4. PICK last \in SUBSET (Works \cap history.used) :
         MoveHead([head.at EXCEPT !.patches = @ \ last], last)
  BY <1>2, <1>3 DEF UndoSoft, Parent
<1> DEFINE tip == [head.at EXCEPT !.patches = @ \ last]
<1>5. tip \in OwnTips(history.used) /\ tip.patches = head.at.patches \ last
  BY <1>2 DEF OwnTips
<1> HIDE DEF tip
<1>6. MoveHead(tip, last) BY <1>4 DEF tip
<1>7. /\ head' \in Heads(history.used)
      /\ local' \in [Branches -> OwnTips(history.used) \cup {NoTip}]
      /\ AtMostOne(head'.on) /\ \A b \in head'.on : local'[b] = head'.at
      /\ head'.staged \cap head'.at.patches = {}
  <2>1. last \cap tip.patches = {} BY <1>5
  <2> QED BY <1>5, <1>6, <2>1, MoveHeadIs
<1>8. /\ history' \in Notes(history.used) /\ history'.used = history.used
      /\ history'.stale = (rebase # {})
  BY <1>1, StaleIs
<1>9. NoTool \in Tools(history.used) /\ NoTool.step = "none" BY NoToolIs
<1>10. GitShapes' BY <1>1, <1>7, <1>8, <1>9, GitFields DEF GitShapes
<1>11. GitTidy' /\ Fetched' BY <1>1, <1>7 DEF GitInv, GitTidy, Fetched
<1>12. Leased' /\ Whole' /\ Finds' /\ Fixes' /\ RollsBack'
  BY <1>1, <1>8, <1>9, AtRest
<1> QED BY <1>10, <1>11, <1>12 DEF GitInv

-----------------------------------------------------------------------------
(* What fails.                                                             *)

LEMMA BlameFields ==
  ASSUME GitInv
  PROVE /\ Blame \in Notes(history.used) /\ Blame.used = history.used
        /\ Blame.seen = history.seen /\ Blame.stale = history.stale
        /\ Blame.before = history.before
<1>1. history \in Notes(history.used) BY GitFields
<1>2. history.faults + 1 \in Nat BY NoteFields
<1> QED BY <1>1, <1>2 DEF Notes, Blame

LEMMA BlameIs ==
  ASSUME GitInv, NEW restored \in BOOLEAN, history' = [Blame EXCEPT !.restored = restored]
  PROVE /\ history' \in Notes(history.used) /\ history'.used = history.used
        /\ history'.seen = history.seen /\ history'.stale = history.stale
        /\ history'.before = history.before /\ history'.restored = restored
BY BlameFields DEF Notes

LEMMA CommandFailsKeeps == ASSUME GitInv, CommandFails PROVE GitInv'
<1>1. /\ tool.step # "none" /\ history' = [Blame EXCEPT !.restored = FALSE]
      /\ UNCHANGED <<remote, tracking, local, head, rebase>>
  BY DEF CommandFails, Quiet
<1>2. /\ history' \in Notes(history.used) /\ history'.used = history.used
      /\ history'.seen = history.seen /\ history'.stale = history.stale
      /\ history'.before = history.before /\ history'.restored = FALSE
  BY <1>1, BlameIs
<1>3. CASE tool' = NoTool
  BY <1>1, <1>2, <1>3, GitFields, LetGo DEF GitInv, Fetched
<1>4. ASSUME NEW step \in {"undo hard", "undo soft"}, tool.step \in {"undo", "undo hard"},
             tool' = [tool EXCEPT !.step = step]
      PROVE GitInv'
  <2>1. /\ tool' \in Tools(history.used) /\ tool'.step = step /\ tool'.branch = tool.branch
        /\ tool'.tweak = tool.tweak /\ tool'.tip = tool.tip
    BY <1>4, GitFields DEF Tools, GitSteps
  <2>2. GitShapes' BY <1>1, <1>2, <2>1, GitFields DEF GitShapes
  <2>3. GitTidy' /\ Fetched' BY <1>1 DEF GitInv, GitTidy, Fetched
  <2>4. Leased' /\ Whole' /\ Finds'
    BY <1>1, <1>2, <1>4, <2>1 DEF GitInv, Leased, Whole, Finds
  <2>5. Fixes'
    <3>1. Tweaked(tool.tip) BY <1>4 DEF GitInv, Fixes
    <3>2. Tweaked(tool.tip)' BY <1>2, <2>1, <3>1 DEF Tweaked
    <3> QED BY <1>4, <2>1, <3>2 DEF Fixes
  <2>6. RollsBack' BY <1>2 DEF RollsBack
  <2> QED BY <2>2, <2>3, <2>4, <2>5, <2>6 DEF GitInv
<1>5. \/ tool.step = "undo" /\ tool' = [tool EXCEPT !.step = "undo hard"]
      \/ tool.step = "undo hard" /\ tool' = [tool EXCEPT !.step = "undo soft"]
      \/ tool' = NoTool
  BY DEF CommandFails
<1> QED BY <1>3, <1>4, <1>5

LEMMA RebaseKilledKeeps == ASSUME GitInv, NEW b \in Branches, RebaseKilled(b) PROVE GitInv'
<1> DEFINE stop == [Stopped(b, head.at, head.at.patches) EXCEPT !.conflict = "staged"]
<1>1. /\ head.at.patches # {} /\ rebase' = {stop} /\ head' = Fresh /\ tool' = NoTool
      /\ history' = [Blame EXCEPT !.restored = FALSE, !.stale = FALSE,
                                  !.seen = head.at.patches]
      /\ UNCHANGED <<remote, tracking, local>>
  BY DEF RebaseKilled
<1>2. /\ head.at \in OwnTips(history.used)
      /\ head.at.patches \in SUBSET (Works \cap history.used)
  BY GitFields, HeadFields, TipFields
<1>3. /\ stop \in Rebases(history.used) /\ stop.todo = head.at.patches
      /\ stop.conflict = "staged"
  BY <1>2 DEF Stopped, Rebases
<1> HIDE DEF stop
<1>4. /\ history' \in Notes(history.used) /\ history'.used = history.used
      /\ history'.seen = head.at.patches
  <2>1. head.at.patches \in SUBSET Patches BY <1>2, Constants
  <2> QED BY <1>1, <2>1, BlameFields DEF Notes
<1>5. head' \in Heads(history.used) /\ head'.on = {} /\ head'.staged = {} BY <1>1, FreshIs
<1>6. NoTool \in Tools(history.used) /\ NoTool.step = "none" BY NoToolIs
<1>7. GitShapes' BY <1>1, <1>3, <1>4, <1>5, <1>6, GitFields DEF GitShapes
<1>8. GitTidy' /\ Fetched' BY <1>1, <1>3, <1>5 DEF GitInv, GitTidy, Fetched, AtMostOne
<1>9. Leased' /\ Whole' /\ Finds' /\ Fixes' /\ RollsBack'
  BY <1>1, <1>3, <1>4, <1>5, <1>6, AtRest
<1> QED BY <1>7, <1>8, <1>9 DEF GitInv

LEMMA KillKeeps == ASSUME GitInv, Kill PROVE GitInv'
<1>1. /\ tool' = NoTool /\ history' = Blame
      /\ UNCHANGED <<remote, tracking, local, head, rebase>>
  BY DEF Kill
<1>2. /\ history' \in Notes(history.used) /\ history'.used = history.used
      /\ history'.seen = history.seen /\ history'.stale = history.stale
  BY <1>1, BlameFields
<1> QED BY <1>1, <1>2, GitFields, LetGo DEF GitInv, Fetched

LEMMA GitStutters == ASSUME GitInv, UNCHANGED gitVars PROVE GitInv'
<1>1. UNCHANGED <<remote, tracking, local, head, rebase, tool, history>> BY DEF gitVars
<1>2. GitShapes' /\ GitTidy' BY <1>1 DEF GitInv, GitShapes, GitTidy
<1>3. Fetched' /\ Leased' /\ Whole' BY <1>1 DEF GitInv, Fetched, Leased, Whole
<1>4. Finds' /\ Fixes' /\ RollsBack'
  BY <1>1 DEF GitInv, Finds, Fixes, RollsBack, Tweaked, OfFixup
<1> QED BY <1>2, <1>3, <1>4 DEF GitInv

-----------------------------------------------------------------------------
(* The invariant.                                                          *)

LEMMA GitInitially == GitInit => GitInv
<1> SUFFICES ASSUME GitInit PROVE GitInv OBVIOUS
<1>1. /\ remote = [b \in Branches |-> NoTip] /\ tracking = remote /\ local = remote
      /\ head = Fresh /\ rebase = {} /\ tool = NoTool
      /\ history = [rewrites |-> 0, faults |-> 0, used |-> {}, seen |-> {},
                    stale |-> FALSE, before |-> Fresh, restored |-> TRUE]
  BY DEF GitInit
<1>2. /\ history.used = {} /\ history.seen = {} /\ history \in Notes({})
  BY <1>1, FreshIs, Constants DEF Notes
<1>3. /\ head \in Heads({}) /\ head.on = {} /\ head.staged = {} BY <1>1, FreshIs
<1>4. /\ tool \in Tools({}) /\ tool.step = "none" BY <1>1, NoToolIs
<1>5. GitShapes BY <1>1, <1>2, <1>3, <1>4 DEF GitShapes
<1>6. GitTidy BY <1>1, <1>3 DEF GitTidy, AtMostOne
<1>7. Fetched BY <1>1, ExtendsIs DEF Fetched
<1>8. Leased /\ Whole /\ Finds /\ Fixes /\ RollsBack
  BY <1>1, <1>2, <1>4 DEF Leased, Whole, Finds, Fixes, RollsBack
<1> QED BY <1>5, <1>6, <1>7, <1>8 DEF GitInv

LEMMA GitSteady == ASSUME GitInv, [GitNext]_gitVars PROVE GitInv'
<1>1. ASSUME NEW b \in Branches, NEW h \in HumanWorks, HumanPushes(b, h) PROVE GitInv'
  BY <1>1, HumanPushesKeeps
<1>2. ASSUME NEW b \in Branches, ForcePush(b) \/ RebaseKilled(b) PROVE GitInv'
  BY <1>2, ForcePushKeeps, RebaseKilledKeeps
<1>3. CASE TurnSteps
  <2>1. ASSUME NEW w \in Works, StageWork(w) PROVE GitInv' BY <2>1, StageWorkKeeps
  <2>2. ASSUME NEW b \in Branches, TakeBranch(b) \/ Push(b) PROVE GitInv'
    BY <2>2, TakeBranchKeeps, PushKeeps
  <2>3. CASE Commit \/ Fetch BY <2>3, CommitKeeps, FetchKeeps
  <2>4. CASE Resolve \/ Prepare BY <2>4, ResolveKeeps, PrepareKeeps
  <2> QED BY <1>3, <2>1, <2>2, <2>3, <2>4 DEF TurnSteps
<1>4. CASE RebaseTool
  <2>1. ASSUME NEW b \in Branches, RebaseStart(b) \/ RebaseCompare(b) PROVE GitInv'
    BY <2>1, RebaseStartKeeps, RebaseCompareKeeps
  <2>2. ASSUME NEW b \in Branches, RebaseRun(b) \/ RebaseContinue(b) PROVE GitInv'
    BY <2>2, RebaseRunKeeps, RebaseContinueKeeps
  <2>3. ASSUME NEW b \in Branches, RebaseLease(b) PROVE GitInv' BY <2>3, RebaseLeaseKeeps
  <2>4. CASE RebaseFetch BY <2>4, RebaseFetchKeeps
  <2>5. CASE RebasePaused BY <2>5, RebasePausedKeeps
  <2>6. CASE RebaseAbort BY <2>6, RebaseAbortKeeps
  <2> QED BY <1>4, <2>1, <2>2, <2>3, <2>4, <2>5, <2>6 DEF RebaseTool
<1>5. CASE FixupTool
  <2>1. ASSUME NEW b \in Branches, FixupStart(b) \/ FixupTree(b) PROVE GitInv'
    BY <2>1, FixupStartKeeps, FixupTreeKeeps
  <2>2. ASSUME NEW b \in Branches, FixupSquash(b) PROVE GitInv' BY <2>2, FixupSquashKeeps
  <2>3. CASE FixupCommit \/ FixupResolve BY <2>3, FixupCommitKeeps, FixupResolveKeeps
  <2>4. CASE FixupRefused BY <2>4, FixupRefusedKeeps
  <2>5. CASE UndoAbort \/ UndoHard BY <2>5, UndoAbortKeeps, UndoHardKeeps
  <2>6. CASE UndoSoft BY <2>6, UndoSoftKeeps
  <2> QED BY <1>5, <2>1, <2>2, <2>3, <2>4, <2>5, <2>6 DEF FixupTool
<1>6. CASE CommandFails BY <1>6, CommandFailsKeeps
<1>7. CASE Kill BY <1>7, KillKeeps
<1>8. CASE UNCHANGED gitVars BY <1>8, GitStutters
<1> QED BY <1>1, <1>2, <1>3, <1>4, <1>5, <1>6, <1>7, <1>8 DEF GitNext

LEMMA GitInvariant == GitSpec => []GitInv
<1> QED BY GitInitially, GitSteady, PTL DEF GitSpec

-----------------------------------------------------------------------------
(* The theorems.                                                           *)

(* Types, and what git keeps true of HEAD and of a rebase                  *)
(* (tools/git/rebase.rs, fixup.rs): HEAD's branch is at HEAD's commit, at  *)
(* most one rebase is stopped, and no branch of the remote has a patch     *)
(* that nobody made.                                                       *)
THEOREM GitTypes == GitSpec => []GitTypeOK
<1>1. GitInv => GitTypeOK
  <2> SUFFICES ASSUME GitInv PROVE GitTypeOK OBVIOUS
  <2>1. /\ SeenTips(history.used) \subseteq Tips /\ OwnTips(history.used) \subseteq Tips
    BY Constants DEF SeenTips, OwnTips, Tips
  <2>2. /\ remote \in [Branches -> AllTips] /\ tracking \in [Branches -> AllTips]
        /\ local \in [Branches -> AllTips]
    BY <2>1, GitFields DEF AllTips
  <2>3. ASSUME NEW S, AtMostOne(S) PROVE Cardinality(S) <= 1
    <3>1. CASE S = {} BY <3>1, FS_EmptySet
    <3>2. CASE S # {}
      <4>1. PICK x \in S : TRUE BY <3>2
      <4>2. S = {x} BY <2>3, <4>1 DEF AtMostOne
      <4> QED BY <4>2, FS_Singleton
    <3> QED BY <3>1, <3>2
  <2>4. /\ head.on \subseteq Branches /\ Cardinality(head.on) <= 1
        /\ head.at \in Tips /\ head.staged \subseteq Works
        /\ \A b \in head.on : local[b] = head.at
    BY <2>1, <2>3, GitFields, HeadFields DEF GitInv, GitTidy
  <2>5. /\ Cardinality(rebase) <= 1
        /\ \A r \in rebase : /\ r.branch \in Branches /\ r.orig \in Tips
                             /\ r.todo \subseteq Patches /\ r.todo # {}
                             /\ r.conflict \in {"open", "staged", "gone"}
    <3>1. Cardinality(rebase) <= 1 BY <2>3 DEF GitInv, GitTidy
    <3>2. ASSUME NEW r \in rebase
          PROVE /\ r.branch \in Branches /\ r.orig \in Tips
                /\ r.todo \subseteq Patches /\ r.todo # {}
                /\ r.conflict \in {"open", "staged", "gone"}
      <4>1. r \in Rebases(history.used) BY GitFields
      <4>2. /\ r.branch \in Branches /\ r.orig \in OwnTips(history.used)
            /\ r.todo \subseteq Works \cap history.used
            /\ r.conflict \in {"open", "staged", "gone"}
        BY <4>1, RebaseFields
      <4>3. r.todo # {} BY DEF GitInv, GitTidy
      <4> QED BY <2>1, <4>2, <4>3, Constants
    <3> QED BY <3>1, <3>2
  <2>6. tool.branch \subseteq Branches /\ tool.tweak \subseteq Works
    <3>1. tool \in Tools(history.used) BY GitFields
    <3> QED BY <3>1, ToolFields
  <2>7. \A b \in Branches : remote[b].patches \subseteq history.used \cup NoTip.patches
    <3> SUFFICES ASSUME NEW b \in Branches
                 PROVE remote[b].patches \subseteq history.used \cup NoTip.patches
      OBVIOUS
    <3>1. remote[b] \in SeenTips(history.used) \cup {NoTip} BY GitFields
    <3>2. CASE remote[b] = NoTip BY <3>2
    <3>3. CASE remote[b] \in SeenTips(history.used) BY <3>3, TipFields
    <3> QED BY <3>1, <3>2, <3>3
  <2> QED BY <2>2, <2>4, <2>5, <2>6, <2>7 DEF GitTypeOK
<1> QED BY <1>1, GitInvariant, PTL

(* Whoever pushes at whichever moment, and whatever failed before, a       *)
(* forced push (--force-with-lease, rebase.rs:307, fixup.rs:210)           *)
(* overwrites no commit that the clone had not fetched.                    *)
THEOREM GitOverwritesSeen == GitSpec => OverwritesSeen
<1>1. ASSUME GitInv, NEW b \in Branches, ForcePush(b)
      PROVE remote[b].patches \subseteq remote'[b].patches \cup tracking[b].patches
  <2>1. tool.step = "force" /\ tool.branch = {b} BY <1>1 DEF ForcePush
  <2>2. CASE remote[b] = tool.lease
    <3>1. Extends(tracking[b], tool.lease) /\ Extends(remote[b], tracking[b])
      BY <1>1, <2>1 DEF GitInv, Leased, Fetched
    <3>2. CASE tool.lease = NoTip BY <2>2, <3>1, <3>2 DEF Extends
    <3>3. CASE tool.lease # NoTip BY <2>2, <3>1, <3>3 DEF Extends
    <3> QED BY <3>2, <3>3
  <2>3. CASE remote[b] # tool.lease
    <3>1. remote' = remote BY <1>1, <2>3 DEF ForcePush, LeaseHolds
    <3> QED BY <3>1
  <2> QED BY <2>2, <2>3
<1>2. GitInv => [\A b \in Branches :
                    ForcePush(b) => remote[b].patches \subseteq
                                       remote'[b].patches \cup tracking[b].patches]_gitVars
  BY <1>1
<1> QED BY <1>2, GitInvariant, PTL DEF OverwritesSeen

(* What a rewriting tool publishes has all the patches it set out from     *)
(* (rebase.rs, fixup.rs), after conflicts, kills and timeouts too.         *)
THEOREM GitReplayIsWhole == GitSpec => ReplayIsWhole
<1>1. ASSUME GitInv, NEW b \in Branches, ForcePush(b), remote' # remote, ~history.stale
      PROVE history.seen \subseteq remote'[b].patches
  <2>1. /\ tool.step = "force" /\ tool.branch = {b}
        /\ remote' = [remote EXCEPT ![b] = local[b]]
    BY <1>1 DEF ForcePush
  <2>2. history.seen \subseteq local[b].patches BY <1>1, <2>1 DEF GitInv, Whole
  <2>3. remote'[b] = local[b] BY <1>1, <2>1, GitFields
  <2> QED BY <2>2, <2>3
<1>2. GitInv => [\A b \in Branches :
                    ForcePush(b) /\ remote' # remote /\ ~history.stale
                       => history.seen \subseteq remote'[b].patches]_gitVars
  BY <1>1
<1> QED BY <1>2, GitInvariant, PTL DEF ReplayIsWhole

(* A fixup that is rolled back (restore, fixup.rs:232) leaves HEAD, its    *)
(* branch and the staged tweak as they were, if nothing of the rollback    *)
(* failed and no other rebase was in progress.                             *)
THEOREM GitFixupUndone == GitSpec => FixupUndone
<1>1. ASSUME GitInv, UndoSoft, history.restored PROVE head' = history.before
  <2>1. tool.step = "undo soft" BY <1>1 DEF UndoSoft
  <2>2. Tweaked(tool.tip) /\ head.on = tool.branch /\ head.at = tool.tip
    BY <1>1, <2>1 DEF GitInv, Fixes, RollsBack
  <2>3. MoveHead([head.at EXCEPT !.patches = @ \ tool.tweak], tool.tweak)
    BY <1>1, <2>2 DEF UndoSoft, Parent
  <2>4. [head.at EXCEPT !.patches = @ \ tool.tweak] = history.before.at
    BY <1>1, <2>2, TweakedTip
  <2>5. head' = [head EXCEPT !.at = history.before.at, !.staged = tool.tweak]
    BY <2>3, <2>4 DEF MoveHead
  <2>6. history.before.on = head.on /\ history.before.staged = tool.tweak
    BY <2>2 DEF Tweaked
  <2>7. head \in Heads(history.used) /\ history.before \in Heads(history.used)
    BY <1>1, GitFields, NoteFields
  <2> QED BY <2>5, <2>6, <2>7 DEF Heads
<1>2. GitInv => [UndoSoft /\ history.restored => head' = history.before]_gitVars BY <1>1
<1> QED BY <1>2, GitInvariant, PTL DEF FixupUndone
==============================================================================
