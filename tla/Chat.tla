-------------------------------- MODULE Chat --------------------------------
(***************************************************************************)
(* The two channels a person talks through: the Unix socket with its kchat *)
(* clients (src/channel/socket.rs, src/bin/kchat.rs), one served at a time,*)
(* and the Telegram long poll (src/channel/telegram.rs), one message at a  *)
(* time; both wait for the one agent (src/agent/handle.rs), which takes    *)
(* its inbox in order.  Activity frames and /verbose, which switches       *)
(* them, change nothing here but who writes the answer.                    *)
(***************************************************************************)
EXTENDS Integers, Sequences

CONSTANTS Clients,      \* connections to the socket
          Telegram, Nobody,
          SendRetries,  \* SEND_RETRIES
          MaxLines,     \* bound: lines of one client
          MaxUpdates,   \* bound: updates at Telegram
          MaxKills      \* bound: crashes of the daemon

ASSUME ChatAssumption == Telegram \notin Clients

VARIABLES
    client,   \* per connection: kchat's side
    backlog,  \* connected, not accepted: the listening socket's queue
    server,   \* listen and serve
    inbox,  \* the agent's envelopes, the first being worked on
    service,  \* Telegram: how many updates there are (ids 1, 2, ..), and the
              \* last one it forgot
    poller,   \* poll_loop
    kills

chatVars == <<client, backlog, server, inbox, service, poller, kills>>
telegramVars == <<service, poller>>
socketVars == <<client, backlog, server>>

\* `allowed`: the peer's uid is in allowed_uids, known when it connects.
\* A line arrives in two parts, its head and its tail: `unread` is what was
\* written and not read, `rest` says that the tail is still to come, `asked`
\* that the answer is.
Out == [state |-> "out", allowed |-> FALSE, lines |-> 0, asked |-> FALSE,
        unread |-> {}, rest |-> FALSE]
\* `part`: the pending read_line holds the first part of a line.
Listening == [pc |-> "listen", serves |-> Nobody, part |-> FALSE]
Polling == [offset |-> 0, batch |-> <<>>, pc |-> "next", attempts |-> 0]

ChatInit ==
    /\ client = [c \in Clients |-> Out]
    /\ backlog = <<>>
    /\ server = Listening
    /\ inbox = <<>>
    /\ service = [updates |-> 0, forgotten |-> 0]
    /\ poller = Polling
    /\ kills = 0

Send(from, id) == inbox' = Append(inbox, [from |-> from, id |-> id])
Awaits(from) == \E i \in DOMAIN inbox : inbox[i].from = from

(* The actor is done with an envelope: a greeting, a command, a turn that  *)
(* ended, failed or was cancelled.                                         *)
AgentReplies ==
    /\ inbox # <<>>
    /\ inbox' = Tail(inbox)
    /\ UNCHANGED <<socketVars, telegramVars, kills>>

-----------------------------------------------------------------------------
(* kchat *)

Connect(c) ==
    /\ client[c].state = "out"
    /\ \E allowed \in BOOLEAN :
          client' = [client EXCEPT ![c].state = "queued", ![c].allowed = allowed]
    /\ backlog' = Append(backlog, c)
    /\ UNCHANGED <<server, inbox, telegramVars, kills>>

(* exchange: after the greeting, and after the answer to the line before;  *)
(* a long line is not written at once.                                     *)
WriteLine(c) ==
    /\ client[c].state = "greeted" /\ ~client[c].asked
    /\ client[c].lines < MaxLines
    /\ \E whole \in BOOLEAN :
          client' = [client EXCEPT
                        ![c].asked = TRUE, ![c].lines = @ + 1, ![c].rest = ~whole,
                        ![c].unread = IF whole THEN {"head", "tail"} ELSE {"head"}]
    /\ UNCHANGED <<backlog, server, inbox, telegramVars, kills>>

WriteRest(c) ==
    /\ client[c].state = "greeted" /\ client[c].rest
    /\ client' = [client EXCEPT ![c].unread = @ \cup {"tail"}, ![c].rest = FALSE]
    /\ UNCHANGED <<backlog, server, inbox, telegramVars, kills>>

(* End of input, /exit, the end of a one-shot call, an interrupt.          *)
Leave(c) ==
    /\ client[c].state \in {"queued", "greeted"}
    /\ client' = [client EXCEPT ![c].state = "closed"]
    /\ UNCHANGED <<backlog, server, inbox, telegramVars, kills>>

-----------------------------------------------------------------------------
(* The socket *)

Here == server.serves
Gone == client[Here].state = "closed"
Frame(c) == client' = [client EXCEPT ![c].asked = FALSE, ![c].unread = {}]
Rejected == client' = [client EXCEPT ![Head(backlog)].state = "closed"]

(* accept, the peer's uid, the request for a greeting.                     *)
Accept ==
    /\ server.pc = "listen" /\ backlog # <<>> /\ client[Head(backlog)].allowed
    /\ server' = [Listening EXCEPT !.pc = "greet", !.serves = Head(backlog)]
    /\ Send(Head(backlog), 0)
    /\ backlog' = Tail(backlog)
    /\ UNCHANGED <<client, telegramVars, kills>>

RejectStranger ==
    /\ server.pc = "listen" /\ backlog # <<>> /\ ~client[Head(backlog)].allowed
    /\ Rejected
    /\ backlog' = Tail(backlog)
    /\ UNCHANGED <<server, inbox, telegramVars, kills>>

Greet ==
    /\ server.pc = "greet" /\ ~Awaits(Here)
    /\ IF Gone THEN server' = Listening /\ UNCHANGED client
       ELSE /\ server' = [server EXCEPT !.pc = "read"]
            /\ client' = [client EXCEPT ![Here].state = "greeted"]
    /\ UNCHANGED <<backlog, inbox, telegramVars, kills>>

(* The other branch of the select; it drops read_line, and with it the     *)
(* part of a line that was read.                                           *)
RejectOther ==
    /\ server.pc = "read" /\ backlog # <<>>
    /\ Rejected
    /\ backlog' = Tail(backlog)
    /\ server' = [server EXCEPT !.part = FALSE]
    /\ UNCHANGED <<inbox, telegramVars, kills>>

ReadPart ==
    /\ server.pc = "read" /\ client[Here].unread = {"head"}
    /\ client' = [client EXCEPT ![Here].unread = {}]
    /\ server' = [server EXCEPT !.part = TRUE]
    /\ UNCHANGED <<backlog, inbox, telegramVars, kills>>

(* A line ends with its tail, or where a client that is gone stopped; one  *)
(* that lacks a part is no JSON, which parse_line answers itself; so it     *)
(* does /verbose, which a whole line may be.  An answer to a client that is gone is dropped.          *)
ReadLine ==
    /\ server.pc = "read"
    /\ LET unread == client[Here].unread
           whole == (server.part \/ "head" \in unread) /\ "tail" \in unread
       IN  /\ "tail" \in unread \/ (Gone /\ (unread # {} \/ server.part))
           /\ \/ /\ whole
                 /\ server' = [server EXCEPT !.pc = "dispatch", !.part = FALSE]
                 /\ Send(Here, 0)
                 /\ client' = [client EXCEPT ![Here].unread = {}]
              \/ /\ server' = [server EXCEPT !.part = FALSE]
                 /\ Frame(Here)
                 /\ UNCHANGED inbox
    /\ UNCHANGED <<backlog, telegramVars, kills>>

ReadEof ==
    /\ server.pc = "read" /\ Gone /\ client[Here].unread = {} /\ ~server.part
    /\ server' = Listening
    /\ UNCHANGED <<client, backlog, inbox, telegramVars, kills>>

Respond ==
    /\ server.pc = "dispatch" /\ ~Awaits(Here)
    /\ Frame(Here)
    /\ server' = [server EXCEPT !.pc = "read"]
    /\ UNCHANGED <<backlog, inbox, telegramVars, kills>>

(* EOF on the monitored reader: the token is cancelled, and the server     *)
(* waits for the turn to end before it listens again.                      *)
\* Mutant: the next client is served at once.
CancelAndLeave ==
    /\ server.pc = "dispatch" /\ Gone
    /\ server' = Listening
    /\ UNCHANGED <<client, backlog, inbox, telegramVars, kills>>

Cancel ==
    /\ server.pc = "dispatch" /\ Gone
    /\ server' = [server EXCEPT !.pc = "cancelled"]
    /\ UNCHANGED <<client, backlog, inbox, telegramVars, kills>>

\* Mutant: the select goes on; its reader is asked first, and always ready.
SpinOnEof == server.pc = "cancelled" /\ UNCHANGED chatVars

TurnCancelled ==
    /\ server.pc = "cancelled" /\ ~Awaits(Here)
    /\ server' = Listening
    /\ UNCHANGED <<client, backlog, inbox, telegramVars, kills>>

ServerStep ==
    \/ Accept \/ RejectStranger \/ Greet \/ RejectOther
    \/ ReadPart \/ ReadLine \/ ReadEof \/ Respond \/ Cancel \/ TurnCancelled

-----------------------------------------------------------------------------
(* Telegram *)

Arrive ==
    /\ service.updates < MaxUpdates
    /\ service' = [service EXCEPT !.updates = @ + 1]
    /\ UNCHANGED <<poller, inbox, socketVars, kills>>

(* getUpdates(offset): Telegram forgets what is below the offset, whether  *)
(* or not its answer arrives; an error leaves the offset.                  *)
Poll ==
    /\ poller.pc = "next" /\ poller.batch = <<>>
    /\ LET forgotten == IF poller.offset - 1 > service.forgotten THEN poller.offset - 1
                        ELSE service.forgotten
           news == [i \in 1..(service.updates - forgotten) |-> forgotten + i]
       IN  /\ service' = [service EXCEPT !.forgotten = forgotten]
           /\ \E answer \in {news, <<>>} : poller' = [poller EXCEPT !.batch = answer]
    /\ UNCHANGED <<inbox, socketVars, kills>>

(* One round of the loop over the batch.                                   *)
Take(pc) == poller' = [poller EXCEPT !.offset = Head(poller.batch) + 1,
                                     !.batch = Tail(@), !.pc = pc]
\* Mutant: the message is handed to a task of its own.
TakeAndGoOn ==
    /\ poller.pc = "next" /\ poller.batch # <<>>
    /\ Take("next")
    /\ Send(Telegram, Head(poller.batch))
    /\ UNCHANGED <<service, socketVars, kills>>

(* What it is shows now: a message for the agent; /verbose, answered here; *)
(* another chat's, one without text or no message, skipped.                *)
TakeUpdate ==
    /\ poller.pc = "next" /\ poller.batch # <<>>
    /\ \/ Take("dispatch") /\ Send(Telegram, Head(poller.batch))
       \/ Take("reply") /\ UNCHANGED inbox
       \/ Take("next") /\ UNCHANGED inbox
    /\ UNCHANGED <<service, socketVars, kills>>

TurnEnded ==
    /\ poller.pc = "dispatch" /\ ~Awaits(Telegram)
    /\ poller' = [poller EXCEPT !.pc = "reply"]
    /\ UNCHANGED <<service, inbox, socketVars, kills>>

(* send_raw: done, or refused for good, or tried again some times.         *)
SendReply ==
    /\ poller.pc = "reply"
    /\ \/ poller' = [poller EXCEPT !.pc = "next", !.attempts = 0]
       \/ /\ poller.attempts < SendRetries
          /\ poller' = [poller EXCEPT !.attempts = @ + 1]
    /\ UNCHANGED <<service, inbox, socketVars, kills>>

PollerStep == Poll \/ TakeUpdate \/ TurnEnded \/ SendReply

-----------------------------------------------------------------------------
(* The daemon dies and is started again: the offset was never stored.      *)
KillDaemon ==
    /\ kills < MaxKills
    /\ kills' = kills + 1
    /\ client' = [c \in Clients |->
                     IF client[c].state = "out" THEN Out ELSE [client[c] EXCEPT !.state = "closed"]]
    /\ backlog' = <<>> /\ server' = Listening
    /\ inbox' = <<>>
    /\ poller' = Polling
    /\ UNCHANGED service

ChatNext ==
    \/ AgentReplies
    \/ \E c \in Clients : Connect(c) \/ WriteLine(c) \/ WriteRest(c) \/ Leave(c)
    \/ ServerStep
    \/ Arrive \/ PollerStep
    \/ KillDaemon

ChatSpec == ChatInit /\ [][ChatNext]_chatVars

-----------------------------------------------------------------------------
(* What is said to the agent has somebody who waits for its end: a client's *)
(* line or the turn of one that left, before the next client is greeted,   *)
(* and an update, which Telegram keeps until its turn is over, so that a   *)
(* crash loses none.  So a person who reconnects never has two turns.      *)
Accompanied ==
    \A i \in DOMAIN inbox :
       LET from == inbox[i].from
           id == inbox[i].id
       IN  /\ from = Telegram => /\ poller.pc = "dispatch" /\ poller.offset = id + 1
                                 /\ service.forgotten < id
           /\ from # Telegram => /\ server.pc \in {"greet", "dispatch", "cancelled"}
                                 /\ server.serves = from
           /\ \A k \in DOMAIN inbox : inbox[k].from = from => k = i

(* Whoever connects is greeted or turned away, whatever the client that is *)
(* served does, and every line of a client that stays is answered.         *)
Waits(c) == \/ client[c].state = "queued"
            \/ client[c].asked /\ client[c].state # "closed"
Answered == \A c \in Clients : Waits(c) ~> ~Waits(c)
=============================================================================
