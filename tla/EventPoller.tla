----------------------------- MODULE EventPoller -----------------------------
(***************************************************************************)
(* The ticket pollers: GitHub issues (src/channel/github/issues.rs) and    *)
(* Linear (src/channel/linear.rs).                                         *)
(*                                                                         *)
(* A tick fetches, decides with a pure function over what was fetched, runs*)
(* the turns it decided on one by one, posts each reply as a comment and   *)
(* stores the poll state once, at its end.  The issue poller fetches with  *)
(* four searches, each followed by one call per ticket for its comments;   *)
(* the Linear poller with one query that returns tickets and comments.     *)
(*                                                                         *)
(* The cursor lastPoll is the time at which the tick DECIDES, after all of *)
(* its fetches.  announced holds tickets whose announcement turn ran,      *)
(* plans those whose plan comment the poller knows, embedded the tickets   *)
(* whose discussion was handed to the agent as a whole.                    *)
(*                                                                         *)
(* Abstracted: only comments worth a turn exist (of a trusted person, not  *)
(* the bot's); the bot's own replies only touch updated_at; every Linear   *)
(* ticket has one repository label and every GitHub one is in a configured *)
(* repository; a ticket that the bot did not file mentions it; a thread is *)
(* shorter than the 100 comments that one call returns; the clock          *)
(* counts whole seconds, as now_iso8601 does; a prepared checkout and a    *)
(* failed one differ only in the note of the message.                      *)
(***************************************************************************)
EXTENDS Naturals, FiniteSets

CONSTANTS
    Tickets,      \* issues
    Comments,     \* comments people may write, numbered as they are written
    PostRetries,  \* POST_RETRIES
    MaxClock,     \* seconds the model runs for
    MaxEvents,    \* assignments, unassignments and closings together
    MaxFaults     \* failing calls, failing writes and kills together

ASSUME EventPollerAssumption ==
    /\ Comments \subseteq Nat
    /\ MaxClock \in Nat \ {0}
    /\ {PostRetries, MaxEvents, MaxFaults} \subseteq Nat

VARIABLES
    source,    \* which of the two pollers this is
    clock,     \* the second it is
    tickets,   \* the tickets as their tracker has them
    comments,  \* for each comment its ticket and the second it was written
    state,     \* the poll state in memory
    disk,      \* the document: at most one poll state
    poll,      \* where the tick is
    history    \* what the properties remember: the comments handed to turns
               \* and those excused, the seconds a fetch may have missed, what
               \* is done for all this process knows, and as the document has it

vars == <<source, clock, tickets, comments, state, disk, poll, history>>

Unseen == 0   \* a time that has not come

PollState ==
    [lastPoll : 1 .. MaxClock, announced : SUBSET Tickets,
     plans : SUBSET Tickets, embedded : SUBSET Tickets]

\* ViewMode: found as work, or for discussion of an open or a closed ticket.
Modes == {"work", "open", "closed"}

Views == [ticket : Tickets, mode : Modes, planned : BOOLEAN,
          comments : SUBSET Comments]

\* whole: the turn carries all comments read, not one new comment.
Jobs == [ticket : Tickets, mode : Modes, comments : SUBSET Comments,
         kind : {"plan", "execution", "discussion"}, whole : BOOLEAN]

\* PollState::starting_now.
StartingNow(now) ==
    [lastPoll |-> now, announced |-> {}, plans |-> {}, embedded |-> {}]

\* What turns ran for: tickets announced as work, comments handed over.
NothingDone == [work |-> {}, said |-> {}]

Idle ==
    [stage |-> "idle", search |-> 1, start |-> Unseen, todo |-> {},
     views |-> {}, jobs |-> {}, next |-> {}, turn |-> {}, attempts |-> 0]

Init ==
    /\ source \in {"issues", "linear"}
    /\ clock = 1
    /\ tickets \in [Tickets -> [authored : BOOLEAN, assigned : BOOLEAN,
                                open : {TRUE}, planned : BOOLEAN, updated : {1}]]
    /\ source = "linear" => \A k \in Tickets : ~tickets[k].authored
    /\ comments \in [Comments -> [ticket : Tickets, at : {Unseen}]]
    /\ state = StartingNow(1)
    /\ disk \in {{}, {state}}
    /\ poll = Idle
    /\ history = [handled |-> {}, inScope |-> {},
                  excused |-> {}, gaps |-> {1},
                  done |-> NothingDone, saved |-> NothingDone,
                  events |-> 0, faults |-> 0]

Visible(k) == {c \in Comments : comments[c].ticket = k /\ comments[c].at # Unseen}

Fault == history.faults < MaxFaults

-----------------------------------------------------------------------------
(* People.                                                                 *)

PollerSame == UNCHANGED <<source, state, disk, poll>>

SecondPasses ==
    /\ clock < MaxClock
    /\ clock' = clock + 1
    /\ UNCHANGED <<tickets, comments, history>>
    /\ PollerSame

WriteComment(c) ==
    /\ comments[c].at = Unseen
    /\ \A d \in Comments : d < c => comments[d].at # Unseen
    /\ comments' = [comments EXCEPT ![c].at = clock]
    /\ tickets' = [tickets EXCEPT ![comments[c].ticket].updated = clock]
    /\ UNCHANGED <<clock, history>>
    /\ PollerSame

Edit(k, ticket) ==
    /\ history.events < MaxEvents
    /\ tickets' = [tickets EXCEPT ![k] = ticket]
    /\ history' = [history EXCEPT !.events = @ + 1]
    /\ UNCHANGED <<clock, comments>>
    /\ PollerSame

Reassign(k) ==
    Edit(k, [tickets[k] EXCEPT !.assigned = ~@, !.updated = clock])

Close(k) ==
    /\ tickets[k].open
    /\ Edit(k, [tickets[k] EXCEPT !.open = FALSE, !.updated = clock])

People ==
    \/ SecondPasses
    \/ \E c \in Comments : WriteComment(c)
    \/ \E k \in Tickets : Reassign(k) \/ Close(k)

-----------------------------------------------------------------------------
(* The searches and the decision.                                          *)

TrackerSame == UNCHANGED <<source, clock, tickets, comments>>

\* save_json: a failed write is logged and the poller goes on.
Save(s, h) ==
    \/ disk' = {s} /\ history' = [h EXCEPT !.saved = h.done]
    \/ Fault /\ disk' = disk /\ history' = [h EXCEPT !.faults = @ + 1]

ModeOf(n) == <<"work", "open", "closed", "open">>[n]

\* The tickets the n-th search is about, whenever they last changed.
Role(n) ==
    LET open == {k \in Tickets : tickets[k].open}
        assigned == {k \in Tickets : tickets[k].assigned}
        authored == {k \in Tickets : tickets[k].authored}
    IN  CASE n = 1 -> open \cap assigned
          [] n = 2 -> (open \cap authored) \ assigned
          [] n = 3 -> authored \ open
          [] n = 4 -> open \ (assigned \cup authored)

Changed(k) == tickets[k].updated > state.lastPoll

\* The n-th search of fetch_views: all but the first are bounded by the
\* cursor, and a ticket keeps the view of the first search that found it.
Found(n) ==
    {k \in Role(n) : n = 1 \/ Changed(k)} \ {v.ticket : v \in poll.views}

\* Mutant: comments are read for an announcement only.
WantsCommentsOnce(k, mode) == mode = "work" => k \notin state.announced

\* wants_comments
WantsComments(k, mode) ==
    Changed(k) \/ (mode = "work" /\ k \notin state.announced)

View(k, mode, cs) ==
    [ticket |-> k, mode |-> mode, planned |-> tickets[k].planned, comments |-> cs]

\* new_trusted_comments
NewComments(v) == {c \in v.comments : comments[c].at > state.lastPoll}

Job(v, cs, kind, whole) ==
    [ticket |-> v.ticket, mode |-> v.mode, comments |-> cs, kind |-> kind, whole |-> whole]

\* The turn that carries all comments read: it announces work, or opens a discussion.
Announcement(v) == Job(v, v.comments, IF v.planned THEN "plan" ELSE "execution", TRUE)
Discussion(v) == Job(v, v.comments, "discussion", TRUE)

Announces(job) == job.mode = "work" /\ job.whole

\* One turn for each new comment.
FollowUps(v, kind) == {Job(v, {c}, kind, FALSE) : c \in NewComments(v)}

\* The turns that one view deserves (decide_events).
Turns(v) ==
    CASE v.mode = "work" /\ v.ticket \notin state.announced -> {Announcement(v)}
      [] v.mode = "work" /\ v.ticket \in state.announced -> FollowUps(v, "execution")
      [] v.mode # "work" /\ NewComments(v) = {} -> {}
      [] v.mode # "work" /\ NewComments(v) # {} ->
            IF v.ticket \in state.embedded THEN FollowUps(v, "discussion") ELSE {Discussion(v)}

WorkTickets(views) == {v.ticket : v \in {w \in views : w.mode = "work"}}

\* Mutant: only tickets that were announced before stay announced.
NextStateNoneNew(views) ==
    [lastPoll |-> clock,
     announced |-> WorkTickets(views) \cap state.announced,
     plans |-> state.plans \cap WorkTickets(views),
     embedded |-> {v.ticket : v \in {w \in views :
                     w.mode # "work" /\ (NewComments(w) # {}
                                         \/ w.ticket \in state.embedded)}}]

\* The state after the tick (decide_events): all three sets are rebuilt from
\* what was fetched, and the cursor is the time of the decision.
NextState(views) ==
    [lastPoll |-> clock,
     announced |-> WorkTickets(views),
     plans |-> state.plans \cap WorkTickets(views),
     embedded |-> {v.ticket : v \in {w \in views :
                     w.mode # "work" /\ (NewComments(w) # {}
                                         \/ w.ticket \in state.embedded)}}]

-----------------------------------------------------------------------------
(* The poller.                                                             *)

\* Without a document, and with one that cannot be read or parsed, the poller
\* starts from now and replays nothing (load_json).
Boot ==
    /\ poll.stage = "down"
    /\ \E s \in disk \cup {StartingNow(clock)} :
          /\ state' = s
          /\ history' = IF s \in disk THEN history
                        ELSE [history EXCEPT !.gaps = 1 .. clock, !.done.work = {}]
    /\ poll' = Idle
    /\ UNCHANGED disk
    /\ TrackerSame

StartTick ==
    /\ poll.stage = "idle"
    /\ poll' = [Idle EXCEPT !.stage = "search", !.start = clock]
    /\ history' = [history EXCEPT !.inScope = {}]
    /\ UNCHANGED <<state, disk>>
    /\ TrackerSame

\* One search of the issue poller.  Tickets that have nothing to read are
\* viewed at once.
Search ==
    /\ poll.stage = "search" /\ source = "issues"
    /\ LET mode == ModeOf(poll.search)
           found == Found(poll.search)
           read == {k \in found : WantsComments(k, mode)}
       IN  poll' = [poll EXCEPT
                      !.stage = "read",
                      !.todo = {View(k, mode, {}) : k \in read},
                      !.views = @ \cup {View(k, mode, {}) : k \in found \ read}]
    /\ history' = [history EXCEPT !.inScope = @ \cup Role(poll.search)]
    /\ UNCHANGED <<state, disk>>
    /\ TrackerSame

ReadComments(v) ==
    /\ poll.stage = "read" /\ v \in poll.todo
    /\ poll' = [poll EXCEPT
                 !.todo = @ \ {v},
                 !.views = @ \cup {[v EXCEPT !.comments = Visible(v.ticket)]}]
    /\ UNCHANGED <<state, disk, history>>
    /\ TrackerSame

NextSearch ==
    /\ poll.stage = "read" /\ poll.todo = {} /\ poll.search < 4
    /\ poll' = [poll EXCEPT !.stage = "search", !.search = @ + 1]
    /\ UNCHANGED <<state, disk, history>>
    /\ TrackerSame

\* The one query of the Linear poller.
FetchAssigned ==
    /\ poll.stage = "search" /\ source = "linear"
    /\ poll' = [poll EXCEPT
                 !.stage = "read", !.search = 4,
                 !.views = {View(k, "work", Visible(k)) : k \in Role(1)}]
    /\ history' = [history EXCEPT !.inScope = Role(1)]
    /\ UNCHANGED <<state, disk>>
    /\ TrackerSame

\* A failing call ends the tick: cursor and sets stay.
FetchFails ==
    /\ poll.stage = "search" \/ (poll.stage = "read" /\ poll.todo # {})
    /\ Fault
    /\ poll' = Idle
    /\ history' = [history EXCEPT !.faults = @ + 1]
    /\ UNCHANGED <<state, disk>>
    /\ TrackerSame

\* Everything was fetched: the time is taken, the turns and the state that
\* will follow them are decided.
Decide ==
    /\ poll.stage = "read" /\ poll.todo = {} /\ poll.search = 4
    /\ poll' = [poll EXCEPT !.stage = "dispatch", !.views = {},
                            !.jobs = UNION {Turns(v) : v \in poll.views},
                            !.next = {NextState(poll.views)}]
    /\ UNCHANGED <<state, disk, history>>
    /\ TrackerSame

\* Work goes before discussion, and a ticket's comments in their order.
First(job) ==
    \A other \in poll.jobs \ {job} :
        /\ job.mode # "work" => other.mode # "work"
        /\ other.ticket = job.ticket =>
              \A c \in job.comments, d \in other.comments :
                 comments[c].at <= comments[d].at

Dispatch(job) ==
    /\ poll.stage = "dispatch" /\ job \in poll.jobs
    /\ First(job)
    /\ poll' = [poll EXCEPT !.stage = "turn", !.jobs = @ \ {job}, !.turn = {job}]
    /\ history' = [history EXCEPT
                     !.handled = @ \cup job.comments,
                     !.done.work = @ \cup {k \in {job.ticket} : Announces(job)},
                     !.done.said = @ \cup job.comments]
    /\ UNCHANGED <<state, disk>>
    /\ TrackerSame

\* The turn answers or fails: either text becomes the comment.
TurnReturns ==
    /\ poll.stage = "turn"
    /\ poll' = [poll EXCEPT !.stage = "post", !.attempts = 0]
    /\ UNCHANGED <<state, disk, history>>
    /\ TrackerSame

Posted == [poll EXCEPT !.stage = "dispatch", !.turn = {}, !.attempts = 0]

\* The reply is on the ticket; that of a plan turn is the plan.
Post ==
    /\ poll.stage = "post"
    /\ \E job \in poll.turn :
        /\ tickets' = [tickets EXCEPT ![job.ticket].updated = clock]
        /\ poll' = [Posted EXCEPT
                      !.next = IF job.kind = "plan"
                               THEN {[s EXCEPT !.plans = @ \cup {job.ticket}] : s \in @}
                               ELSE @]
    /\ UNCHANGED <<source, clock, comments, state, disk, history>>

\* post_comment fails, although the comment may be there: it is tried again
\* if the failure may pass, and given up with nothing but a line in the log.
PostFails ==
    /\ poll.stage = "post"
    /\ Fault
    /\ \E landed, transient \in BOOLEAN :
        /\ tickets' = IF landed
                      THEN [k \in Tickets |->
                              IF \E job \in poll.turn : job.ticket = k
                              THEN [tickets[k] EXCEPT !.updated = clock]
                              ELSE tickets[k]]
                      ELSE tickets
        /\ poll' = IF transient /\ poll.attempts < PostRetries
                   THEN [poll EXCEPT !.attempts = @ + 1]
                   ELSE Posted
    /\ history' = [history EXCEPT !.faults = @ + 1]
    /\ UNCHANGED <<source, clock, comments, state, disk>>

\* Mutant: what could not be stored is forgotten.
EndTickIfStored ==
    /\ poll.stage = "dispatch" /\ poll.jobs = {}
    /\ poll' = Idle
    /\ \E next \in poll.next :
        /\ Save(next, [history EXCEPT !.done.work = @ \cap next.announced, !.inScope = {}])
        /\ state' = IF disk' = {next} THEN next ELSE state
    /\ TrackerSame

\* The one write of the tick.  Comments on tickets that no search was about
\* fall behind the cursor as well.
EndTick ==
    /\ poll.stage = "dispatch" /\ poll.jobs = {}
    /\ poll' = Idle
    /\ \E next \in poll.next :
        /\ state' = next
        /\ Save(next,
                [history EXCEPT
                   !.excused = @ \cup {c \in Comments :
                                         comments[c].ticket \notin history.inScope
                                         /\ comments[c].at \in 1 .. next.lastPoll},
                   !.gaps = @ \cup (poll.start .. next.lastPoll),
                   !.done.work = @ \cap next.announced,
                   !.inScope = {}])
    /\ TrackerSame

\* A kill, or the shutdown that drops the loop where it waits.
Kill ==
    /\ poll.stage # "down"
    /\ Fault
    /\ poll' = [Idle EXCEPT !.stage = "down"]
    /\ history' = [history EXCEPT !.inScope = {},
                                  !.done = history.saved,
                                  !.faults = @ + 1]
    /\ UNCHANGED <<state, disk>>
    /\ TrackerSame

Progress ==
    \/ Boot \/ StartTick \/ Search \/ FetchAssigned \/ NextSearch \/ Decide
    \/ TurnReturns \/ Post \/ EndTick
    \/ \E v \in poll.todo : ReadComments(v)
    \/ \E job \in poll.jobs : Dispatch(job)

Failures == FetchFails \/ PostFails \/ Kill

Next == People \/ Progress \/ Failures

Spec == Init /\ [][Next]_vars /\ WF_vars(Progress)

-----------------------------------------------------------------------------

\* Type invariant, with what decide_events promises of the next state: its
\* plans are those of announced tickets, and no ticket is both announced as
\* work and in discussion.
TypeOK ==
    /\ source \in {"issues", "linear"} /\ clock \in 1 .. MaxClock
    /\ tickets \in [Tickets -> [authored : BOOLEAN, assigned : BOOLEAN,
                                open : BOOLEAN, planned : BOOLEAN,
                                updated : 1 .. clock]]
    /\ comments \in [Comments -> [ticket : Tickets, at : 0 .. clock]]
    /\ state \in PollState
    /\ disk \subseteq PollState /\ Cardinality(disk) <= 1
    /\ poll.stage \in {"down", "idle", "search", "read", "dispatch", "turn", "post"}
    /\ poll.search \in 1 .. 4 /\ poll.start \in 0 .. clock
    /\ poll.todo \subseteq Views /\ poll.views \subseteq Views
    /\ poll.jobs \subseteq Jobs /\ poll.turn \subseteq Jobs
    /\ poll.next \subseteq PollState /\ poll.attempts \in 0 .. PostRetries
    /\ (poll.stage \in {"turn", "post"}) <=> (poll.turn # {})
    /\ \A s \in disk \cup poll.next \cup {state} :
          s.plans \subseteq s.announced /\ s.announced \cap s.embedded = {}

\* The cursor that the next tick will cut by.
Cursor ==
    IF poll.stage # "down" THEN state.lastPoll
    ELSE IF disk = {} THEN Unseen ELSE (CHOOSE s \in disk : TRUE).lastPoll

Behind(c) == comments[c].at \in 1 .. Cursor

\* A comment that fell behind the cursor was in a turn, unless no search of
\* the tick was about its ticket, or it was written between the start of a
\* tick and its decision: the fetch may have missed it and the cursor is later
\* (issues.rs:103 and linear.rs:140, now_iso8601 after the fetch); or the poller
\* had to start from now since (load_json).
NothingLost ==
    \A c \in Comments :
        Behind(c) => \/ c \in history.handled \cup history.excused
                     \/ comments[c].at \in history.gaps

\* No turn repeats what a turn was already run for, whatever call or write
\* failed and wherever the daemon was killed: none announces a ticket that was
\* announced and has been found as work ever since, and any other brings a
\* comment that no turn brought before.  Only a kill takes back what was done
\* since the last successful write, and a document that cannot be read at the
\* next start the announcements (post_comment, save_json, PollState).
NotAgain ==
    [][\A job \in poll.jobs :
          Dispatch(job) =>
            IF Announces(job) THEN job.ticket \notin history.done.work
            ELSE ~(job.comments \subseteq history.done.said)]_vars

\* A ticket that stays assigned is announced in the end, if failures end.
AnnouncedEventually ==
    \A k \in Tickets :
        (tickets[k].assigned /\ tickets[k].open)
            ~> (k \in state.announced \/ ~tickets[k].assigned \/ ~tickets[k].open)

=============================================================================
