------------------------------ MODULE PrPoller ------------------------------
(***************************************************************************)
(* The pull request poller (src/channel/github/prs.rs).                    *)
(*                                                                         *)
(* Every tick asks GitHub four questions in turn: feedback on the bot's    *)
(* own PRs, PRs whose review is requested from the bot, PRs it reviewed    *)
(* (tracked), and third-party PRs it commented on.  Each pass first reads  *)
(* every PR it found and then runs the turns it decided on, inline: a tick *)
(* can take hours, while people go on writing, pushing and closing.        *)
(*                                                                         *)
(* Two things are remembered across ticks and restarts.  The cursor        *)
(* lastPoll cuts comments by time: an item at or before it is taken for    *)
(* handled.  The map reviewed holds the last head dispatched for review,   *)
(* and inFlight the reviewer turn that runs, so that a kill in its middle  *)
(* can be undone.                                                          *)
(*                                                                         *)
(* Items are the comments of a conversation, the comments on a diff        *)
(* ("inline") and reviews.  On a PR that is tracked nobody looks at        *)
(* reviews: the tracked pass takes up comments only, and the contributed   *)
(* pass leaves tracked PRs to it.                                          *)
(*                                                                         *)
(* Abstracted: only items worth a turn exist here (of a trusted person,    *)
(* not the bot's, not a bodyless approval); the clock counts whole         *)
(* seconds, as now_iso8601 does, and GitHub's clock is the daemon's; heads *)
(* are numbers that grow; a closed PR stays closed; the bot has commented  *)
(* on every PR that is not its own, so the contributed search can find it. *)
(***************************************************************************)
EXTENDS Naturals, FiniteSets

CONSTANTS
    Prs,         \* pull requests
    Own,         \* those the bot opened
    Items,       \* comments and reviews people may write
    MaxClock,    \* seconds the model runs for
    MaxEvents,   \* pushes, review requests and closings together
    MaxFaults    \* failing calls, failing writes and kills together

ASSUME PrPollerAssumption ==
    /\ Own \subseteq Prs
    /\ MaxClock \in Nat \ {0}
    /\ {MaxEvents, MaxFaults} \subseteq Nat

VARIABLES
    clock,    \* the second it is
    github,   \* the PRs as GitHub has them
    items,    \* for each item: its PR and kind, when drafted, when published
    state,    \* the poll state in memory
    disk,     \* the github_poll document
    poll,     \* where the tick is
    history   \* what the properties remember

vars == <<clock, github, items, state, disk, poll, history>>

Unseen == 0   \* no SHA: a PR that is not tracked; a time that has not come

Passes == {"own", "requests", "tracked", "contributed"}

\* Why an item may fall behind the cursor without a turn.
Excuses == {"fetch", "prep", "closed", "moved", "tracked", "fresh start"}

ItemKinds == {"comment", "inline", "review"}

PollState ==
    [lastPoll : 1 .. MaxClock,
     reviewed : [Prs -> 0 .. MaxEvents + 1],
     inFlight : {{}} \cup {{f} : f \in [pr : Prs, prev : 0 .. MaxEvents + 1]}]

Jobs == [pr : Prs, head : 0 .. MaxEvents + 1, items : SUBSET Items]

NoLook == [pr |-> CHOOSE p \in Prs : TRUE, items |-> {}, head |-> Unseen]

Idle ==
    [stage |-> "idle", pass |-> "own", start |-> Unseen, todo |-> {},
     look |-> NoLook, jobs |-> {}, prunes |-> {}, turn |-> {}]

\* Fresh state, when there is no document: nothing is replayed or tracked.
StartingNow ==
    [lastPoll |-> clock, reviewed |-> [p \in Prs |-> Unseen], inFlight |-> {}]

Init ==
    /\ clock = 1
    /\ github = [head |-> [p \in Prs |-> 1], open |-> Prs, requested |-> {},
                 events |-> 0]
    /\ items \in [Items -> [pr : Prs, kind : ItemKinds,
                          drafted : {Unseen}, published : {Unseen}]]
    /\ state = StartingNow
    /\ disk = state
    /\ poll = Idle
    /\ history = [handled |-> {}, excused |-> {}, excusing |-> {},
                  starts |-> {1}, asked |-> {}, forgotten |-> {},
                  returned |-> {}, faults |-> 0]

\* Published and visible to whoever reads the PR now.
Visible(p) == {i \in Items : items[i].pr = p /\ items[i].published # Unseen}

Tracked == {p \in Prs : state.reviewed[p] # Unseen}

Fault == history.faults < MaxFaults

-----------------------------------------------------------------------------
(* People.                                                                 *)

Outside == UNCHANGED <<state, disk, poll, history>>

SecondPasses ==
    /\ clock < MaxClock
    /\ clock' = clock + 1
    /\ UNCHANGED <<github, items>>
    /\ Outside

\* A diff comment of a review that has not been submitted: nobody sees it,
\* yet GitHub stamps it now.
DraftItem(i) ==
    /\ items[i].kind = "inline"
    /\ items[i].drafted = Unseen
    /\ items' = [items EXCEPT ![i].drafted = clock]
    /\ UNCHANGED <<clock, github>>
    /\ Outside

\* A comment is written, or a review is submitted with its diff comments.
PublishItem(i) ==
    /\ items[i].published = Unseen
    /\ items[i].kind = "inline" => items[i].drafted # Unseen
    /\ items[i].pr \in github.open
    /\ items' = [items EXCEPT ![i].published = clock,
                              ![i].drafted = IF items[i].kind = "inline" THEN @ ELSE clock]
    /\ UNCHANGED <<clock, github>>
    /\ Outside

PushCommits(p) ==
    /\ p \in github.open \ Own
    /\ github.events < MaxEvents
    /\ github' = [github EXCEPT !.head[p] = @ + 1, !.events = @ + 1]
    /\ UNCHANGED <<clock, items>>
    /\ Outside

RequestReview(p) ==
    /\ p \in github.open \ Own
    /\ p \notin github.requested
    /\ github.events < MaxEvents
    /\ github' = [github EXCEPT !.requested = @ \cup {p}, !.events = @ + 1]
    /\ UNCHANGED <<clock, items>>
    /\ Outside

ClosePr(p) ==
    /\ p \in github.open
    /\ github.events < MaxEvents
    /\ github' = [github EXCEPT !.open = @ \ {p}, !.events = @ + 1]
    /\ UNCHANGED <<clock, items>>
    /\ Outside

People ==
    \/ SecondPasses
    \/ \E i \in Items : DraftItem(i) \/ PublishItem(i)
    \/ \E p \in Prs : PushCommits(p) \/ RequestReview(p) \/ ClosePr(p)

-----------------------------------------------------------------------------
(* Helpers of the passes.                                                  *)

\* save_state: a failed write is logged and the poller goes on.
Save(s, h) ==
    \/ disk' = s /\ history' = h
    \/ Fault /\ disk' = disk /\ history' = [h EXCEPT !.faults = @ + 1]

\* What the pass's search returns; the tracked pass has no search and goes
\* through the map.
Found(pass) ==
    CASE pass = "own" -> github.open \cap Own
      [] pass = "requests" -> github.open \cap github.requested
      [] pass = "tracked" -> Tracked
      [] pass = "contributed" ->
            github.open \ (Own \cup github.requested \cup Tracked)

\* diff_comment_at: a diff comment counts from the submission of its review
\* if the review was in what was read, and from its own stamp otherwise.
EffectiveTime(i, seen) ==
    IF items[i].kind = "inline" /\ i \notin seen THEN items[i].drafted
                                              ELSE items[i].published

\* What a pass takes up of a PR: reviews and conversation as they were read
\* first, diff comments as they are now.  The tracked pass takes no reviews.
Listed(pass, p, seen) ==
    {i \in Visible(p) : /\ items[i].kind = "inline" \/ i \in seen
                        /\ items[i].kind = "review" => pass # "tracked"}

\* Mutant: an item at the cursor counts as new.
FreshAtCursor(pass, p, seen) ==
    {i \in Listed(pass, p, seen) : EffectiveTime(i, seen) >= state.lastPoll}

\* The items a pass takes up: newer than the cursor.
Fresh(pass, p, seen) ==
    {i \in Listed(pass, p, seen) : EffectiveTime(i, seen) > state.lastPoll}

\* The turns that a PR deserves after it was read: at most one.
Decided(pass, look, fresh) ==
    LET job == [pr |-> look.pr, head |-> look.head, items |-> fresh]
        pushed == look.head # state.reviewed[look.pr]
    IN  CASE pass \in {"own", "contributed"} -> {job : i \in fresh}
          [] pass = "requests" ->
                IF look.pr \in Tracked THEN {} ELSE {job}
          [] pass = "tracked" ->
                IF pushed \/ fresh # {} THEN {job} ELSE {}

\* PR p is left out of this tick for the given reason.
Excuse(p, why) == history.excusing \cup (Visible(p) \X {why})

NextPass(pass) ==
    CASE pass = "own" -> "requests"
      [] pass = "requests" -> "tracked"
      [] pass = "tracked" -> "contributed"

-----------------------------------------------------------------------------
(* The poller.                                                             *)

GithubSame == UNCHANGED <<clock, github, items>>

\* Mutant: the mark is taken away and the head stays.
RolledBackMarkOnly(s) == [s EXCEPT !.inFlight = {}]

\* A turn that never returned is undone, so that the passes dispatch it again.
RolledBack(s) ==
    [s EXCEPT !.inFlight = {},
              !.reviewed = [p \in Prs |->
                 IF \E f \in s.inFlight : f.pr = p
                    THEN (CHOOSE f \in s.inFlight : f.pr = p).prev
                    ELSE s.reviewed[p]]]

\* Start of poll_loop.  If the document cannot be read or parsed, the poller
\* starts from now: the cursor is the clock and no PR is tracked.
Boot ==
    /\ poll.stage = "down"
    /\ \/ /\ state' = RolledBack(disk)
          /\ IF disk.inFlight = {} THEN UNCHANGED <<disk, history>>
                                   ELSE Save(state', history)
       \/ /\ state' = StartingNow
          /\ history' =
               [history EXCEPT
                  !.excused = @ \cup ((UNION {Visible(p) : p \in Prs}) \X {"fresh start"}),
                  !.starts = @ \cup {clock},
                  !.forgotten = {p \in Prs : disk.reviewed[p] # Unseen}]
          /\ UNCHANGED disk
    /\ poll' = Idle
    /\ GithubSame

\* tick_start is taken before anything is read.
StartTick ==
    /\ poll.stage = "idle"
    /\ poll' = [Idle EXCEPT !.stage = "search", !.start = clock]
    /\ UNCHANGED <<state, disk, history>>
    /\ GithubSame

\* A pass lists its PRs.
Search ==
    /\ poll.stage = "search"
    /\ poll' = [poll EXCEPT !.stage = "read", !.todo = Found(poll.pass)]
    /\ LET reviews == {i \in Items : items[i].kind = "review"}
           tracked == IF poll.pass = "contributed" THEN Tracked ELSE {}
           closed == {p \in Prs \ github.open :
                         poll.pass = IF p \in Own THEN "own" ELSE "contributed"}
           moved == IF poll.pass = "contributed"
                    THEN github.requested \ (history.asked \cup Tracked)
                    ELSE {}
       IN  history' =
             [history EXCEPT
                !.excusing = @ \cup ((UNION {Visible(p) : p \in closed}) \X {"closed"})
                               \cup ((UNION {Visible(p) : p \in moved}) \X {"moved"})
                               \cup ((UNION {Visible(p) \cap reviews : p \in tracked})
                                        \X {"tracked"}),
                !.asked = CASE poll.pass = "requests" -> github.requested
                            [] poll.pass = "contributed" -> {}
                            [] OTHER -> @]
    /\ UNCHANGED <<state, disk>>
    /\ GithubSame

\* What is remembered of a tick goes with it.
Forgotten == [history EXCEPT !.excusing = {}, !.asked = {}]

\* A failing search ends the tick: the cursor stays.
SearchFails ==
    /\ poll.stage = "search" /\ poll.pass # "tracked"
    /\ Fault
    /\ poll' = Idle
    /\ history' = [Forgotten EXCEPT !.faults = @ + 1]
    /\ UNCHANGED <<state, disk>>
    /\ GithubSame

\* The head, state, comments and reviews of one PR.  Passes that want diff
\* comments read them by a later call; a closed tracked PR is pruned.
ReadPr(p) ==
    /\ poll.stage = "read" /\ p \in poll.todo
    /\ LET look == [pr |-> p, head |-> github.head[p], items |-> Visible(p)]
           rest == [poll EXCEPT !.todo = @ \ {p}]
       IN  poll' =
             IF poll.pass = "requests"
             THEN [rest EXCEPT !.jobs = @ \cup Decided("requests", look, {})]
             ELSE IF poll.pass = "tracked" /\ p \notin github.open
             THEN [rest EXCEPT !.prunes = @ \cup {p}]
             ELSE [rest EXCEPT !.stage = "read diff", !.look = look]
    /\ UNCHANGED <<state, disk, history>>
    /\ GithubSame

\* The diff comments, dated by the reviews read before; the PR is decided on.
ReadDiffComments ==
    /\ poll.stage = "read diff"
    /\ poll' = [poll EXCEPT
                 !.stage = "read", !.look = NoLook,
                 !.jobs = @ \cup Decided(poll.pass, poll.look,
                                         Fresh(poll.pass, poll.look.pr, poll.look.items))]
    /\ UNCHANGED <<state, disk, history>>
    /\ GithubSame

\* A failing fetch leaves the PR out of this tick, and only that.
ReadFails(p) ==
    /\ \/ poll.stage = "read" /\ p \in poll.todo
       \/ poll.stage = "read diff" /\ p = poll.look.pr
    /\ Fault
    /\ poll' = [poll EXCEPT !.stage = "read", !.look = NoLook, !.todo = @ \ {p}]
    /\ history' = [history EXCEPT !.excusing = Excuse(p, "fetch"),
                                  !.faults = @ + 1]
    /\ UNCHANGED <<state, disk>>
    /\ GithubSame

\* Every PR was read: what closed is pruned, then the turns begin.
EndRead ==
    /\ poll.stage = "read" /\ poll.todo = {}
    /\ poll' = [poll EXCEPT !.stage = "dispatch", !.prunes = {}]
    /\ state' = [state EXCEPT !.reviewed =
                   [p \in Prs |-> IF p \in poll.prunes THEN Unseen ELSE @[p]]]
    /\ IF poll.prunes = {} THEN UNCHANGED <<disk, history>>
                           ELSE Save(state', history)
    /\ GithubSame

\* Mutant: the head is recorded before the checkout is prepared.
PrepFailsRecorded(job) ==
    /\ poll.stage = "dispatch" /\ job \in poll.jobs
    /\ poll.pass \in {"requests", "tracked"}
    /\ Fault
    /\ poll' = [poll EXCEPT !.jobs = @ \ {job}]
    /\ history' = [history EXCEPT !.excusing = Excuse(job.pr, "prep"),
                                  !.faults = @ + 1]
    /\ state' = [state EXCEPT !.reviewed[job.pr] = job.head]
    /\ disk' = state'
    /\ GithubSame

\* The checkout of a reviewer turn cannot be prepared: nothing is recorded.
PrepFails(job) ==
    /\ poll.stage = "dispatch" /\ job \in poll.jobs
    /\ poll.pass \in {"requests", "tracked"}
    /\ Fault
    /\ poll' = [poll EXCEPT !.jobs = @ \ {job}]
    /\ history' = [history EXCEPT !.excusing = Excuse(job.pr, "prep"),
                                  !.faults = @ + 1]
    /\ UNCHANGED <<state, disk>>
    /\ GithubSame

\* A turn begins.  A reviewer turn is recorded, with the head it replaces,
\* before it runs.
Dispatch(job) ==
    /\ poll.stage = "dispatch" /\ job \in poll.jobs
    /\ poll' = [poll EXCEPT !.stage = "turn", !.jobs = @ \ {job}, !.turn = {job}]
    /\ LET h == [history EXCEPT !.handled = @ \cup job.items]
       IN  IF poll.pass \in {"requests", "tracked"}
           THEN /\ state' =
                     [state EXCEPT
                        !.reviewed[job.pr] = job.head,
                        !.inFlight = {[pr |-> job.pr,
                                       prev |-> state.reviewed[job.pr]]}]
                /\ Save(state', [h EXCEPT !.forgotten = @ \ {job.pr}])
           ELSE /\ history' = h
                /\ UNCHANGED <<state, disk>>
    /\ GithubSame

\* The turn answers or fails, which is the same to the poller.  A submitted
\* review answers the request.
TurnReturns ==
    /\ poll.stage = "turn"
    /\ poll' = [poll EXCEPT !.stage = "dispatch", !.turn = {}]
    /\ \E job \in poll.turn :
          IF poll.pass \in {"requests", "tracked"}
          THEN /\ state' = [state EXCEPT !.inFlight = {}]
               /\ Save(state', [history EXCEPT !.returned =
                                   @ \cup {<<job.pr, job.head>>}])
               /\ github' \in {github, [github EXCEPT !.requested = @ \ {job.pr}]}
          ELSE UNCHANGED <<state, disk, history, github>>
    /\ UNCHANGED <<clock, items>>

EndPass ==
    /\ poll.stage = "dispatch" /\ poll.jobs = {}
    /\ poll.pass # "contributed"
    /\ poll' = [poll EXCEPT !.stage = "search", !.pass = NextPass(@)]
    /\ UNCHANGED <<state, disk, history>>
    /\ GithubSame

\* Mutant: the cursor moves to the time the last turn ended.
EndTickNow ==
    /\ poll.stage = "dispatch" /\ poll.jobs = {}
    /\ poll.pass = "contributed"
    /\ poll' = Idle
    /\ state' = [state EXCEPT !.lastPoll = clock]
    /\ Save(state', [Forgotten EXCEPT !.excused = @ \cup history.excusing,
                                     !.starts = @ \cup {poll.start}])
    /\ GithubSame

\* The tick succeeded: the cursor moves to its start.
EndTick ==
    /\ poll.stage = "dispatch" /\ poll.jobs = {}
    /\ poll.pass = "contributed"
    /\ poll' = Idle
    /\ state' = [state EXCEPT !.lastPoll = poll.start]
    /\ Save(state', [Forgotten EXCEPT !.excused = @ \cup history.excusing,
                                     !.starts = @ \cup {poll.start}])
    /\ GithubSame

\* A kill, or the shutdown that drops the poll loop where it waits.
Kill ==
    /\ poll.stage # "down"
    /\ Fault
    /\ poll' = [Idle EXCEPT !.stage = "down"]
    /\ history' = [Forgotten EXCEPT !.forgotten = {}, !.faults = @ + 1]
    /\ UNCHANGED <<state, disk>>
    /\ GithubSame

Progress ==
    \/ Boot \/ StartTick \/ Search \/ ReadDiffComments \/ EndRead
    \/ TurnReturns \/ EndPass \/ EndTick
    \/ \E p \in Prs : ReadPr(p)
    \/ \E job \in poll.jobs : Dispatch(job)

Failures ==
    \/ SearchFails \/ Kill
    \/ \E p \in Prs : ReadFails(p)
    \/ \E job \in poll.jobs : PrepFails(job)

Next == People \/ Progress \/ Failures

Spec == Init /\ [][Next]_vars /\ WF_vars(Progress)

-----------------------------------------------------------------------------

\* Type invariant, with what the passes rely on: a reviewer turn runs only
\* while it is marked in flight, and a marked PR is tracked.
TypeOK ==
    /\ clock \in 1 .. MaxClock
    /\ github.open \subseteq Prs /\ github.requested \subseteq Prs \ Own
    /\ github.head \in [Prs -> 1 .. MaxEvents + 1]
    /\ items \in [Items -> [pr : Prs, kind : ItemKinds,
                            drafted : 0 .. MaxClock, published : 0 .. MaxClock]]
    /\ state \in PollState /\ disk \in PollState
    /\ poll.stage \in {"down", "idle", "search", "read", "read diff",
                       "dispatch", "turn"}
    /\ poll.pass \in Passes /\ poll.start \in 0 .. clock
    /\ poll.todo \subseteq Prs /\ poll.prunes \subseteq Tracked
    /\ poll.jobs \subseteq Jobs /\ poll.turn \subseteq Jobs
    /\ \A a, b \in poll.jobs : a.pr = b.pr => a = b
    /\ poll.stage = "turn" <=> poll.turn # {}
    /\ poll.stage # "down" =>
          (state.inFlight # {} <=>
             poll.stage = "turn" /\ poll.pass \in {"requests", "tracked"})
    /\ \A f \in state.inFlight : state.reviewed[f.pr] # Unseen

\* The cursor that the next tick will cut by.
Cursor == IF poll.stage = "down" THEN disk.lastPoll ELSE state.lastPoll

Behind(i) == items[i].published \in 1 .. Cursor

\* Whatever people write while ticks run for hours and the daemon dies, an
\* item that fell behind the cursor was in some turn, unless its PR was left
\* out of the tick: a call for it failed, it was closed, the review request
\* came between two passes, or the item came in the very second the tick
\* started (src/channel/github/prs.rs, tick_start in poll_loop); unless it is
\* a review of a tracked PR, which no pass takes up (tracked_comments,
\* contributed_candidates); or unless the document was lost (starting_now).
NothingLost ==
    \A i \in Items :
        Behind(i) => \/ i \in history.handled
                     \/ items[i].published \in history.starts
                     \/ \E why \in Excuses : <<i, why>> \in history.excused

\* The document holds a head only if a turn for it returned, or is marked as
\* in flight so that the next boot undoes it (roll_back_in_flight).
RecordedMeansReturned ==
    \A p \in Prs :
        \/ disk.reviewed[p] = Unseen
        \/ <<p, disk.reviewed[p]>> \in history.returned
        \/ \E f \in disk.inFlight : f.pr = p

\* No turn repeats what the document says is done: each brings an item newer
\* than its cursor or a head it does not hold as reviewed, whatever writes
\* failed and wherever the daemon was killed.  A document that cannot be read
\* costs one duplicate review of a PR that it held (specs/20).
NotAgain ==
    [][\A job \in poll.jobs :
          Dispatch(job) =>
            \/ \E i \in job.items : items[i].published > disk.lastPoll
            \/ job.pr \in history.forgotten
            \/ /\ poll.pass \in {"requests", "tracked"}
               /\ \/ disk.reviewed[job.pr] # job.head
                  \/ \E f \in disk.inFlight : f.pr = job.pr]_vars

\* A head that waits for review, because it was requested or because the PR
\* is tracked, is eventually reviewed or the PR is closed, if failures end;
\* or the document that tracked the PR could not be read.
HeadsReviewed ==
    \A p \in Prs \ Own :
        (p \in github.requested \/ disk.reviewed[p] # Unseen)
            ~> (p \notin github.open
                \/ p \in history.forgotten \ github.requested
                \/ <<p, github.head[p]>> \in history.returned)

=============================================================================
