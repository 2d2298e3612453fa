# kitaebot: specifications, model checking and proofs

kitaebot is a daemon that runs one coding agent for its operators. Channels
(a socket, Telegram, GitHub pull requests, GitHub issues, Linear, scheduled
duties) turn events into envelopes; one actor answers them one at a time; a turn
alternates LLM completions and tool calls; a context engine keeps every
conversation and compacts it; durable cursors decide what is dispatched again
after a restart.

This directory holds TLA+ modules for the parts of that program that are hard to
test, the TLC configurations that check them on small instances, and TLAPS
proofs for all of them. Paths below are relative to the crate
(`agent/actor.rs` is `src/agent/actor.rs`) or to the repository
(`specs/20-github.md`).

## Files

| Module | Models | Checked by | Proved |
|--------|--------|------------|--------|
| `ContextPromise` | what a context engine promises about history (abstract) | as a property of `LcmContext` | refinement |
| `LcmContext` | one conversation of the LCM engine | `LcmContext.cfg` (through `MCLcmContext`), `LcmDropped.cfg` | `LcmProofs` |
| `LcmStore`, `MCLcmContext` | several sessions of the LCM engine: payload files, failed pushes, file links, the list of written files | `LcmContext.cfg`, `LcmStrays.cfg` | `LcmProofs` |
| `LcmExpand` | `lcm_expand` over the store | `LcmContext.cfg` | `LcmProofs` |
| `LcmConfig` | the configuration both views of the engine go by | with them | |
| `TurnLoop`, `MCTurnLoop` | one agent turn: completions, tools, gates, cancel, billing | `TurnLoop.cfg`, `TurnDangling.cfg` | `TurnLoopProofs` |
| `Delivery` | what a channel may believe of its events (abstract) | as a property of `AgentActor` | refinement |
| `AgentActor` | channel loops, mailbox, actor, sessions, escalation, shutdown, crash, boot | `AgentActor.cfg` (through `MCAgentActor`) | `AgentActorProofs` |
| `Chat`, `MCAgentActor` | the socket with its kchat clients, and Telegram, around the mailbox | `AgentActor.cfg` | `AgentActorProofs` |
| `PrPoller` | the pull request poller | `PrPoller.cfg` | `PrPollerProofs` |
| `EventPoller` | the issue and the Linear poller | `EventPoller.cfg` | `EventPollerProofs` |
| `Duties`, `MCDuties` | duty scheduler, its gates and cursors, memory distillation | `Duties.cfg` | `DutiesProofs` |
| `Checkout` | preparing a clone and a review worktree while a turn works | `Checkout.cfg` | `CheckoutProofs` |
| `GitTools`, `MCTools` | commit, fetch, push, fixup, rebase against a remote that moves | `Tools.cfg` (through `MCTools`) | `ToolsProofs` |
| `Devshell` | the devshell cache and the build warm of one checkout | `TurnLoop.cfg` (through `MCTurnLoop`), `DevshellStuck.cfg` | `CheckoutProofs` |
| `ToolCalls` | MCP calls and reviewer sub-agents of a round, cancelled anywhere | `Tools.cfg` (through `MCTools`) | `ToolsProofs` |

To check a module: `tlc -workers 2 -config PrPoller.cfg PrPoller.tla`. To check
the proofs: `tlapm LcmProofs.tla`, and so on. `PROJECT.json` maps every
definition to the lines it translates and lists, for each property, a small
wrong variant of one definition ("Mutant" in the modules' comments) under which
TLC finds the property violated: a property that no plausible bug can break is
not kept.

## Inventory

### Components, their state and how they interact

| Component | State it keeps | Operations | Talks to |
|-----------|----------------|------------|----------|
| LCM context engine (`context/lcm`) | SQLite: `messages` (grows only), `summaries` with their sources, `context_items` by ordinal | push, leaf and condensed compaction, clear, open + repair, switch session, transcripts | turn loop, actor, distillation; awaits an LLM between transactions |
| Flat and ephemeral engines (`context/flat`, `context/ephemeral`) | a message list, a JSON file per session | push, save, load, destructive compaction | same interface |
| Turn loop (`agent/mod.rs`) | gates of the turn: repeat count, strikes of tools and policies, iteration, meter | iterate, chat, respond, execute a round, squeeze, finish | provider, tools, context engine |
| Agent actor (`agent/actor.rs`, `handle.rs`, `envelope.rs`, `escalation.rs`) | mailbox, loaded session, escalation table | receive, route, run, record, restore, report, refuse | every channel; context engine; notifier |
| Daemon (`daemon.rs`, `main.rs`) | phase | start, shutdown (drop loops, drain, exit) | all |
| PR poller (`channel/github/prs.rs`) | `github_poll`: cursor, tracked heads, turn in flight | four passes per tick | GitHub, checkout, actor |
| Issue and Linear pollers (`channel/github/issues.rs`, `channel/linear.rs`) | cursor, announced sets, plan comment ids | fetch, decide, dispatch, post the reply | GitHub/Linear, checkout, actor |
| Socket, Telegram | the served client, an update offset | accept, reject, read, dispatch, cancel, reply; poll | actor, activity events |
| Duties (`duty/`) | last run and cursors per duty | due, run, gate, warm | actor, git, journal |
| Memory (`memory/`) | watermark per session | gather, distill, commit | transcripts, a sub-turn |
| Checkouts, git tools | working trees, branches | park leftovers, reset; commit, fixup, rebase, push | git, remote |
| Build caches (`tools/warm.rs`, `direnv.rs`) | per directory: resolving, ready, failed; warming, warmed, cold | look up, evaluate, warm, join | processes |
| MCP client (`tools/mcp.rs`) | child process, its connection, a back-off | call, respawn, back off | processes |
| Provider and retry (`provider/`) | attempt counter of one call | draw, retry, give up | HTTP |
| Sub-agents (`agent/task.rs`) | review ledger rows | review, record, dedupe by tree | a turn with an ephemeral context |
| Ledgers (`state_db.rs`, `usage.rs`, `review.rs`) | SQLite documents and rows | load, save, append | all |

`PROJECT.json` lists all 27 parts, including what is left out as pure I/O or
policy (HTTP clients, file tools, sandbox, deployment).

### What is hard here

- **Everything awaits.** Compaction loads a list of rows, awaits an LLM and then
  writes by ordinal range. A tick of a poller reads, then runs turns that take
  hours, then stores a cursor. A duty probes, awaits a turn, then moves a cursor
  over what it probed. A round's calls share a task and are dropped together.
- **Crashes between transactions.** The LCM engine writes one transaction per
  summary and per message; the pollers store state before and after turns; the
  actor stores which session it switched to; a rebase stops and its state stays
  in `.git`.
- **Several hands in one directory.** Pollers prepare a checkout while a turn of
  another channel works in it; people push to the branches that the tools rewrite.
- **Late answers.** An MCP server answers calls that timed out or were cancelled.
- **Failures that are logged and survived.** Storage errors at the end of a
  turn, failing fetches of one PR among many, a failing switch back, a reply that
  cannot be posted.
- **Shutdown** runs on the main task while the actor runs on its own.
- **Termination.** Held replies, refused rounds, retries and compaction passes
  all go round again.

The list of hazards in `PROJECT.json` gives each at its line with the properties
that cover it, or the reason why none does.

### What makes each component correct

- Context engine: the active context is in conversation order, each message once;
  the fresh tail and the pinned request are never summarized; what was recorded
  can be recalled until cleared; a tool call is answered at most once; compaction
  ends.
- Turn loop: no completion carries an unanswered call; what the provider billed
  reaches the ledger; the model sees a rule's guidance before the rule ends the
  turn; the turn ends. (The first does not hold after a cancel, the last not while a
  tool call hangs: see *Findings*.)
- Actor: an event's messages land in its own session; the operator's selection
  survives other people's turns; the expensive tier is earned and used once; no
  event is believed handled of which nothing was stored and nothing tried; every
  sender gets an answer; a drain ends.
- Pollers: no comment falls behind the cursor without a turn or for a named reason;
  nothing done is done again; what is assigned, and a head that waits, is handled
  in the end.
- Duties and memory: no commit, symptom or message is passed over (but for the
  symptoms that a full prompt cuts) or handled twice; a hot session starves no other;
  a schedule fires once per instant at most, and never early.
- Checkouts: what a turn left is never destroyed unparked. Git tools: a forced
  push overwrites only what was seen, publishes all it set out from, and a fixup
  that is rolled back leaves no trace.
- Build caches: one evaluation and one warm at a time, never an environment older
  than what the caller saw; nobody waits forever. Tool calls: a call returns its
  own answer; ledger, bill and words of a reviewer agree.

## The modules and the code

### `LcmContext` (core)

State: `messages` and `summaries` are the tables in order of creation, `items` is
`context_items` (ordinal to message or summary), `counts` the column
`descendant_count`. `phase`, `eligible` and `runs` are the locals of the running
cycle: which lists were loaded before the LLM was awaited. `open` is the
assistant message whose tool results are still being pushed, `base` remembers
where the context was last cleared.

| Action | Code |
|--------|------|
| `StartTurn`, `PushText`, `PushToolCalls`, `PushResult`, `EndTurn` | the pushes of a turn (`agent/mod.rs`) through `push_message_sync` |
| `StartCompaction` | `compact_if_urgent` (inside a turn), `compact_between_turns`, `force_compact`; loads the leaf list |
| `WriteLeaf` | one chunk: summarize, then the transaction of `write_leaf_summary` |
| `LoadRuns`, `WriteCondensed` | the condensed pass of `run_compaction` |
| `CompactionFails` | an LLM or storage error ends the cycle |
| `Clear`, `Crash`, `Reopen`, `Repair`, `RepairDone` | `clear`, process death, `repair_dangling_tool_calls` one push at a time |

Abstractions: token thresholds do not decide when a cycle starts (it may start
whenever the code could call it); the three-level summarizer is "a summary of some
size"; a push that fails is not modelled here (`TurnLoop` has it); only one
conversation is modelled, as the tables are keyed by conversation.

### `LcmStore`

The same engine from its other side. `conv` holds each session's messages and, by
ordinal, its context items, `dag` the summaries of all sessions with their file links,
`rows` the `large_files` table (which session's row a payload has), `payload` the files
on disk, `engine` the locals of the running engine, `cursor` the active session on disk.
`rewrites` is for the properties only: the stored payloads whose file was opened again
by a later push of the same content and not filled since.

| Action | Code |
|--------|------|
| `PushWhole` | a push that is stored whole |
| `Intercept`, `WritePayload`, `PushReference`, `PushFails` | `intercept_large`: the payload file is opened, written, then the row and the reference commit in one transaction |
| `SwitchSession`, `Forget`, `Kill`, `Boot` | session switch with its repair, `clear`, process death, start |
| `StartCycle`, `WriteLeafSummary`, `LoadCondensed`, `WriteCondensedSummary`, `CycleFails` | a compaction cycle; each summary takes over the file links of what it covers |

`Segment` is the written-files part of the prompt, computed afresh from the tables at
each request. `Expand` of `LcmExpand` is `lcm_expand`: it walks a summary's sources down
to messages under a cap on tokens, and says when it stopped early. The walk takes a turn
at a time, the rows of a leaf before the next node of the queue; as every turn that shows
something uses a token, the cap bounds the turns. What lies below a
summary is stated without recursion (`Below`: the least set that is closed under
sources), and the walk is a recursive function of the number of turns, so that both can be
proved about.

`MCLcmContext` runs both views under one configuration: `view` is chosen in the
initial state, and each behaviour takes the steps of `LcmContext` alone or of
`LcmStore` alone. They share no variable.

### `TurnLoop`

`pc` follows `turn_loop`; `gates` holds its local detectors (`prev`, `count`, `repeats`,
`blocked`, strikes), `round` the calls of the current response, `open`/`stranded` how
many calls of the stored conversation lack a result and whether a message was pushed
behind them, `hung` that a call of the round waits for something that never comes,
`attempt`/`failed`/`usage` the retry ladder of one completion and the turn's meter.
Actions cover the response with text, with calls, the refused identical round, the
executed round with results per call, each storage failure, a cancel at each await, the
squeeze when the iterations run out, and `Bill`, which is what the actor writes to the
usage ledger. `Hang` is the one await of a tool that has no timeout, the lookup of a
devshell that somebody else resolves (`tools/direnv.rs:194`); what makes it wait for
ever is in `Devshell`. `ReplyPolicy::Confirm` is modelled as specified and implemented;
in the shipped daemon every caller passes `Accept`, only tests use the other.
`MCTurnLoop` runs a turn or the devshell its calls may wait for, by a `view` that is
chosen in the initial state.

### `AgentActor`

Channel loops dispatch an event and await the reply (`waiting`); the actor's steps
are receive, prepare (switch to the hinted session), start, end, record
(escalation and usage), finish (switch back or save), report. `disk`, `cursor`,
`known`, `armed` and `handled` survive a crash: stored conversations, the
`active_session` row, known sessions, the escalation table, the pollers'
documents. `StopLoops`, `BeginDrain`, `Refuse`, `Exit` are the two halves of
`run_with_shutdown` and the actor's drain; they interleave with the actor, which
runs on its own task. A turn is opaque: `TurnLoop` and `LcmContext` say what
happens inside.

What a human learns of a turn is not certain. `Record` and `Report` may alert: there may
be no notifier, and its one attempt may fail (`InVain`); the failure of an unattended
turn is also written to the journal, which may fail too. `told` holds the events of
which something arrived, `history.unheard` those for which all that the code tries came
to nothing.

### `Chat`

`client` is each connection's kchat (a line is written in two parts), `backlog` the
listening socket's queue, `server` the position in `listen` and `serve`, `inbox` the
agent's mailbox, `service` and `poller` Telegram and its poll loop.

| Action | Code |
|--------|------|
| `Connect`, `WriteLine`, `WriteRest`, `Leave` | `bin/kchat.rs` |
| `Accept`, `RejectStranger`, `Greet` | `listen`, the uid check, the greeting through the mailbox |
| `RejectOther`, `ReadPart`, `ReadLine`, `ReadEof` | the `select!` between lines; the other branch drops the part of a line already read |
| `Respond`, `Cancel`, `TurnCancelled` | the dispatch with its monitored reader |
| `Poll`, `TakeUpdate`, `TurnEnded`, `SendReply` | `poll_loop`, `handle_message`, `send_raw` |
| `AgentReplies`, `KillDaemon` | the actor as a queue; a crash and restart |

What a line or an update is (a message, `/verbose`, something to skip) shows when it is
taken. Left out: activity frames, delays, a client that writes a second line before the
answer to the first (kchat does not), and the mailbox's capacity, which a handful of
loops with one envelope each never fill. As with the context engine, `MCAgentActor`
chooses the view (`AgentActor` or `Chat`) in the initial state.

### `PrPoller`

`github` and `items` are what people see; `state` and `disk` the poll state in memory
and in the `github_poll` document; `poll` the position in the tick. One action per read:
`Search`, `ReadPr` (head, state, comments, reviews) and `ReadDiffComments` are separate,
so a review may be submitted or a commit pushed between them; `Listed` is what a pass
takes up of a PR; `EndRead` prunes, `Dispatch` records the head and the mark in one
write and starts the turn, `TurnReturns` clears the mark, `EndTick` moves the cursor.
`SearchFails`, `ReadFails`, `PrepFails` are the three error paths, `Save` lets any write
fail silently as `save_json` does, `Kill` and `Boot` model a crash and
`roll_back_in_flight`; `Boot` may also find the document unreadable, and then starts
from now and tracks nothing, as `load_json` does. People act at any moment.

An item is a comment of the conversation, a comment on the diff, or a review. Reviews of
a tracked PR are not taken up: the tracked pass reads comments only
(`tracked_comments`), and the contributed pass leaves tracked PRs to it
(`contributed_candidates`).

Abstractions: the lookup of the bot's login, which leaves the poller waiting for good
when it fails (then none of its actions ever happens); trust and the choice of
actionable reviews (only items worth a turn exist), the 50-item limit of a search, clock
skew between GitHub and the daemon, reopened PRs, a head that returns to an older
commit.

### `EventPoller`

One module for two pollers that share their shape; `source` says which one a
behaviour is about. A tick fetches, decides with a pure function (`Turns`,
`NextState` are `plan_tick` and its relatives), runs the turns, posts each reply
and stores the poll state once.

| Action | Code |
|--------|------|
| `Boot` | load the state, or `starting_now` when there is no document or it cannot be read |
| `StartTick`, `Search`, `ReadComments`, `NextSearch` | the four searches of `issues.rs`, each followed by one comments call per ticket |
| `FetchAssigned` | the one query of `linear.rs` |
| `Decide` | the cursor is taken here, after the fetches |
| `Dispatch`, `TurnReturns` | `prepare` and the turn |
| `Post`, `PostFails` | the reply as a comment, with its retries; a plan's comment id is remembered |
| `EndTick`, `FetchFails`, `Kill` | the one save, an error that leaves the state alone, process death |

`history.done` is what turns were run for (tickets announced as work, comments handed
over), `history.saved` what of it the last successful write was made after. A ticket
leaves `done` when a successful fetch no longer finds it as work, whatever the
document says.

### `Duties`

The scheduler's loop (`Check`, `Wake`, `TakeTrigger`, `Record`), the probes of the
five kinds of duty (`ProbePrompt`, `Prime`, `GateClosed`, `GateOpen`, `ProbeFails`,
`ProbeWarm`, `ProbeDistill`), the turn and what it does to the cursor
(`TurnSucceeds`, `TurnFails`), and the distillation pass that runs in the agent
whoever asked for it (`FoldPrime`, `FoldIdle`, `FoldStart`, `FoldSucceeds`,
`FoldFails`). Sources are logs that grow between any two steps. `NextDue` is the
schedule arithmetic of `duty/schedule.rs`, `SessionOrder` and `Span` the rotation
and the slice of `memory/distill.rs`. `Shown` is what `format_prompt` leaves of the
symptoms of a self-analysis: as many as a section holds (`SectionItems`, for
`SECTION_MAX_BYTES`), while the cursor moves past all that was read; the rest is kept in
`history.evicted`. `FoldPrime` may fail to store the watermarks it primes with.
`LoseDocument` is a document that cannot be parsed and is taken for absent.

### `Checkout`

A poller's preparation goes through `probe`, `remove`, `clone`, `status`, `head`,
`branch`, `add`, `commit`, `fetch`, `detach`, `clean` or `worktree` one git command
at a time (`execution_checkout.rs`, `review_checkout.rs`, `checkout.rs`), while
another poller prepares the same repository and a turn writes, commits and
switches branches in it. `CommandFails`, `CloneFails` and `Kill` may fall at any
point. A clone that died half way is a `skeleton` (git removes it, or `Discard`
does); a worktree whose clone is gone is `dangling`.

### `GitTools`

`remote`, `tracking` (`origin/…` as last fetched), `local`, `head` and `rebase`
(what git keeps in `.git/rebase-merge`) are the repository; `tool` is the position
of the one history-rewriting call. `git_rebase` is start, stop at a conflict,
continue or abort and the leased push; `git_fixup` is a fixup commit,
autosquash and push with its rollback; commit, fetch and push are one action each.
People push between any two commands, another call of the round may fetch, and a
new turn may find a paused rebase.

### `Devshell`

`cache` is the `CacheEntry` of one directory, `warm` the entry of the `Warmer`.
Calls of a round (`Slots`) are polled by one task and dropped by a cancel; jobs are
the pollers' preparations and the warm duty, and the warms they spawn. `Look`,
`Claim`, `Register`, `Evaluate`, `Store` are the steps of `DirenvCache::get`
between its locks and awaits, `WarmClaim`, `Joined`, `BuildEnds` those of
`Warmer::warm`, `AskReady`, `Watched` those of `Warmer::ready`.

### `ToolCalls`

`lock`, `server` and `backoff` are the mutex, the child with its pipes and the
back-off of `McpServer`; a torn line, late answers and a child that dies with its
call are modelled. A reviewer's call checks the ledger, runs its sub-agent, may
retry once for an unparsable verdict, writes its rows and says what it did.
`Cancel` drops all calls wherever they stand. `MCTools` runs `GitTools` or `ToolCalls`,
by a `view` that is chosen in the initial state.

### `ContextPromise` and `Delivery`

The promise of the `ContextEngine` trait: messages are appended, can be recalled
from then on, and only `clear` may take that away. `LcmContext` implements it with
`length <- Len(messages)`, `cleared <- base` and `recall` the union of raw items
and what summaries cover. `Delivery` says what a channel's stored state may claim:
only settled events are closed. `AgentActor` implements it with
`running <- actor.event`, `settled <- told \cup Stored \cup history.unheard`,
`closed <- handled`.

## Runs

All runs finish exhaustively. State counts are distinct states.

| Run | Bounds | States | Shows |
|-----|--------|--------|-------|
| `lcm_context` | conversation view: 5 messages of one token, leaf budget 2, fresh tail 1, fan-out 2, 2 calls per message; store view: 2 sessions, 1 payload, 2 paths, lists of 1, expansions of 1 and 2 levels, caps 4 and 20, 4 messages, 1 failure or crash | 352 349 | `InOrder`, `SourcesNeverRepeat`, `AnsweredOnce`, `ReferencesKept`, `WritesVisible`, `ExpandTells`; `ProtectedKept`, `PromiseKept` (refinement), `CompactionEnds` |
| `turn_loop` | turn view: 2 turns, 3 iterations, 2 parallel calls, 3 rules, 2 failures, a call that hangs, a cancel anywhere; devshell view: 2 calls per round, 2 rounds, 2 warms, 1 edit | 534 577 | `AnsweredBeforeCompletion`, `DrawsBilled`, `FreshDevshell`; `SeenBeforeHalt`, `TurnEnds`, `WarmReleases` |
| `actor` | actor view: 2 events of a PR and a `/project`, 1 storage fault, 1 crash or shutdown; chat view: 2 connections of either uid with a line each, 2 updates, 1 retry, 1 crash | 323 776 | `RoutedHome`, `SelectionKept`, `RetryIsEarned`, `Accompanied`; `DeliveryKept` (refinement), `EveryAnswered`, `DrainEnds`, `Answered` |
| `pr_poller` | 2 PRs, 1 item of any kind, 3 seconds, 2 events on GitHub, 1 fault; the document readable or not at a start | 2 165 194 | `NothingLost`, `RecordedMeansReturned`; `NotAgain`, `HeadsReviewed` |
| `event_poller` | 1 ticket, 2 comments, 3 seconds, 1 change of the ticket, 1 fault, both trackers; the document readable or not at a start | 1 516 786 | `NothingLost`; `NotAgain`, `AnnouncedEventually` |
| `duties` | 4 rosters, day of 3 instants, clock to 4, sources of 3, a prompt section of 2, 1 manual request, 2 faults | 3 781 859 | `NothingSkipped`, `HandledOnce`, `NotStarved`; `OverdueFiresOnce` |
| `checkout` | 2 execution pollers and a review poller, 2 works, 2 recovery branches, 1 fault | 2 512 314 | `LeftoversKept` |
| `tools` | git view: 2 branches, 2 works and 1 foreign commit, 2 rewrites, 1 fault; calls view: 2 rounds of 2 calls, 2 trees, 2 deaths of the server | 3 442 433 | `OwnAnswer`, `ReviewAccounted`; `OverwritesSeen`, `ReplayIsWhole`, `FixupUndone` |
| `lcm_dropped` | 8 messages, leaf budget 4 | stops | refutes `NothingDropped` |
| `devshell_stuck` | 1 call per round, 2 rounds, 1 warm | stops | refutes `WaitersWoken` |
| `turn_dangling` | 2 turns, 1 call per round, no failure, a cancel anywhere | stops | refutes `EveryCallAnswered` |
| `lcm_strays` | 2 sessions, 1 payload, 4 messages, 1 failure or crash | stops | refutes `FoundFromHere` |

### Why the bounds are enough

Each bound is the smallest at which the situations its properties speak of occur,
and each property has a mutant that TLC finds under exactly these bounds.

- `lcm_context`: with one-token messages and a budget of two, two leaf summaries
  of depth 0 and a condensed one of depth 1 fit into five messages, a pin can fall
  inside a run, and a crash between each pair of transactions. Token sizes above
  one change only where chunks are cut; the proof covers all sizes. In the store view
  four messages give two leaves and the condensed summary above them; a cap of 4 cuts
  an expansion, one of 20 does not; a list cap of 1 with two paths is one too many.
- `turn_loop`: a strike limit of two needs three identical rounds, a cancelled
  turn followed by one of the same session needs two turns. Limits are the code's
  constants made small (`REPEAT_LIMIT`, `POLICY_STRIKE_LIMIT`, ...). In the devshell
  view two parallel tasks contend, and the second round sees what a cancelled first
  round left behind.
- `actor`: two events of one PR can fail at the cap, earn and use the retry tier;
  `/project` changes the selection between them; `o/r` and `o--r` are two spellings
  of one session. In the chat view one connection is served while the other waits, is
  turned away or takes its place; two updates make a batch of which one is confirmed
  while the other waits.
- Pollers: three seconds let something be written before, in and after the second
  that becomes the cursor; one fault can hit any call, write or moment of a tick. The
  one item is a comment, a diff comment or a review, on either PR, and one change of a
  PR's role on each side of it is enough to lose it between passes.
- `duties`: `Day = 3` gives a time of day that is passed, is now, and is to come;
  a clock of four crosses midnight. Sources of three make a slice that is cut, a
  delta below and at its threshold, and with a section of two a prompt that is cut.
- `checkout`, and `tools` in the git view: one tracked and one untracked work separate what
  `git add` parks from what `git clean` deletes; two branches are the one that is
  rebased and its base.
- `tools` in the view of calls: two parallel calls contend, and the second round sees
  what a cancelled first round left behind. For the invariants of both views, as for
  `FreshDevshell`, the proofs cover any number of calls.

Deadlock is checked in `lcm_context`, `lcm_dropped`, `lcm_strays` and `checkout`. Everywhere
else the bounds on events, clock and faults let the model stop (nothing more
happens in the world, and the program waits for it), so the configurations say
`CHECK_DEADLOCK FALSE`; that the program itself does not stop early is what the
liveness properties say.

`TypeOK` of each module is stated where its variables are explained. Those of
every module but `Chat` is proved (as a theorem of its own, or as part of
the inductive invariant), so the runs do not repeat them; `ChatShapes` in
`AgentActorProofs` is what of `Chat`'s types its proof needs.

## Findings

1. **`lcm_dropped`, `NothingDropped`** (`context/lcm/compaction.rs:204`). When a
   newer user message supersedes the pin, the old pin and the raw messages after it
   form one leaf chunk although a summary stands between their ordinals, and the
   range delete removes that summary from the active context without covering it.
   The code's comment calls the chunks contiguous. Transcripts still hold the
   messages, so `KeepsPromise` is true; what the model is sent has lost them.
2. **`devshell_stuck`, `WaitersWoken`** (`tools/direnv.rs:217`). A call inserts
   `Resolving` and evaluates; if its turn is cancelled there, nobody notifies, and
   every later lookup of the directory waits until the daemon is restarted. The
   module's header says that waiters are woken when the evaluation completes.
3. **`turn_dangling`, `EveryCallAnswered`** (`agent/mod.rs:694`). A cancel while tools
   run drops their results after the calls were stored. The next turn of the session
   sends a completion with calls that have no result, against the comment at 659;
   the repair runs only when a session is opened or switched to, and leaves calls in
   the middle alone. `AnsweredBeforeCompletion` says that only a cut turn leads there.
4. **`lcm_strays`, `FoundFromHere`** (`context/lcm/engine.rs:727`). The metadata row of
   a payload belongs to the session that stored its content first (`INSERT OR IGNORE`
   by hash), and the tools filter by session: another session's reference to the same
   content is found by neither `lcm_describe` nor `lcm_grep`, against spec 14:893 and "a
   reference can never exist without its metadata". `ReferencesKept` is what is left of
   that sentence: the row is that of a session that does refer to the payload.

### Disagreements without a run

Met while modelling; the models follow the code, and the properties are stated so
that they hold of it. Each is the reader's starting point for a decision.

- A turn does not end by itself while one of its calls waits for a devshell whose
  evaluation was dropped (`devshell_stuck`): the wait at `direnv.rs:194` has no timeout
  and `join_all` waits with it. `TurnEnds` excepts it until the turn is cancelled.
- What fails in an unattended turn reaches a human by one best-effort alert, if there is
  a notifier (`agent/actor.rs:312`, `notify.rs:146`), and the journal by a write that may
  fail. When both fail and the turn was not stored, the event is closed and nobody
  knows; likewise for a reply that its channel gives up. `DeliveryKept` names these
  events (`history.unheard`).
- `switch_session` stores the repository's session as `active_session` for the
  length of a routed turn (`agent/actor.rs:366`): a crash leaves the operator there.
  `SelectionKept` excludes it (`history.strayed`).
- The loops are dropped before `begin_drain` (`daemon.rs:128`): in between the actor
  may run a queued envelope that spec 01:364 says is refused.
- A hint that is another spelling of the loaded session counts as a switch, is none,
  and its restore saves nothing (`agent/actor.rs:273`): a flat session is not saved
  after that turn.
- The PR cursor is the whole second in which a tick started (`prs.rs:215`): a comment
  written later in that second and after its PR was read is at the cursor and in no
  snapshot. A review request that arrives between two searches is left out by both.
- A review that a person submits on a tracked PR, without a comment, is taken up by no
  pass: `tracked_comments` (`prs.rs:843`) reads comments only and
  `contributed_candidates` (`prs.rs:899`) leaves the PR out "to keep their comments the
  tracked pass's job". The cursor passes it. `NothingLost` names it as `"tracked"`.
- A poll document that cannot be read makes a poller start from now
  (`state_db.rs:99`, "benign by design"): what was written while the daemon was down
  gets no turn, and tracked PRs are no longer re-reviewed. The properties of both pollers
  name it.
- The cursor of the issue and Linear pollers is taken after their fetches
  (`issues.rs:103`, `linear.rs:140`): what is written in between is never dispatched
  as an increment. `NothingLost` names that window.
- A quiet tick forgets which discussions were announced (`issues.rs:537`): the next
  comment embeds the whole thread again, against spec 25. `NotAgain` asks that such a
  turn brings a new comment, not that it embeds no old one.
- A poller's preparation resets a checkout in which a turn is working
  (`execution_checkout.rs:12-15`, spec 25:129): its work is parked, not lost, which is
  what `LeftoversKept` says. A `status` that exits non-zero reads as clean (124);
  two recoveries in one second collide on a branch name (63); a timed-out `rev-parse`
  removes the clone (`checkout.rs:55`); a worktree whose clone is gone blocks later
  reviews.
- `git_rebase` reads its lease when it pushes (`tools/git_rebase` rebase.rs:300), not when it
  started; `git_rebase continue` can push over what a fetch in between brought in. A
  paused rebase survives a preparation, and a fixup's rollback aborts it.
- A duty whose cursor document is lost primes again and skips the delta (spec
  24:335); a warm that built without fetching sets its cursor; self-analysis sends
  32 KiB of each section and moves its cursor past everything
  (`duty/self_analysis.rs:213`, spec 24:232), so what found the section full gets no
  turn, which `NothingSkipped` says in `CutBehindFullSection`; an unreadable
  distillation document primes all sessions again (`memory/distill.rs:47`).
- The devshell's fingerprint is `.envrc` and `flake.lock`; an edit of `flake.nix`
  alone is served the old environment.
- Two reviewers of one tree in one round both run; a dropped reviewer's spend is
  billed to nobody; after a transport failure an MCP call that the server may have
  run is sent again; a half-written line is the start of the next request.
- `socket.rs` reads lines inside a `select!`: a line received in part is dropped when
  a second client connects meanwhile, and its sender is told its JSON is invalid. A
  client that connects while a turn is dispatched is neither served nor turned away
  until the turn is over, against the module's header. `Answered` holds of both.
- A Telegram poll error that is not transient is retried without a delay.
- A payload seen again is written in place, so a full disk or a crash there tears the
  "immutable" copy that earlier references point to. `ReferencesKept` names it
  (`rewrites`).
- A compaction cycle that fails after a chunk leaves `observed_tokens`
  (`engine.rs:455`) although the context shrank, against "cleared whenever the context
  shrinks": the next check compacts again on the old figure.
- `lcm_expand` does not count its headers against the cap; one missing payload file
  fails every `lcm_grep` over files of the session.
- Telegram's offset lives in memory: updates of the last batch that were not yet
  confirmed are handled again after a crash.
- `file_edit` computes window offsets with one byte per line break; a file with CRLF
  shifts them.

## Fairness

| Module | Assumed | Why the code justifies it |
|--------|---------|---------------------------|
| `LcmContext` | `WF(CompactionStep)` (in the run: while the conversation view is chosen) | the cycle is one future of the actor; LLM calls time out and the last level needs none |
| `TurnLoop` (in the run: while the turn view is chosen) | `WF(TurnStep)` | the turn is one task; completions run under timeouts and so do tools, but for the wait for a devshell, which is `Hang`: no step of a turn whose call hangs is assumed, only that it obeys a cancel |
| `AgentActor` | `WF(ActorStep)`, `WF(BeginDrain)`, `WF(Exit)` | the actor's task, and the main task that only awaits it; **assumes that turns end**, which is `TurnEnds` and has its exception: `EveryAnswered` and `DrainEnds` say nothing of an actor whose turn hangs |
| `Chat` | `WF(ServerStep)`, `WF(AgentReplies)`, `WF(WriteRest)` of each client | the listen loop is one task; **assumes that turns end**, so `Answered` says nothing of clients behind a turn that hangs; kchat's `write_all` finishes a line it began, or the client is gone |
| `PrPoller`, `EventPoller` | `WF(Progress)` | one task per poller, timer and calls with timeouts; the world and faults are not fair |
| `Devshell` (in the run: while its view is chosen) | `WF(SomeTaskStep)` | the runtime polls what is ready; subprocesses end or are timed out |
| others | none | only safety is claimed |

Weak fairness suffices throughout: nothing the liveness properties wait for is
disabled and enabled again by others. No fairness is assumed of people, faults,
or of a task that was dropped.

## Proofs

All theorems hold for every value of the constants that satisfies the named
assumptions (`LcmConfigAssumption`, `LcmAssumption`, `LcmStoreAssumption`,
`LcmExpandAssumption`, `TurnAssumption`, `ActorAssumption`,
`ChatAssumption`, `PrPollerAssumption`, `EventPollerAssumption`, `DutiesAssumption`,
`CheckoutAssumption`, `GitToolsAssumption`, `DevshellAssumption`,
`ToolCallsAssumption`). Each is evaluated by TLC in the runs.

Every proof has the same shape: an inductive invariant, a conjunction of named parts;
one lemma per action that says that the action keeps it; the theorem. The invariants
were checked by TLC before they were proved.

### `LcmProofs`

For `LcmContext`, with `IInv`:

| Theorem | States |
|---------|--------|
| `Invariance` | `Spec => []IInv` |
| `TypeCorrect`, `ContextInOrder`, `SourcesDisjoint`, `CallsAnsweredOnce` | `TypeOK`, `InOrder`, `SourcesNeverRepeat`, `AnsweredOnce` |
| `ProtectedStay` | no step removes the pinned message or the fresh tail |
| `KeepsPromise` | `LcmContext` implements `ContextPromise` |

`IInv` adds to the properties what compaction relies on while it awaits: the lists
loaded before the LLM call are still in `items`, in order, below every ordinal given
out since, and disjoint from the protected part. Without it `WriteLeaf` could delete a
range that no longer is what was summarized. The first sections of the module
have the facts about maxima of finite sets, ordinals, chunks and coverage.

That a cycle comes to an end is proved up to fairness. `CondensingShrinksAlways` is
`run_compaction`'s comment "Each step strictly reduces the number of summary items in
context_items", which needs `RunsLong` (a loaded run has two summaries at least when it
is replaced) beside `IInv`. `CompactionShrinksAlways` gives the whole cycle a natural
number, twice the raw items and once the summaries with the loads between them, that
every step taken while the cycle runs lowers, or it ends the cycle.

For `LcmStore`, with `StoreInv`:

| Theorem | Strengthened by | Why it is needed |
|---------|-----------------|------------------|
| `StoreTypesAlways` | `SoundStore`, `TodoOK` | ordinals stay below the number of messages, also of a chunk that was loaded before the last summary was written |
| `ReferencesKeptAlways` | `Traced`, `FilesKept`, `PushOK`, `OwnSummaries`, `Linked` | a row is that of a session with a message that refers to the payload, and its file is whole unless a rewrite is unfinished; what a chunk names is a summary of its own conversation; each summary lists the files of its direct sources |
| `WritesVisibleAlways` | `SoundStore` | a message that is neither raw nor cleared is behind a summary of the context, and a conversation that has messages has a user's |
| `ExpandTellsAlways` | `LevelBelow`, `WalkInv` | every path from a summary to another has the same length, so the `seen` set never drops a node that was not shown; what is shown, queued or below the queue is all there is to show |

That every summary lists the files of everything below it follows from its direct
sources without induction: the summaries of the conversation that list no other files
are a set closed under sources. That a list of written files without some path is full
of later ones (`NewestFull`) goes by the oldest path of the list and the newest path
that is not on it.

`WalkInv` is kept by each turn of the walk of `Expand`, and the tokens used are no fewer
than the turns taken, so after one turn more than the cap the walk has ended
(`ExpandSound`). The library's induction theorems take an operator and cannot be used: a
set of numbers that has 0 and, with a number, the next up to N, has all up to N (`UpTo`,
from the least element of a set of naturals), and a function from a set to itself has
iterates (`IteratesExist`), which are the recursive functions `Within` and `Expand` define.

### `TurnLoopProofs`

| Theorem | Strengthened by | Why it is needed |
|---------|-----------------|------------------|
| `TurnTypes` | `Position`, `Gated` | a retry, a refusal or another iteration is only entered below its limit, and a strike that reaches one ends the turn |
| `AnsweredAlways` | `Settled` | nothing is open outside of a round, so that the message pushed before a request strands no call |
| `BilledAlways` | `Metered` | the draws of the completion under way are in `failed` until it ends |
| `SeenAlways` | `Warned` | a rule that struck was put into the conversation, and what was there before a request is seen by it |
| `TurnShrinksAlways` | `Position` | a turn takes at most (`MaxIterations` + 1) * (`MaxRetries` + 3) + 2 steps: every step of the turn lowers what is left, and nothing else raises it |

`TurnAssumption` asks for two strikes at least before a halt (`REPEAT_STRIKE_LIMIT`
and `POLICY_STRIKE_LIMIT` are above one in the source): with one, the first
blocked round would halt the turn unwarned.

### `AgentActorProofs`

Four invariants over one base: `TypeOK` and `Quiet` (what `pc = "recv"` and a daemon
that is down say about the actor's locals).

| Theorem | Added | Why it is needed |
|---------|-------|------------------|
| `RoutedHomeAlways` | `AtHome` | which session is loaded at each `pc`, so that the record lands there |
| `SelectionKeptAlways` | `Selected` | where the switch back will lead, and when it is excused |
| `RetryEarnedAlways` | `Credits` | the credit together with what is armed in memory and on disk and what the running turn will add |
| `DeliveryAlways` | `Kept` | an event that is closed or about to be is stored, told, or in `history.unheard`, which a refused event never is; shown for the LCM engine, which stores a push at once. The flat engine stores at the end of the turn, and may lose what a save could not write |

For `Chat`, `ChatAccompanied` proves `Accompanied` from three parts: `ChatShapes`; `Single`
(a request is in the mailbox once, and its owner has only that one); `Companion`,
which says for every post who waits for its end and where that loop stands: the
server in `greet`, `dispatch` or `cancelled` for the client it serves, the poller in
`dispatch` at the update that Telegram has not been told to forget.

The other side of it is `ChatHeard`: whoever waits at the socket has a place. By
`HeardInv`, which says of each connection what its state means for the queue and the
server, a client that waits is queued, is greeted, or is the one served, and its line is
still being written, is to be read, or is with the agent. `ReadPart`, and `RejectOther`
which drops a part that was read, leave this true because the tail is still to come.

Two theorems are about what makes the liveness of `AgentActor` true besides fairness.
`AnswerNearsAlways`: what a loop awaits is in the mailbox or in hand of a daemon that is
up (`Awaited`), and the steps until the actor is done with it (7 for each envelope before
it, and those of the one in hand) go down with each step of the actor and up with
none. `DrainShrinksAlways`: once the loops are stopped the same holds of all that is left.

### `PrPollerProofs`

| Theorem | Strengthened by | Why it is needed |
|---------|-----------------|------------------|
| `PollerTypes` | `Steps`, `Marked` | a PR is to be read, being read, pruned or a job, and only one of them; a reviewer turn runs exactly while it is marked |
| `RecordedAlways` | `Sound` | memory too holds only heads that returned or are in flight, and the document is a state memory once was in |
| `NothingLostAlways` | `Cursors`, `JobItems`, `Owes` | what a tick still owes to an item published before its start and after the cursor |
| `NotAgainAlways` | `Dated`, `Headed`, `Behindhand`, `Reasons` | each job has a reason in memory, and the document lags behind the memory: its cursor and heads are no newer, or its in-flight mark will undo them, or it could not be read |

`Owes` is the heart of `NothingLostAlways`. `Covered` says, pass by pass, that such an
item was told, is excused, is in a job or under the read of its PR, or that a pass that
has not searched yet will find the PR; the tracked pass relies on the reviewer's passes
not to have taken the PR from the map, and leaves a review of a tracked PR (`Skipped`)
to the search of the contributed pass, which excuses it. A boot either goes on from the
document (`Reloaded`) or from now (`Restarted`), where all that was visible is excused.
At the end of a tick no pass is left, so that moving the cursor to the start leaves only
items that were told or are excused behind it.

### `EventPollerProofs`

| Theorem | Strengthened by | Why it is needed |
|---------|-----------------|------------------|
| `EventTypes` | `Shapes`, `Steps`, `States` | what each stage of a tick has in hand; no ticket is both announced as work and in discussion |
| `EventNothingLost` | `Cursors`, `Fetched`, `Handed` | every cursor, in memory or in a document, leaves behind it only what was told or is excused; a comment since then is on the list to read, then read, then in a job or told |
| `EventNotAgain` | `Covered`, `Read`, `Queued` | at rest memory knows as announced what was announced, and its cursor is past every comment handed over, and the document so for what was done up to the last successful write; what was read of a ticket is of that ticket; each job has news, and no two have the same |

`NotAgain` does not speak of the cursor or the announced set, which are what the jobs
are made from, but of the turns that were run (`history.done`). `Covered` links the
two, across ticks, failed writes, kills and unreadable documents.

### `DutiesProofs`

| Theorem | Strengthened by | Why it is needed |
|---------|-----------------|------------------|
| `DutyTypes` | `Shapes`, `Control` | what is to run at each stage, and nothing in a daemon that is down |
| `DutyNothingSkipped` | `Behind`, `Turning`, `Reading`, and `CutBehindFullSection` itself | cursors and watermarks are within their sources, and what a turn or a pass was given ends where its source ended when it was read; a symptom is cut only in a step that hands a whole section before it to the turn |
| `DutyHandledOnce` | `Once` | what was handled beyond a cursor, in memory or in the database, is what may be repeated |
| `DutyNotStarved` | `Waiting`, `Reading` | the passes that passed a session over and the places before it in the rotation add up to less than the number of sessions |
| `DutyOverdueFiresOnce` | `Ran` | the last run the scheduler goes by is the last there was |

The model was restated for these proofs, not weakened: the duties of a pass are a set
of which the first in the order of declaration runs (`Current`), and the gather loop is
the relation `Gathered` between what each session finds of the budget.

### `CheckoutProofs`

The clone in which turns work. For `Devshell`: `DevshellInvariance`, with
`DevshellTypes`, `OneAtATimeAlways` (`OneAtATime` is only proved) and `FreshAlways`. For
any number of calls and warms, at most one task evaluates and at most one builds, and a
call is never given an environment older than the files it asked about. `Fits`
relates each task's position to the entry it owns.

`AttendedAlways`: whoever waits for another task waits for one that is evaluating, or
warming, at that moment. `Owned` (whom an entry names is at the work) and `Waits` (a
waiter waits for whom the entry names) are its strengthening. What is left out is what
`devshell_stuck` shows: the waiter of an entry whose evaluation was dropped waits for
nobody. Who waits for an evaluation and who waits for a warm are woken apart (`Woken`,
`Released`): a warm's channel is not closed when the evaluation it asked for ends.

For `Checkout`:

| Theorem | Strengthened by | Why it is needed |
|---------|-----------------|------------------|
| `CheckoutTypes` | `CheckoutShapes`, `Roles` | reviews take no step that touches what a turn left |
| `LeftoversAlwaysKept` | `CheckoutTidy`, `Careful` | what is staged is in the tree, HEAD's branch is at HEAD's commit, recovery branches are numbered without a gap; and for each preparation what its step relies on: at `clean` and `detach` what must be kept is on a branch, at `add` and `commit` the tree still has it |

Two preparations may be between two commands at once, so `Careful` must hold of each
whatever the other does: the parts about the other's branch and tree are why a commit by
one is a parked commit for both.

### `ToolsProofs`

The tools whose calls share what outlives them. For `ToolCalls`: `ToolCallsInvariance`,
with `OwnAnswerAlways` and `ReviewAccountedAlways`. For any number of calls and trees, a
call returns the answer to its own request, and what a reviewer says agrees with the
ledger and the bill.

For `GitTools`, with `GitInv`:

| Theorem | Strengthened by | Why it is needed |
|---------|-----------------|------------------|
| `GitTypes` | `GitShapes`, `GitTidy` | the branches of the clone have only patches of its turns, HEAD's branch is at HEAD's commit, a staged patch is not committed |
| `GitOverwritesSeen` | `Fetched`, `Leased` | what was fetched is behind the remote and the lease behind what was fetched: people add commits, so if the remote equals the lease all three agree |
| `GitReplayIsWhole` | `Whole`, `Finds` | at each step the patches a rewrite set out from are in HEAD's commit or still to be picked, at last on the branch |
| `GitFixupUndone` | `Fixes`, `RollsBack` | which commit is the fixup's, that a stopped rebase is the fixup's own, and what a rollback without a fault has restored so far |

`ReplayIsWhole` was false with two faults, which the run's one fault does not show:
when the abort of a rollback fails, the hard reset is done and the next command fails,
a stopped rebase is left whose conflicts are gone. `UndoHard` now marks such a rebase as
left by a rollback, which the property excuses in words already; with that it was checked
with two faults and then proved for any number.

### Only model-checked

Liveness, as the prover has no rule for `ENABLED` or fairness: `CompactionEnds`,
`TurnEnds`, `EveryAnswered`, `DrainEnds`, `HeadsReviewed`, `AnnouncedEventually`,
`WarmReleases`, `Answered`. Of these

- `CompactionEnds`, `TurnEnds`, `EveryAnswered` and `DrainEnds` are proved up to fairness:
  a number that each step of the part that is fair lowers and that nothing else raises
  (`CompactionShrinksAlways`, `TurnShrinksAlways`, `AnswerNearsAlways`,
  `DrainShrinksAlways`). What is left to TLC is that such a step can be taken.
- `WarmReleases` and `Answered` have a safety half that is proved: nobody waits for
  nobody (`AttendedAlways`, `ChatHeard`). That those who are waited for get on is left to
  TLC: what they do next depends on edits, cached answers and what people write.
- `HeadsReviewed` and `AnnouncedEventually` are about a world that stops changing; what
  holds before it does is `NothingLost`, a theorem for both pollers.

## Not modelled, and why

- `lcm_grep`, `lcm_describe`, the reports and the summarizer's text
  (`context/lcm/tools.rs`, `summarize.rs`, `explore.rs`): read-only queries, prompts and
  text processing. What they can find is `recall` of `ContextPromise`; `lcm_expand` is
  in `LcmExpand`.
- Notifications: bounded lists of one actor, handed to one send; activity frames only
  display a turn.
- HTTP clients, file, search and network tools, the exec policy: functions of their
  input with no state between calls.
- Sandbox, confinement, output scrubbing, deployment: operating system policy.
- Configuration, prompts, hints: parsed once, constants of the models.
- Clock skew, GitHub's search limits, and the content of any text.

About one line in seven of the repository is mapped; more than half of the rest are
tests inside the source files, and most of what remains is the code listed above.

## Plan

Done, in this order: `LcmContext` and its promise, `TurnLoop`, `AgentActor` and
delivery, the pollers, duties and memory, checkouts and git tools, caches and tool
calls, the store across sessions, the chat channels; proofs for all of them. Every
invariant and action property of the runs is a theorem, both refinements are, and for
the liveness properties so are the step-wise facts they rest on, as far as *Only
model-checked* says. To extend it: the token thresholds that decide when a compaction
cycle starts, and the steps by which a warm gets to its end.
