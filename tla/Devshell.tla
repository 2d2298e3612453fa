------------------------------ MODULE Devshell ------------------------------
(***************************************************************************)
(* The devshell of one checkout and its build warm: DirenvCache::get       *)
(* (src/tools/direnv.rs), Exec::resolve_direnv (src/tools/exec.rs),        *)
(* GitCli::provision_devshell (src/tools/git/git_cli.rs), Warmer::warm and *)
(* Warmer::ready (src/tools/warm.rs), and git_commit waiting for the warm  *)
(* (src/tools/git/commit.rs).  Slots are the tool calls of a turn, polled  *)
(* by one task and dropped together by a cancelled turn; jobs are the      *)
(* preparations of the pollers and the warm duty, each going on as the     *)
(* warm it spawned.                                                        *)
(***************************************************************************)
EXTENDS Integers

CONSTANTS Slots,     \* tool calls of a round
          Jobs,      \* preparations of the checkout outside the turns
          MaxEdits,  \* how often .envrc or flake.lock is rewritten
          MaxAsks,   \* how many rounds and preparations there are in all
          Nobody

ASSUME DevshellAssumption == MaxEdits \in Nat /\ MaxAsks \in Nat /\ Nobody \notin Slots \cup Jobs

Tasks == Slots \cup Jobs

VARIABLES envrc,     \* the version of .envrc and flake.lock on disk
          approved,  \* the version `direnv allow` last approved
          cache,     \* the CacheEntry of the directory
          warm,      \* the warm Entry of the directory
          task,      \* where each call and preparation is
          asks       \* rounds and preparations so far

shellVars == <<envrc, approved, cache, warm, task, asks>>

Versions == 0 .. MaxEdits
Broken == -1    \* a timeout or any other failure of the evaluation
Blocked == -2   \* the content of .envrc is not approved
NotAsked == -3

\* A task at `p`, for the use `u`, that asks with the fingerprint `f`.
At(p, u, f) == [pc |-> p, use |-> u, fp |-> f, on |-> Nobody, env |-> NotAsked]
Idle == At("idle", "none", 0)

\* The entry while `t` evaluates, holds an environment, holds a timeout.
Entry(k, t, f, v) == [kind |-> k, by |-> t, fp |-> f, env |-> v]
Empty == Entry("none", Nobody, 0, NotAsked)
Resolving(t) == Entry("resolving", t, 0, NotAsked)
Ready(f, v) == Entry("ready", Nobody, f, v)
TimedOut(f) == Entry("failed", Nobody, f, Broken)

Cold == [kind |-> "none", by |-> Nobody]
Warming(t) == [kind |-> "warming", by |-> t]
Warmed(outcome) == [kind |-> outcome, by |-> Nobody]

\* Calls of one round share a task: while one is between two awaits, and only
\* then, the others stand still.
Polled(t) == t \in Slots => \A u \in Slots \ {t} : task[u].pc # "seen"

ShellInit ==
    /\ envrc = 0 /\ approved \in {0, Broken}
    /\ cache = Empty /\ warm = Cold
    /\ task = [t \in Tasks |-> Idle] /\ asks = 0

ShellTypeOK ==
    /\ envrc \in Versions /\ asks \in 0 .. MaxAsks
    /\ approved \in Versions \cup {Broken}
    /\ cache \in [kind : {"none", "resolving", "ready", "failed"}, by : Tasks \cup {Nobody},
                  fp : Versions, env : Versions \cup {Broken, NotAsked}]
    /\ warm \in [kind : {"none", "warming", "warmed", "cold"}, by : Tasks \cup {Nobody}]
    /\ task \in [Tasks -> [pc : {"idle", "allow", "look", "claim", "seen", "waiting", "evaluate",
                                "store", "run", "warm", "join", "build", "ready", "watch"},
                          use : {"none", "exec", "again", "provision", "warm", "commit"},
                          fp : Versions, on : Tasks \cup {Nobody},
                          env : Versions \cup {Broken, Blocked, NotAsked}]]

-----------------------------------------------------------------------------
(* DirenvCache::get.  The fingerprint is taken once, before the first look. *)

Enter(u) == At("look", u, envrc)

\* What `t` becomes when get answers `r`: exec re-allows a trusted checkout once
\* and otherwise runs without a devshell; a preparation spawns the warm command
\* when one is configured; a warm builds.
After(t, r) ==
    LET d == task[t]
        ran == [d EXCEPT !.pc = "run", !.env = r]
    IN  CASE d.use = "exec" -> IF r = Blocked THEN {ran, [d EXCEPT !.pc = "allow", !.use = "again"]}
                               ELSE {ran}
          [] d.use = "again" -> {ran}
          [] d.use = "provision" -> IF r < 0 THEN {Idle} ELSE {Idle, At("warm", "none", 0)}
          [] d.use = "warm" -> {[d EXCEPT !.pc = "build", !.env = r]}

HitStale(t) == cache.kind \in {"ready", "failed"}
\* An answer for this very fingerprint, environment or timeout.
Hit(t) == cache.kind \in {"ready", "failed"} /\ cache.fp = task[t].fp

\* What a look at the entry leads to; `missed` is where a miss leads.
Looked(t, missed) ==
    IF Hit(t) THEN After(t, cache.env)
    ELSE IF cache.kind = "resolving" THEN {[task[t] EXCEPT !.pc = "seen", !.on = cache.by]}
    ELSE {[task[t] EXCEPT !.pc = missed]}

\* Under the read lock.
Look(t) ==
    /\ task[t].pc = "look" /\ Polled(t)
    /\ \E d \in Looked(t, "claim") : task' = [task EXCEPT ![t] = d]
    /\ UNCHANGED <<envrc, approved, cache, warm, asks>>

\* The second look, under the write lock.
Missed(t) == ~Hit(t) /\ cache.kind # "resolving"
Claim(t) ==
    /\ task[t].pc = "claim" /\ Polled(t)
    /\ \E d \in IF Missed(t) THEN {[task[t] EXCEPT !.pc = "evaluate"]} ELSE Looked(t, "evaluate") :
           task' = [task EXCEPT ![t] = d]
    /\ cache' = IF Missed(t) THEN Resolving(t) ELSE cache
    /\ UNCHANGED <<envrc, approved, warm, asks>>

\* The lock is gone before the task registers with the Notify it cloned.
Register(t) ==
    /\ task[t].pc = "seen"
    /\ task' = [task EXCEPT ![t].pc = "waiting"]
    /\ UNCHANGED <<envrc, approved, cache, warm, asks>>

\* `direnv export json`: it reads the files as they are now.
Evaluate(t) ==
    /\ task[t].pc = "evaluate" /\ Polled(t)
    /\ \E r \in IF approved = envrc THEN {envrc, Broken} ELSE {Blocked} :
           task' = [task EXCEPT ![t].pc = "store", ![t].env = r]
    /\ UNCHANGED <<envrc, approved, cache, warm, asks>>

\* notify_waiters reaches the registered tasks; one that only cloned the Notify
\* keeps a Notify nobody will signal.
Woken(t, u) ==
    IF task[u].on # t THEN task[u]
    ELSE CASE task[u].pc = "waiting" -> [task[u] EXCEPT !.pc = "look", !.on = Nobody]
           [] task[u].pc = "seen" -> [task[u] EXCEPT !.on = Nobody]
           [] OTHER -> task[u]

Kept(t) ==
    CASE task[t].env >= 0 -> {Ready(task[t].fp, task[t].env)}
      [] task[t].env = Broken -> {TimedOut(task[t].fp), Empty}
      [] OTHER -> {Empty}
\* The outcome is stored: an environment, a timeout for its TTL, no fast failure.
Store(t) ==
    /\ task[t].pc = "store" /\ Polled(t)
    /\ cache' \in Kept(t)
    /\ \E d \in After(t, task[t].env) :
           task' = [u \in Tasks |-> IF u = t THEN d ELSE Woken(t, u)]
    /\ UNCHANGED <<envrc, approved, warm, asks>>

\* TIMEOUT_TTL passes.
TimeoutExpires ==
    /\ cache.kind = "failed"
    /\ cache' = Empty
    /\ UNCHANGED <<envrc, approved, warm, task, asks>>

\* `direnv allow`, before the first get of a preparation and before exec's second.
Allow(t) ==
    /\ task[t].pc = "allow" /\ Polled(t)
    /\ approved' = envrc
    /\ task' = [task EXCEPT ![t] = Enter(task[t].use)]
    /\ UNCHANGED <<envrc, cache, warm, asks>>

\* A command, a pull or an edit rewrites .envrc or flake.lock.
Edit ==
    /\ envrc < MaxEdits
    /\ envrc' = envrc + 1
    /\ UNCHANGED <<approved, cache, warm, task, asks>>

\* The command of exec, or git commit with its hook, ends.
CommandEnds(t) ==
    /\ task[t].pc = "run" /\ Polled(t)
    /\ task' = [task EXCEPT ![t] = Idle]
    /\ UNCHANGED <<envrc, approved, cache, warm, asks>>

-----------------------------------------------------------------------------
(* Warmer: one run per directory, its channel closed when the run is over.  *)

Prepare(j) ==
    /\ task[j] = Idle /\ asks < MaxAsks
    /\ task' = [task EXCEPT ![j] = At("allow", "provision", 0)]
    /\ asks' = asks + 1
    /\ UNCHANGED <<envrc, approved, cache, warm>>

LiveRunAny == warm.kind = "warming"
LiveRun == warm.kind = "warming" /\ warm.by # Nobody

\* A live run is joined, a dead one claimed.
WarmClaim(t) ==
    /\ task[t].pc = "warm"
    /\ \/ /\ LiveRun
          /\ task' = [task EXCEPT ![t].pc = "join", ![t].on = warm.by]
          /\ UNCHANGED warm
       \/ /\ ~LiveRun
          /\ task' = [task EXCEPT ![t] = Enter("warm")]
          /\ warm' = Warming(t)
    /\ UNCHANGED <<envrc, approved, cache, asks>>

\* The joiner's channel is closed: the recorded outcome, or another try.
Joined(t) ==
    /\ task[t].pc = "join" /\ task[t].on = Nobody
    /\ task' = [task EXCEPT ![t] = IF warm.kind \in {"warmed", "cold"} THEN Idle
                                 ELSE At("warm", "none", 0)]
    /\ UNCHANGED <<envrc, approved, cache, warm, asks>>

\* The sender is dropped: who holds the channel of `t` finds it closed.
Released(t, u) ==
    IF task[u].pc \in {"join", "watch"} /\ task[u].on = t THEN [task[u] EXCEPT !.on = Nobody]
    ELSE task[u]

\* The warm command ends, or the warm is skipped for want of a devshell.
BuildEnds(t) ==
    /\ task[t].pc = "build"
    /\ warm' \in {Warmed(o) : o \in IF task[t].env < 0 THEN {"cold"} ELSE {"warmed", "cold"}}
    /\ task' = [u \in Tasks |-> IF u = t THEN Idle ELSE Released(t, u)]
    /\ UNCHANGED <<envrc, approved, cache, asks>>

\* git_commit asks for the outcome and waits while a run is under way.
AskReady(t) ==
    /\ task[t].pc = "ready" /\ Polled(t)
    /\ task' = [task EXCEPT ![t] = IF warm.kind = "warming"
                                 THEN [@ EXCEPT !.pc = "watch", !.on = warm.by]
                                 ELSE [@ EXCEPT !.pc = "run"]]
    /\ UNCHANGED <<envrc, approved, cache, warm, asks>>

\* The watched channel is closed.  The runner may have died without recording.
Watched(t) ==
    /\ task[t].pc = "watch" /\ task[t].on = Nobody /\ Polled(t)
    /\ task' = [task EXCEPT ![t].pc = IF warm = Warming(Nobody) THEN "run" ELSE "ready"]
    /\ UNCHANGED <<envrc, approved, cache, warm, asks>>

-----------------------------------------------------------------------------
(* Futures that are dropped. *)

Without(gone, r) == IF r.by \in gone THEN [r EXCEPT !.by = Nobody] ELSE r

\* The entry of a dropped evaluation stays; the channel of a dropped warm closes.
DropTasks(gone) ==
    /\ task' = [u \in Tasks |-> IF u \in gone THEN Idle
                               ELSE IF task[u].on \in gone THEN [task[u] EXCEPT !.on = Nobody]
                               ELSE task[u]]
    /\ cache' = Without(gone, cache)
    /\ warm' = Without(gone, warm)
    /\ UNCHANGED <<envrc, approved, asks>>

\* The warm's task panics, at whatever await it stands.
JobDies(j) ==
    /\ task[j].use = "warm" /\ task[j].pc # "seen"
    /\ DropTasks({j})

\* A round of the turn starts: its calls that need the checkout's devshell, and
\* those that commit in it.
StartRound ==
    /\ \A c \in Slots : task[c] = Idle
    /\ asks < MaxAsks /\ asks' = asks + 1
    /\ \E execs, commits \in SUBSET Slots :
           /\ execs \cap commits = {} /\ execs \cup commits # {}
           /\ task' = [t \in Tasks |->
                  CASE t \in execs -> Enter("exec")
                    [] t \in commits -> At("ready", "commit", 0)
                    [] OTHER -> task[t]]
    /\ UNCHANGED <<envrc, approved, cache, warm>>

\* The turn is cancelled: every future of the round is dropped, at an await.
CancelRound ==
    /\ \E c \in Slots : task[c] # Idle
    /\ \A c \in Slots : task[c].pc # "seen"
    /\ DropTasks(Slots)

TaskStep(t) ==
    \/ Look(t) \/ Claim(t) \/ Register(t) \/ Evaluate(t) \/ Store(t) \/ Allow(t)
    \/ CommandEnds(t) \/ WarmClaim(t) \/ Joined(t) \/ BuildEnds(t) \/ AskReady(t) \/ Watched(t)

SomeTaskStep == \E t \in Tasks : TaskStep(t)

ShellNext ==
    \/ SomeTaskStep
    \/ \E j \in Jobs : Prepare(j) \/ JobDies(j)
    \/ StartRound \/ CancelRound \/ TimeoutExpires \/ Edit

\* The runtime polls what is ready, and every subprocess ends or is timed out.
\* Less is assumed: that some task goes on while one can.
ShellSpec == ShellInit /\ [][ShellNext]_shellVars /\ WF_shellVars(SomeTaskStep)

-----------------------------------------------------------------------------
(* Properties. *)

\* At most one evaluation of the directory and at most one warm of it are under way,
\* however many calls of a turn, preparations and warms ask at once: the claim of the
\* devshell is made under the write lock after a second look, a second warm joins the
\* first, and only a runner that died is claimed.
OneEvaluation == \A t, u \in Tasks :
    task[t].pc \in {"evaluate", "store"} /\ task[u].pc \in {"evaluate", "store"} => t = u
OneBuild == \A t, u \in Tasks : task[t].use = "warm" /\ task[u].use = "warm" => t = u
OneAtATime == OneEvaluation /\ OneBuild

\* A command never runs in a devshell older than the .envrc and flake.lock it
\* found when it asked: an environment is stored under the fingerprint taken before
\* the evaluation read the files, so an edit in between only costs another one.
FreshDevshell == \A t \in Tasks :
    task[t].pc \in {"run", "build"} /\ task[t].env >= 0 => task[t].env >= task[t].fp

\* direnv.rs, "waiters are woken when it completes": whoever waits for an evaluation
\* waits for one that somebody still runs and that will wake him.
WaitersWoken == \A t \in Tasks : task[t].pc = "waiting" => task[t].on # Nobody

Queued == {t \in Tasks : task[t].pc \in {"warm", "join", "ready", "watch"}}

\* Whoever joined a warm, or waits for it before a commit, gets past it, unless the
\* devshell itself is stuck: "a closed channel is state, not an edge, so a late
\* waiter cannot miss the wake-up", and a runner that died is noticed.  (Nobody asks
\* any more after MaxAsks, so the queue empties.)
WarmReleases == Queued # {} ~> (Queued = {} \/ ~WaitersWoken)
=============================================================================
