--------------------------- MODULE CheckoutProofs ---------------------------
(***************************************************************************)
(* The clone that a turn works in, for every number of calls, preparations *)
(* and faults: its devshell, then its preparation.                         *)
(*                                                                         *)
(* One evaluation and one warm of a directory at a time, and no command in *)
(* a devshell older than the files it asked for.  IInv says of every task, *)
(* in one place (Fits), what its record means for the two entries: whoever *)
(* evaluates is named by the cache entry, whoever warms by the warm entry, *)
(* and no environment is older than the fingerprint it goes with.  Whoever *)
(* waits for another task waits for one that is at it (Attended).          *)
(*                                                                         *)
(* And no preparation loses what the turn before left: CheckoutInv says of *)
(* each preparation what its step has found (Careful), so that nothing is  *)
(* removed or reset that is not parked, or that nobody worked on.          *)
(***************************************************************************)
EXTENDS Devshell, Checkout, FiniteSetTheorems, TLAPS

(* The devshell.                                                           *)

Pcs == {"idle", "allow", "look", "claim", "seen", "waiting", "evaluate", "store", "run",
        "warm", "join", "build", "ready", "watch"}
TaskRecord == [pc : Pcs, use : {"none", "exec", "again", "provision", "warm", "commit"},
               fp : Versions, on : Tasks \cup {Nobody},
               env : Versions \cup {Broken, Blocked, NotAsked}]
CacheRecord == [kind : {"none", "resolving", "ready", "failed"}, by : Tasks \cup {Nobody},
                fp : Versions, env : Versions \cup {Broken, NotAsked}]
WarmRecord == [kind : {"none", "warming", "warmed", "cold"}, by : Tasks \cup {Nobody}]

Asking == {"exec", "again", "provision", "warm"}
InGet == {"look", "claim", "seen", "waiting", "evaluate", "store"}

\* What the record `d` of task `t` means beside a cache entry `c`, a warm entry `w`
\* and the files at version `e`.
Fits(t, d, c, w, e) ==
    /\ d \in TaskRecord
    /\ d.pc \in {"evaluate", "store"} => c.kind = "resolving" /\ c.by = t
    /\ d.use = "warm" => w = Warming(t)
    /\ d.pc \in InGet => d.use \in Asking
    /\ d.pc = "store" => d.env # NotAsked
    /\ d.pc = "allow" => d.use \in {"again", "provision"}
    /\ d.pc \in {"ready", "watch"} => d.use = "commit"
    /\ d.pc \in {"warm", "join"} => d.use = "none"
    /\ d.pc = "build" => d.use = "warm"
    /\ d.fp <= e
    /\ d.env >= 0 => d.env >= d.fp

Entries ==
    /\ envrc \in Versions /\ approved \in Versions \cup {Broken} /\ asks \in 0 .. MaxAsks
    /\ cache \in CacheRecord /\ warm \in WarmRecord
    /\ cache.kind \in {"ready", "failed"} => cache.env # NotAsked
    /\ cache.env >= 0 => cache.env >= cache.fp

IInv ==
    /\ Entries
    /\ task = [t \in Tasks |-> task[t]]
    /\ \A t \in Tasks : Fits(t, task[t], cache, warm, envrc)

-----------------------------------------------------------------------------
(* What the operators return.                                              *)

LEMMA Distinct == Nobody \notin Tasks /\ MaxEdits \in Nat /\ MaxAsks \in Nat
  BY DevshellAssumption DEF Tasks

\* An idle task, and one that is about to ask, fit anywhere.
LEMMA IdleFits ==
  ASSUME NEW t \in Tasks, NEW c, NEW w, envrc \in Versions
  PROVE  /\ Fits(t, Idle, c, w, envrc)
         /\ Fits(t, At("warm", "none", 0), c, w, envrc)
         /\ Fits(t, At("ready", "commit", 0), c, w, envrc)
         /\ Fits(t, At("allow", "provision", 0), c, w, envrc)
         /\ \A u \in {"exec", "again", "provision"} : Fits(t, Enter(u), c, w, envrc)
         /\ Fits(t, Enter("warm"), c, Warming(t), envrc)
<1>1. 0 \in Versions /\ 0 <= envrc /\ envrc <= envrc
  BY Distinct DEF Versions
<1>2. QED
  BY <1>1 DEF Idle, Enter, At, Fits, TaskRecord, Pcs, InGet, Asking, NotAsked

\* What a task becomes with an answer of get fits whatever the cache holds.
LEMMA AfterFits ==
  ASSUME IInv, NEW t \in Tasks, task[t].pc \in InGet, NEW c, NEW w, w = warm,
         NEW r \in Versions \cup {Broken, Blocked}, r >= 0 => r >= task[t].fp,
         NEW d \in After(t, r)
  PROVE  Fits(t, d, c, w, envrc)
<1>1. Fits(t, task[t], cache, warm, envrc) /\ envrc \in Versions
  BY DEF IInv, Entries
<1>2. /\ task[t].use \in Asking
      /\ \/ d = [task[t] EXCEPT !.pc = "run", !.env = r]
         \/ d = [task[t] EXCEPT !.pc = "allow", !.use = "again"] /\ task[t].use = "exec"
         \/ d = Idle
         \/ d = At("warm", "none", 0)
         \/ d = [task[t] EXCEPT !.pc = "build", !.env = r] /\ task[t].use = "warm"
  BY <1>1 DEF After, Fits, Asking
<1>3. CASE d = Idle \/ d = At("warm", "none", 0)
  BY <1>1, <1>3, IdleFits
<1>4. CASE \/ d = [task[t] EXCEPT !.pc = "run", !.env = r]
           \/ d = [task[t] EXCEPT !.pc = "build", !.env = r] /\ task[t].use = "warm"
  BY <1>1, <1>4 DEF Fits, TaskRecord, Pcs, InGet
<1>5. CASE d = [task[t] EXCEPT !.pc = "allow", !.use = "again"] /\ task[t].use = "exec"
  BY <1>1, <1>5 DEF Fits, TaskRecord, Pcs, InGet
<1>6. QED
  BY <1>2, <1>3, <1>4, <1>5

\* What a look leads to fits, a claim apart.
LEMMA LookedFits ==
  ASSUME IInv, NEW t \in Tasks, task[t].pc \in {"look", "claim"},
         NEW d \in Looked(t, "claim")
  PROVE  Fits(t, d, cache, warm, envrc)
<1>1. Fits(t, task[t], cache, warm, envrc) /\ Entries
  BY DEF IInv
<1>2. CASE Hit(t)
  <2>1. cache.env \in Versions \cup {Broken, Blocked} /\ (cache.env >= 0 => cache.env >= task[t].fp)
    BY <1>1, <1>2 DEF Entries, CacheRecord, Hit
  <2>2. d \in After(t, cache.env)
    BY <1>2 DEF Looked
  <2>3. QED
    BY <2>1, <2>2, AfterFits DEF InGet
<1>3. CASE ~Hit(t) /\ cache.kind = "resolving"
  <2>1. d = [task[t] EXCEPT !.pc = "seen", !.on = cache.by]
    BY <1>3 DEF Looked
  <2>2. QED
    BY <1>1, <2>1 DEF Fits, TaskRecord, CacheRecord, Pcs, Entries, InGet
<1>4. CASE ~Hit(t) /\ cache.kind # "resolving"
  <2>1. d = [task[t] EXCEPT !.pc = "claim"]
    BY <1>4 DEF Looked
  <2>2. QED
    BY <1>1, <2>1 DEF Fits, TaskRecord, Pcs, InGet
<1>5. QED
  BY <1>2, <1>3, <1>4

\* A task that fits goes on fitting when it is woken, when the files grow newer, and
\* when entries change that do not name it.
LEMMA StillFits ==
  ASSUME NEW t \in Tasks, NEW u \in Tasks, NEW c, NEW w, NEW e \in Int, NEW c2, NEW w2, NEW f \in Int,
         Fits(u, task[u], c, w, e), e <= f, e \in Versions,
         task[u].pc \in {"evaluate", "store"} => c2 = c,
         task[u].use = "warm" => w2 = w
  PROVE  /\ Fits(u, task[u], c2, w2, f)
         /\ Fits(u, Woken(t, u), c2, w2, f)
        /\ Fits(u, Released(t, u), c2, w2, f)
<1>1. Fits(u, task[u], c2, w2, f)
  BY Distinct DEF Fits, TaskRecord, Versions
<1>2. Woken(t, u) = task[u] \/ Woken(t, u) = [task[u] EXCEPT !.on = Nobody]
      \/ (task[u].pc = "waiting" /\ Woken(t, u) = [task[u] EXCEPT !.pc = "look", !.on = Nobody])
  BY DEF Woken
<1>6. Released(t, u) = task[u] \/ Released(t, u) = [task[u] EXCEPT !.on = Nobody]
  BY DEF Released
<1>3. ASSUME NEW p \in {task[u].pc, "look"}, p = task[u].pc \/ task[u].pc = "waiting",
             NEW d, d = [task[u] EXCEPT !.pc = p, !.on = Nobody]
      PROVE  Fits(u, d, c2, w2, f)
  <2>1. d \in TaskRecord /\ d.pc = p /\ d.use = task[u].use /\ d.fp = task[u].fp /\ d.env = task[u].env
    BY <1>1, <1>3 DEF Fits, TaskRecord, Pcs
  <2>2. QED
    BY <1>1, <1>3, <2>1 DEF Fits, InGet
<1>4. [task[u] EXCEPT !.on = Nobody] = [task[u] EXCEPT !.pc = task[u].pc, !.on = Nobody]
  BY <1>1 DEF Fits, TaskRecord
<1>5. QED
  BY <1>1, <1>2, <1>3, <1>4, <1>6

\* A step that only moves one task, to a record that fits.
LEMMA OneMoves ==
  ASSUME IInv, NEW t \in Tasks, NEW d, Fits(t, d, cache, warm, envrc),
         task' = [task EXCEPT ![t] = d], UNCHANGED <<envrc, approved, cache, warm, asks>>
  PROVE  IInv'
<1>1. \A u \in Tasks : task'[u] = IF u = t THEN d ELSE task[u]
  BY DEF IInv
<1>2. task' = [u \in Tasks |-> task'[u]]
  BY DEF IInv
<1>3. Entries'
  BY DEF IInv, Entries, CacheRecord, WarmRecord, Versions
<1>4. \A u \in Tasks : Fits(u, task'[u], cache, warm, envrc)
  BY <1>1 DEF IInv
<1>5. QED
  BY <1>2, <1>3, <1>4 DEF IInv

-----------------------------------------------------------------------------
(* The steps.                                                              *)

LEMMA InitHolds == ShellInit => IInv
<1> SUFFICES ASSUME ShellInit PROVE IInv
  OBVIOUS
<1>1. envrc \in Versions /\ 0 \in 0 .. MaxAsks
  BY Distinct DEF ShellInit, Versions
<1>2. Entries
  BY <1>1 DEF ShellInit, Entries, Empty, Entry, Cold, CacheRecord, WarmRecord, Broken, NotAsked
<1>3. \A t \in Tasks : Fits(t, task[t], cache, warm, envrc)
  BY <1>1, IdleFits DEF ShellInit
<1>4. QED
  BY <1>2, <1>3 DEF IInv, ShellInit

LEMMA LookKeeps == ASSUME IInv, NEW t \in Tasks, Look(t) PROVE IInv'
<1>1. PICK d \in Looked(t, "claim") : task' = [task EXCEPT ![t] = d]
  BY DEF Look
<1>2. Fits(t, d, cache, warm, envrc)
  BY LookedFits DEF Look
<1>3. QED
  BY <1>1, <1>2, OneMoves DEF Look

LEMMA ClaimKeeps == ASSUME IInv, NEW t \in Tasks, Claim(t) PROVE IInv'
<1>1. CASE ~Missed(t)
  <2>1. PICK d \in Looked(t, "evaluate") : task' = [task EXCEPT ![t] = d]
    BY <1>1 DEF Claim
  <2>2. d \in Looked(t, "claim")
    BY <1>1 DEF Looked, Missed
  <2>3. Fits(t, d, cache, warm, envrc)
    BY <2>2, LookedFits DEF Claim
  <2>4. QED
    BY <1>1, <2>1, <2>3, OneMoves DEF Claim
<1>2. CASE Missed(t)
  <2> DEFINE d == [task[t] EXCEPT !.pc = "evaluate"]
  <2>1. /\ task' = [task EXCEPT ![t] = d] /\ cache' = Resolving(t)
        /\ UNCHANGED <<envrc, approved, warm, asks>>
    BY <1>2 DEF Claim
  <2>2. Fits(t, d, Resolving(t), warm, envrc)
    BY DEF IInv, Fits, TaskRecord, Pcs, InGet, Claim, Resolving, Empty, Entry
  <2>3. ASSUME NEW u \in Tasks PROVE Fits(u, task'[u], Resolving(t), warm, envrc)
    <3>1. CASE u = t
      BY <2>1, <2>2, <3>1 DEF IInv
    <3>2. CASE u # t
      <4>1. task'[u] = task[u] /\ Fits(u, task[u], cache, warm, envrc)
        BY <2>1, <3>2 DEF IInv
      <4>2. task[u].pc \notin {"evaluate", "store"}
        BY <1>2, <4>1 DEF Missed, Fits
      <4>3. QED
        BY <4>1, <4>2 DEF Fits
    <3>3. QED
      BY <3>1, <3>2
  <2>4. Entries'
    BY <2>1, Distinct DEF IInv, Entries, CacheRecord, WarmRecord, Versions, Resolving, Empty, Entry, NotAsked
  <2>5. task' = [u \in Tasks |-> task'[u]]
    BY <2>1 DEF IInv
  <2>6. QED
    BY <2>1, <2>3, <2>4, <2>5 DEF IInv
<1>3. QED
  BY <1>1, <1>2

LEMMA StoreKeeps == ASSUME IInv, NEW t \in Tasks, Store(t) PROVE IInv'
<1>1. PICK d \in After(t, task[t].env) :
         task' = [u \in Tasks |-> IF u = t THEN d ELSE Woken(t, u)]
  BY DEF Store
<1>2. Fits(t, task[t], cache, warm, envrc) /\ task[t].pc = "store" /\ Entries
  BY DEF IInv, Store
<1>3. Fits(t, d, cache', warm, envrc)
  BY <1>2, AfterFits DEF Fits, TaskRecord, InGet
<1>4. ASSUME NEW u \in Tasks, u # t PROVE Fits(u, Woken(t, u), cache', warm, envrc)
  <2>1. Fits(u, task[u], cache, warm, envrc)
    BY DEF IInv
  <2>2. task[u].pc \notin {"evaluate", "store"}
    BY <1>2, <1>4, <2>1 DEF Fits
  <2>3. QED
    BY <1>2, <2>1, <2>2, StillFits, Distinct DEF Entries, Versions
<1>5. Entries'
  <2>1. \/ cache' = Ready(task[t].fp, task[t].env) /\ task[t].env >= 0 /\ task[t].env \in Versions
        \/ cache' = TimedOut(task[t].fp)
        \/ cache' = Empty
    BY <1>2 DEF Store, Kept, Fits, TaskRecord, Broken, Blocked, NotAsked
  <2>2. cache' \in CacheRecord /\ (cache'.kind \in {"ready", "failed"} => cache'.env # NotAsked)
        /\ (cache'.env >= 0 => cache'.env >= cache'.fp)
    BY <1>2, <2>1, Distinct DEF Ready, TimedOut, Empty, Entry, CacheRecord, Fits, TaskRecord, Versions, Broken, NotAsked
  <2>3. QED
    BY <1>2, <2>2 DEF Entries, Store, WarmRecord, Versions
<1>6. QED
  BY <1>1, <1>3, <1>4, <1>5 DEF IInv, Store

LEMMA EvaluateKeeps == ASSUME IInv, NEW t \in Tasks, Evaluate(t) PROVE IInv'
<1>1. PICK r \in {envrc, Broken, Blocked} : task' = [task EXCEPT ![t].pc = "store", ![t].env = r]
  BY DEF Evaluate
<1> DEFINE d == [task[t] EXCEPT !.pc = "store", !.env = r]
<1>2. task' = [task EXCEPT ![t] = d]
  BY <1>1 DEF IInv
<1>3. Fits(t, task[t], cache, warm, envrc) /\ envrc \in Versions /\ task[t].pc = "evaluate"
  BY DEF IInv, Entries, Evaluate
<1>4. d \in TaskRecord /\ d.pc = "store" /\ d.env = r /\ d.fp = task[t].fp /\ d.use = task[t].use
  BY <1>3 DEF Fits, TaskRecord, Pcs
<1>5. Fits(t, d, cache, warm, envrc)
  BY <1>3, <1>4, Distinct DEF Fits, InGet, Versions, Broken, Blocked, NotAsked
<1>6. QED
  BY <1>2, <1>5, OneMoves DEF Evaluate

\* The steps of one task that leave both entries alone.
LEMMA RegisterKeeps == ASSUME IInv, NEW t \in Tasks, Register(t) PROVE IInv'
<1> DEFINE d == [task[t] EXCEPT !.pc = "waiting"]
<1>1. task' = [task EXCEPT ![t] = d] /\ Fits(t, task[t], cache, warm, envrc)
  BY DEF IInv, Register
<1>2. d \in TaskRecord /\ d.pc = "waiting" /\ d.use = task[t].use /\ d.fp = task[t].fp /\ d.env = task[t].env
  BY <1>1 DEF Fits, TaskRecord, Pcs
<1>3. Fits(t, d, cache, warm, envrc)
  BY <1>1, <1>2 DEF Fits, InGet, Register
<1>4. QED
  BY <1>1, <1>3, OneMoves DEF Register

LEMMA CommandEndsKeeps == ASSUME IInv, NEW t \in Tasks, CommandEnds(t) PROVE IInv'
<1>1. Fits(t, Idle, cache, warm, envrc)
  BY IdleFits DEF IInv, Entries
<1>2. QED
  BY <1>1, OneMoves DEF CommandEnds

LEMMA JoinedKeeps == ASSUME IInv, NEW t \in Tasks, Joined(t) PROVE IInv'
<1>1. Fits(t, Idle, cache, warm, envrc) /\ Fits(t, At("warm", "none", 0), cache, warm, envrc)
  BY IdleFits DEF IInv, Entries
<1>2. PICK d \in {Idle, At("warm", "none", 0)} : task' = [task EXCEPT ![t] = d]
  BY DEF Joined
<1>3. Fits(t, d, cache, warm, envrc)
  BY <1>1, <1>2
<1>4. QED
  BY <1>2, <1>3, OneMoves DEF Joined

LEMMA AskReadyKeeps == ASSUME IInv, NEW t \in Tasks, AskReady(t) PROVE IInv'
<1>1. PICK d \in {[task[t] EXCEPT !.pc = "watch", !.on = warm.by], [task[t] EXCEPT !.pc = "run"]} :
         task' = [task EXCEPT ![t] = d]
  BY DEF AskReady, IInv
<1>2. Fits(t, task[t], cache, warm, envrc) /\ warm.by \in Tasks \cup {Nobody} /\ task[t].pc = "ready"
  BY DEF IInv, Entries, WarmRecord, AskReady
<1>3. /\ d \in TaskRecord /\ d.pc \in {"watch", "run"} /\ d.use = task[t].use
      /\ d.fp = task[t].fp /\ d.env = task[t].env
  BY <1>1, <1>2 DEF Fits, TaskRecord, Pcs
<1>4. Fits(t, d, cache, warm, envrc)
  BY <1>2, <1>3 DEF Fits, InGet
<1>5. QED
  BY <1>1, <1>4, OneMoves DEF AskReady

LEMMA WatchedKeeps == ASSUME IInv, NEW t \in Tasks, Watched(t) PROVE IInv'
<1>1. PICK p \in {"run", "ready"} : task' = [task EXCEPT ![t].pc = p]
  BY DEF Watched
<1> DEFINE d == [task[t] EXCEPT !.pc = p]
<1>2. task' = [task EXCEPT ![t] = d] /\ Fits(t, task[t], cache, warm, envrc) /\ task[t].pc = "watch"
  BY <1>1 DEF IInv, Watched
<1>3. d \in TaskRecord /\ d.pc = p /\ d.use = task[t].use /\ d.fp = task[t].fp /\ d.env = task[t].env
  BY <1>1, <1>2 DEF Fits, TaskRecord, Pcs
<1>4. Fits(t, d, cache, warm, envrc)
  BY <1>1, <1>2, <1>3 DEF Fits, InGet
<1>5. QED
  BY <1>2, <1>4, OneMoves DEF Watched

\* A step that moves one task to a record that fits, while the other tasks' entries
\* stay or do not concern them.
LEMMA OthersStand ==
  ASSUME IInv, NEW t \in Tasks, NEW d, task' = [task EXCEPT ![t] = d],
         Fits(t, d, cache', warm', envrc'), Entries', envrc <= envrc',
         \A u \in Tasks \ {t} : /\ task[u].pc \in {"evaluate", "store"} => cache' = cache
                                /\ task[u].use = "warm" => warm' = warm
  PROVE  IInv'
<1>1. \A u \in Tasks : task'[u] = IF u = t THEN d ELSE task[u]
  BY DEF IInv
<1>2. task' = [u \in Tasks |-> task'[u]]
  BY DEF IInv
<1>3. ASSUME NEW u \in Tasks PROVE Fits(u, task'[u], cache', warm', envrc')
  <2>1. Fits(u, task[u], cache, warm, envrc) /\ envrc \in Versions /\ envrc' \in Versions
    BY DEF IInv, Entries
  <2>2. CASE u # t
    <3>1. Fits(u, task[u], cache', warm', envrc')
      BY <2>1, <2>2, StillFits, Distinct DEF Versions
    <3>2. QED
      BY <1>1, <2>2, <3>1
  <2>3. QED
    BY <1>1, <2>2
<1>4. QED
  BY <1>2, <1>3 DEF IInv

LEMMA AllowKeeps == ASSUME IInv, NEW t \in Tasks, Allow(t) PROVE IInv'
<1>1. Fits(t, task[t], cache, warm, envrc) /\ Entries /\ task[t].pc = "allow"
  BY DEF IInv, Allow
<1>2. task[t].use \in {"again", "provision"}
  BY <1>1 DEF Fits
<1>3. Fits(t, Enter(task[t].use), cache, warm, envrc)
  BY <1>1, <1>2, IdleFits DEF Entries
<1>4. Entries'
  BY <1>1 DEF Allow, Entries, CacheRecord, WarmRecord, Versions
<1>5. envrc <= envrc' /\ UNCHANGED <<envrc, cache, warm>> /\ task' = [task EXCEPT ![t] = Enter(task[t].use)]
  BY <1>1, Distinct DEF Allow, Entries, Versions
<1>6. Fits(t, Enter(task[t].use), cache', warm', envrc')
  BY <1>3, <1>5
<1>7. QED
  BY <1>4, <1>5, <1>6, OthersStand

LEMMA WarmClaimKeeps == ASSUME IInv, NEW t \in Tasks, WarmClaim(t) PROVE IInv'
<1>1. Fits(t, task[t], cache, warm, envrc) /\ Entries /\ task[t].pc = "warm"
  BY DEF IInv, WarmClaim
<1>2. CASE LiveRun
  <2> DEFINE d == [task[t] EXCEPT !.pc = "join", !.on = warm.by]
  <2>1. task' = [task EXCEPT ![t] = d] /\ UNCHANGED <<envrc, approved, cache, warm, asks>>
    BY <1>2 DEF WarmClaim, IInv
  <2>2. d \in TaskRecord /\ d.pc = "join" /\ d.use = task[t].use /\ d.fp = task[t].fp /\ d.env = task[t].env
    BY <1>1 DEF Fits, TaskRecord, Pcs, Entries, WarmRecord
  <2>3. Fits(t, d, cache, warm, envrc)
    BY <1>1, <2>2 DEF Fits, InGet
  <2>4. QED
    BY <2>1, <2>3, OneMoves
<1>3. CASE ~LiveRun
  <2>1. /\ task' = [task EXCEPT ![t] = Enter("warm")] /\ warm' = Warming(t)
        /\ UNCHANGED <<envrc, approved, cache, asks>>
    BY <1>3 DEF WarmClaim
  <2>2. Fits(t, Enter("warm"), cache', warm', envrc')
    BY <1>1, <2>1, IdleFits DEF Entries
  <2>3. ASSUME NEW u \in Tasks PROVE task[u].use # "warm"
    <3>1. Fits(u, task[u], cache, warm, envrc)
      BY DEF IInv
    <3>2. QED
      BY <1>3, <3>1, Distinct DEF Fits, LiveRun, Warming
  <2>4. Entries' /\ envrc <= envrc'
    BY <1>1, <2>1, Distinct DEF Entries, CacheRecord, WarmRecord, Versions, Warming
  <2>5. QED
    BY <2>1, <2>2, <2>3, <2>4, OthersStand
<1>4. QED
  BY <1>2, <1>3

LEMMA BuildEndsKeeps == ASSUME IInv, NEW t \in Tasks, BuildEnds(t) PROVE IInv'
<1>1. Fits(t, task[t], cache, warm, envrc) /\ Entries /\ task[t].pc = "build"
  BY DEF IInv, BuildEnds
<1>2. /\ task' = [u \in Tasks |-> IF u = t THEN Idle ELSE Released(t, u)]
      /\ UNCHANGED <<envrc, approved, cache, asks>>
      /\ warm' \in {Warmed("warmed"), Warmed("cold")}
  BY DEF BuildEnds
<1>3. Fits(t, Idle, cache, warm', envrc)
  BY <1>1, IdleFits DEF Entries
<1>4. ASSUME NEW u \in Tasks, u # t, task[t].use = "warm" PROVE Fits(u, Released(t, u), cache, warm', envrc)
  <2>1. Fits(u, task[u], cache, warm, envrc) /\ task[u].use # "warm"
    BY <1>1, <1>4 DEF IInv, Fits, Warming
  <2>2. QED
    BY <1>1, <2>1, StillFits, Distinct DEF Entries, Versions
<1>5. Entries'
  BY <1>1, <1>2 DEF Entries, CacheRecord, WarmRecord, Versions, Warmed
<1>6. task[t].use = "warm"
  BY <1>1 DEF Fits
<1>7. QED
  BY <1>2, <1>3, <1>4, <1>5, <1>6 DEF IInv

\* A step that moves no task.
LEMMA NobodyMoves ==
  ASSUME IInv, task' = task, Entries', envrc <= envrc',
         \A u \in Tasks : /\ task[u].pc \in {"evaluate", "store"} => cache' = cache
                          /\ task[u].use = "warm" => warm' = warm
  PROVE  IInv'
<1>1. ASSUME NEW u \in Tasks PROVE Fits(u, task[u], cache', warm', envrc')
  <2>1. Fits(u, task[u], cache, warm, envrc) /\ envrc \in Versions /\ envrc' \in Versions
    BY DEF IInv, Entries
  <2>2. QED
    BY <2>1, StillFits, Distinct DEF Versions
<1>2. QED
  BY <1>1 DEF IInv

LEMMA TimeoutExpiresKeeps == ASSUME IInv, TimeoutExpires PROVE IInv'
<1>1. Entries /\ cache.kind = "failed"
  BY DEF IInv, TimeoutExpires
<1>2. Entries' /\ envrc <= envrc'
  BY <1>1, Distinct DEF TimeoutExpires, Entries, CacheRecord, WarmRecord, Versions, Empty, Entry, NotAsked
<1>3. ASSUME NEW u \in Tasks PROVE task[u].pc \notin {"evaluate", "store"}
  BY <1>1 DEF IInv, Fits
<1>4. QED
  BY <1>2, <1>3, NobodyMoves DEF TimeoutExpires

LEMMA EditKeeps == ASSUME IInv, Edit PROVE IInv'
<1>1. Entries
  BY DEF IInv
<1>2. Entries' /\ envrc <= envrc'
  BY <1>1, Distinct DEF Edit, Entries, CacheRecord, WarmRecord, Versions
<1>3. QED
  BY <1>2, NobodyMoves DEF Edit

LEMMA PrepareKeeps == ASSUME IInv, NEW j \in Jobs, Prepare(j) PROVE IInv'
<1>1. Entries /\ j \in Tasks
  BY DEF IInv, Tasks
<1>2. /\ task' = [task EXCEPT ![j] = At("allow", "provision", 0)]
      /\ UNCHANGED <<envrc, approved, cache, warm>>
  BY DEF Prepare
<1>3. Fits(j, At("allow", "provision", 0), cache', warm', envrc')
  BY <1>1, <1>2, IdleFits DEF Entries
<1>4. Entries' /\ envrc <= envrc'
  BY <1>1, <1>2, Distinct DEF Prepare, Entries, CacheRecord, WarmRecord, Versions
<1>5. QED
  BY <1>1, <1>2, <1>3, <1>4, OthersStand

LEMMA StartRoundKeeps == ASSUME IInv, StartRound PROVE IInv'
<1>1. PICK execs, commits \in SUBSET Slots :
         task' = [t \in Tasks |-> CASE t \in execs -> Enter("exec")
                                    [] t \in commits -> At("ready", "commit", 0)
                                    [] OTHER -> task[t]]
  BY DEF StartRound
<1>2. UNCHANGED <<envrc, approved, cache, warm>> /\ Entries
  BY DEF StartRound, IInv
<1>3. ASSUME NEW u \in Tasks PROVE Fits(u, task'[u], cache, warm, envrc)
  <2>1. task'[u] \in {Enter("exec"), At("ready", "commit", 0), task[u]}
    BY <1>1
  <2>2. QED
    BY <1>2, <2>1, IdleFits DEF IInv, Entries
<1>4. Entries'
  BY <1>2, Distinct DEF StartRound, Entries, CacheRecord, WarmRecord, Versions
<1>5. task' = [u \in Tasks |-> task'[u]]
  BY <1>1
<1>6. QED
  BY <1>2, <1>3, <1>4, <1>5 DEF IInv

\* Dropped tasks leave their entries without an owner; no other task owned those.
LEMMA DropTasksKeeps == ASSUME IInv, NEW gone \in SUBSET Tasks, DropTasks(gone) PROVE IInv'
<1>1. Entries
  BY DEF IInv
<1>2. /\ UNCHANGED <<envrc, approved, asks>>
      /\ cache' = cache \/ cache' = [cache EXCEPT !.by = Nobody]
      /\ warm' = warm \/ warm' = [warm EXCEPT !.by = Nobody]
      /\ cache.by \notin gone => cache' = cache
      /\ warm.by \notin gone => warm' = warm
  BY DEF DropTasks, Without
<1>3. Entries'
  BY <1>1, <1>2 DEF Entries, CacheRecord, WarmRecord, Versions
<1>4. ASSUME NEW u \in Tasks PROVE Fits(u, task'[u], cache', warm', envrc')
  <2>1. Fits(u, task[u], cache, warm, envrc)
    BY DEF IInv
  <2>2. CASE u \in gone
    <3>1. task'[u] = Idle
      BY <2>2 DEF DropTasks
    <3>2. QED
      BY <1>1, <1>2, <3>1, IdleFits DEF Entries
  <2>3. CASE u \notin gone
    <3>1. task'[u] = task[u] \/ task'[u] = [task[u] EXCEPT !.on = Nobody]
      BY <2>3 DEF DropTasks
    <3>2. task[u].pc \in {"evaluate", "store"} => cache' = cache
      BY <1>2, <2>1, <2>3 DEF Fits
    <3>3. task[u].use = "warm" => warm' = warm
      <4>1. task[u].use = "warm" => warm.by = u
        BY <2>1 DEF Fits, Warming
      <4>2. QED
        BY <1>2, <2>3, <4>1
    <3>4. Fits(u, task[u], cache', warm', envrc')
      <4>1. envrc \in Versions /\ envrc \in Int /\ envrc' = envrc /\ envrc <= envrc
        BY <1>1, <1>2, Distinct DEF Entries, Versions
      <4>2. Fits(u, task[u], cache', warm', envrc)
        BY <2>1, <3>2, <3>3, <4>1, StillFits
      <4>3. QED
        BY <4>1, <4>2
    <3>5. ASSUME NEW d, d = [task[u] EXCEPT !.on = Nobody] PROVE Fits(u, d, cache', warm', envrc')
      <4>1. /\ d \in TaskRecord /\ d.pc = task[u].pc /\ d.use = task[u].use
            /\ d.fp = task[u].fp /\ d.env = task[u].env
        BY <3>4, <3>5 DEF Fits, TaskRecord
      <4>2. QED
        BY <3>4, <4>1 DEF Fits
    <3>6. QED
      BY <3>1, <3>4, <3>5
  <2>4. QED
    BY <2>2, <2>3
<1>5. task' = [u \in Tasks |-> task'[u]]
  BY DEF DropTasks
<1>6. QED
  BY <1>3, <1>4, <1>5 DEF IInv

-----------------------------------------------------------------------------
(* The theorems.                                                           *)

LEMMA NextKeeps == IInv /\ [ShellNext]_shellVars => IInv'
<1> SUFFICES ASSUME IInv, [ShellNext]_shellVars PROVE IInv'
  OBVIOUS
<1>1. ASSUME NEW t \in Tasks, TaskStep(t) PROVE IInv'
  BY <1>1, LookKeeps, ClaimKeeps, RegisterKeeps, EvaluateKeeps, StoreKeeps, AllowKeeps, CommandEndsKeeps,
     WarmClaimKeeps, JoinedKeeps, BuildEndsKeeps, AskReadyKeeps, WatchedKeeps DEF TaskStep
<1>2. ASSUME NEW j \in Jobs, Prepare(j) \/ JobDies(j) PROVE IInv'
  BY <1>2, PrepareKeeps, DropTasksKeeps DEF JobDies, Tasks
<1>3. CASE StartRound
  BY <1>3, StartRoundKeeps
<1>4. CASE CancelRound
  BY <1>4, DropTasksKeeps DEF CancelRound, Tasks
<1>5. CASE TimeoutExpires
  BY <1>5, TimeoutExpiresKeeps
<1>6. CASE Edit
  BY <1>6, EditKeeps
<1>7. CASE UNCHANGED shellVars
  BY <1>7 DEF shellVars, IInv, Entries, CacheRecord, WarmRecord, Versions
<1>8. QED
  BY <1>1, <1>2, <1>3, <1>4, <1>5, <1>6, <1>7 DEF ShellNext, SomeTaskStep

\* The invariant the other theorems rest on: every task's record fits the entries,
\* in every order in which calls, warms, deaths and cancelled turns can meet.
THEOREM DevshellInvariance == ShellSpec => []IInv
<1>1. QED
  BY InitHolds, NextKeeps, PTL DEF ShellSpec

LEMMA IInvTypes == IInv => ShellTypeOK
<1> SUFFICES ASSUME IInv PROVE ShellTypeOK
  OBVIOUS
<1>1. \A t \in Tasks : task[t] \in TaskRecord
  BY DEF IInv, Fits
<1>2. task \in [Tasks -> TaskRecord]
  BY <1>1 DEF IInv
<1>3. QED
  BY <1>2 DEF IInv, Entries, ShellTypeOK, TaskRecord, CacheRecord, WarmRecord, Pcs

\* Type correctness of the cache, the warm entry and the tasks.
THEOREM DevshellTypes == ShellSpec => []ShellTypeOK
<1>1. QED
  BY DevshellInvariance, IInvTypes, PTL

LEMMA IInvOne == IInv => OneAtATime
<1> SUFFICES ASSUME IInv PROVE OneAtATime
  OBVIOUS
<1>1. OneEvaluation
  BY DEF IInv, Fits, OneEvaluation
<1>2. OneBuild
  BY DEF IInv, Fits, OneBuild, Warming
<1>3. QED
  BY <1>1, <1>2 DEF OneAtATime

\* Never two evaluations of a directory, never two warms of it: the second look under
\* the write lock and the warm entry's owner are enough, dropped futures included.
THEOREM OneAtATimeAlways == ShellSpec => []OneAtATime
<1>1. QED
  BY DevshellInvariance, IInvOne, PTL

LEMMA IInvFresh == IInv => FreshDevshell
<1> SUFFICES ASSUME IInv, NEW t \in Tasks, task[t].pc \in {"run", "build"}, task[t].env >= 0
    PROVE  task[t].env >= task[t].fp
  BY DEF FreshDevshell
<1>1. QED
  BY DEF IInv, Fits

\* No command runs in a devshell older than the files were when it asked: the
\* fingerprint is taken before the evaluation reads them.
THEOREM FreshAlways == ShellSpec => []FreshDevshell
<1>1. QED
  BY DevshellInvariance, IInvFresh, PTL

-----------------------------------------------------------------------------
(* Who waits, waits for somebody.                                          *)

Evaluating(t) == task[t].pc \in {"evaluate", "store"}
Warms(t) == task[t].use = "warm"

\* A call or warm that waits for another task waits for one that is at it: the
\* evaluation that will notify it, or the warm that holds the sender of its channel.
Attended == \A t \in Tasks :
    task[t].on # Nobody =>
        \/ task[t].pc \in {"seen", "waiting"} /\ Evaluating(task[t].on)
        \/ task[t].pc \in {"join", "watch"} /\ Warms(task[t].on)

\* What the record `d` of a waiting task means beside the two entries, and where
\* a warm stands.
Waits(d, c, w) ==
    /\ d.on # Nobody => \/ d.pc \in {"seen", "waiting"} /\ c.kind = "resolving" /\ c.by = d.on
                        \/ d.pc \in {"join", "watch"} /\ w.kind = "warming" /\ w.by = d.on
    /\ d.use = "warm" => d.pc \in InGet \cup {"build"}

\* Whom an entry names is at the work it stands for.
Owned ==
    /\ cache.kind = "resolving" /\ cache.by # Nobody => Evaluating(cache.by)
    /\ warm.kind = "warming" /\ warm.by # Nobody => Warms(warm.by)

Awaiting == Owned /\ \A t \in Tasks : Waits(task[t], cache, warm)

LEMMA FitsAt == ASSUME IInv, NEW t \in Tasks
  PROVE  /\ Fits(t, task[t], cache, warm, envrc) /\ task[t] \in TaskRecord
         /\ cache \in CacheRecord /\ warm \in WarmRecord
  BY DEF IInv, Fits, Entries

\* One task moves, beside entries that stay.
LEMMA MoverWaits ==
  ASSUME IInv, Awaiting, NEW t \in Tasks, NEW d, Waits(d, cache, warm),
         task' = [task EXCEPT ![t] = d], UNCHANGED <<cache, warm>>,
         Evaluating(t) => d.pc \in {"evaluate", "store"},
         Warms(t) => d.use = "warm"
  PROVE  Awaiting'
<1>1. \A u \in Tasks : task'[u] = IF u = t THEN d ELSE task[u]
  BY DEF IInv
<1>2. \A u \in Tasks : Waits(task'[u], cache, warm)
  BY <1>1 DEF Awaiting
<1>3. cache \in CacheRecord /\ warm \in WarmRecord
  BY FitsAt
<1>4. \A u \in Tasks : (Evaluating(u) => Evaluating(u)') /\ (Warms(u) => Warms(u)')
  BY <1>1 DEF Evaluating, Warms
<1>5. Owned'
  BY <1>3, <1>4 DEF Awaiting, Owned, CacheRecord, WarmRecord, Evaluating, Warms
<1>6. QED
  BY <1>2, <1>5 DEF Awaiting

\* An answer of get: the task waits for nobody, and a warm goes on to build.
LEMMA AfterWaits ==
  ASSUME IInv, Awaiting, NEW t \in Tasks, task[t].pc \in InGet \ {"seen", "waiting"},
         NEW r, NEW d \in After(t, r), NEW c, NEW w
  PROVE  Waits(d, c, w) /\ (Warms(t) => d.use = "warm")
<1>1. task[t] \in TaskRecord /\ task[t].on = Nobody /\ task[t].use \in Asking
  BY FitsAt DEF Awaiting, Waits, InGet, Fits
<1>2. \/ d = [task[t] EXCEPT !.pc = "run", !.env = r] /\ task[t].use # "warm"
      \/ d = [task[t] EXCEPT !.pc = "allow", !.use = "again"] /\ task[t].use = "exec"
      \/ d = Idle /\ task[t].use # "warm"
      \/ d = At("warm", "none", 0) /\ task[t].use # "warm"
      \/ d = [task[t] EXCEPT !.pc = "build", !.env = r] /\ task[t].use = "warm"
  BY <1>1 DEF After, Asking
<1>3. d.on = Nobody /\ (d.use = "warm" => d.pc = "build") /\ (task[t].use = "warm" => d.use = "warm")
  <2>1. Idle.on = Nobody /\ Idle.use = "none" /\ At("warm", "none", 0).on = Nobody /\ At("warm", "none", 0).use = "none"
    BY DEF Idle, At
  <2>2. CASE d = Idle \/ d = At("warm", "none", 0)
    <3>1. d # [task[t] EXCEPT !.pc = "build", !.env = r] \/ task[t].use # "warm"
      BY <1>1, <2>1, <2>2 DEF TaskRecord
    <3>2. QED
      BY <1>1, <1>2, <2>1, <2>2, <3>1
  <2>3. CASE ~(d = Idle \/ d = At("warm", "none", 0))
    BY <1>1, <1>2, <2>3 DEF TaskRecord
  <2>4. QED
    BY <2>2, <2>3
<1>4. QED
  BY <1>3 DEF Waits, Warms

LEMMA LookedWaits ==
  ASSUME IInv, Awaiting, NEW t \in Tasks, task[t].pc \in {"look", "claim"},
         NEW d \in Looked(t, "claim")
  PROVE  Waits(d, cache, warm) /\ (Warms(t) => d.use = "warm")
<1>1. task[t] \in TaskRecord /\ Waits(task[t], cache, warm) /\ task[t].pc \in InGet \ {"seen", "waiting"}
  BY FitsAt DEF Awaiting, InGet
<1>2. CASE Hit(t)
  BY <1>1, <1>2, AfterWaits DEF Looked
<1>3. CASE ~Hit(t) /\ cache.kind = "resolving"
  <2>1. d = [task[t] EXCEPT !.pc = "seen", !.on = cache.by]
    BY <1>3 DEF Looked
  <2>2. d.pc = "seen" /\ d.on = cache.by /\ d.use = task[t].use
    BY <1>1, <2>1 DEF TaskRecord
  <2>3. QED
    BY <1>3, <2>2 DEF Waits, Warms, InGet
<1>4. CASE ~Hit(t) /\ cache.kind # "resolving"
  <2>1. d = [task[t] EXCEPT !.pc = "claim"]
    BY <1>4 DEF Looked
  <2>2. d.pc = "claim" /\ d.on = task[t].on /\ d.use = task[t].use
    BY <1>1, <2>1 DEF TaskRecord
  <2>3. QED
    BY <1>1, <2>2 DEF Waits, Warms, InGet
<1>5. QED
  BY <1>2, <1>3, <1>4

LEMMA LookAwaits == ASSUME IInv, Awaiting, NEW t \in Tasks, Look(t) PROVE Awaiting'
<1>1. PICK d \in Looked(t, "claim") : task' = [task EXCEPT ![t] = d]
  BY DEF Look
<1>2. Waits(d, cache, warm) /\ (Warms(t) => d.use = "warm") /\ ~Evaluating(t)
  BY LookedWaits DEF Look, Evaluating
<1>3. QED
  BY <1>1, <1>2, MoverWaits DEF Look

\* Nobody waits for an entry that a claim replaces: it was not resolving.
LEMMA ClaimAwaits == ASSUME IInv, Awaiting, NEW t \in Tasks, Claim(t) PROVE Awaiting'
<1>1. CASE ~Missed(t)
  <2>1. PICK d \in Looked(t, "evaluate") : task' = [task EXCEPT ![t] = d]
    BY <1>1 DEF Claim
  <2>2. d \in Looked(t, "claim")
    BY <1>1 DEF Looked, Missed
  <2>3. Waits(d, cache, warm) /\ (Warms(t) => d.use = "warm") /\ ~Evaluating(t)
    BY <2>2, LookedWaits DEF Claim, Evaluating
  <2>4. QED
    BY <1>1, <2>1, <2>3, MoverWaits DEF Claim
<1>2. CASE Missed(t)
  <2> DEFINE d == [task[t] EXCEPT !.pc = "evaluate"]
  <2>1. task' = [task EXCEPT ![t] = d] /\ cache' = Resolving(t) /\ warm' = warm /\ task[t].pc = "claim"
    BY <1>2 DEF Claim
  <2>2. d.pc = "evaluate" /\ d.on = task[t].on /\ d.use = task[t].use
    BY FitsAt DEF TaskRecord
  <2>3. cache'.kind = "resolving" /\ cache'.by = t
    BY <2>1 DEF Resolving, Entry
  <2>4. \A u \in Tasks : task'[u] = IF u = t THEN d ELSE task[u]
    BY <2>1 DEF IInv
  <2>5. ASSUME NEW u \in Tasks PROVE Waits(task'[u], cache', warm)
    <3>1. Waits(task[u], cache, warm) /\ cache.kind # "resolving"
      BY <1>2 DEF Awaiting, Missed
    <3>2. CASE u = t
      BY <2>1, <2>2, <2>4, <3>1, <3>2 DEF Waits, InGet
    <3>3. CASE u # t
      BY <2>4, <3>1, <3>3 DEF Waits
    <3>4. QED
      BY <3>2, <3>3
  <2>6. \A u \in Tasks : Warms(u) => Warms(u)'
    BY <2>2, <2>4 DEF Warms
  <2>7. Evaluating(t)'
    BY <2>2, <2>4 DEF Evaluating
  <2>8. Owned'
    BY <2>1, <2>3, <2>6, <2>7, FitsAt DEF Awaiting, Owned, WarmRecord, Evaluating, Warms
  <2>9. QED
    BY <2>1, <2>5, <2>8 DEF Awaiting
<1>3. QED
  BY <1>1, <1>2

\* The steps of one task that leave both entries alone.
LEMMA PlainAwaits ==
  ASSUME IInv, Awaiting, NEW t \in Tasks,
         Register(t) \/ Evaluate(t) \/ Allow(t) \/ CommandEnds(t) \/ Joined(t) \/ AskReady(t) \/ Watched(t)
  PROVE  Awaiting'
<1>1. /\ task[t] \in TaskRecord /\ Waits(task[t], cache, warm)
      /\ Fits(t, task[t], cache, warm, envrc) /\ UNCHANGED <<cache, warm>>
  BY FitsAt DEF Awaiting, Register, Evaluate, Allow, CommandEnds, Joined, AskReady, Watched
<1>2. CASE Register(t)
  <2> DEFINE d == [task[t] EXCEPT !.pc = "waiting"]
  <2>1. task' = [task EXCEPT ![t] = d] /\ task[t].pc = "seen"
    BY <1>2 DEF Register
  <2>2. d.pc = "waiting" /\ d.on = task[t].on /\ d.use = task[t].use
    BY <1>1 DEF TaskRecord
  <2>3. Waits(d, cache, warm) /\ ~Evaluating(t) /\ (Warms(t) => d.use = "warm")
    BY <1>1, <2>1, <2>2 DEF Waits, InGet, Evaluating, Warms
  <2>4. QED
    BY <1>1, <2>1, <2>3, MoverWaits
<1>3. CASE Evaluate(t)
  <2>1. PICK r : task' = [task EXCEPT ![t].pc = "store", ![t].env = r]
    BY <1>3 DEF Evaluate
  <2> DEFINE d == [task[t] EXCEPT !.pc = "store", !.env = r]
  <2>2. task' = [task EXCEPT ![t] = d] /\ task[t].pc = "evaluate"
    BY <1>3, <2>1 DEF IInv, Evaluate
  <2>3. d.pc = "store" /\ d.on = task[t].on /\ d.use = task[t].use
    BY <1>1 DEF TaskRecord
  <2>4. Waits(d, cache, warm) /\ (Warms(t) => d.use = "warm")
    BY <1>1, <2>2, <2>3 DEF Waits, InGet, Warms
  <2>5. QED
    BY <1>1, <2>2, <2>3, <2>4, MoverWaits
<1>4. CASE Allow(t) \/ CommandEnds(t) \/ Joined(t)
  <2>1. PICK d \in {Enter(task[t].use), Idle, At("warm", "none", 0)} :
           task' = [task EXCEPT ![t] = d] /\ task[t].pc \in {"allow", "run", "join"}
    <3>1. CASE Allow(t)
      BY <3>1 DEF Allow
    <3>2. CASE CommandEnds(t)
      BY <3>2 DEF CommandEnds
    <3>3. CASE Joined(t)
      BY <3>3 DEF Joined
    <3>4. QED
      BY <1>4, <3>1, <3>2, <3>3
  <2>2. ~Evaluating(t) /\ ~Warms(t)
    BY <1>1, <2>1 DEF Evaluating, Warms, Waits, InGet
  <2>3. Waits(d, cache, warm)
    BY <2>1 DEF Waits, Enter, Idle, At, InGet
  <2>4. QED
    BY <1>1, <2>1, <2>2, <2>3, MoverWaits
<1>5. CASE AskReady(t)
  <2>1. PICK d : /\ task' = [task EXCEPT ![t] = d]
                 /\ \/ d = [task[t] EXCEPT !.pc = "watch", !.on = warm.by] /\ warm.kind = "warming"
                    \/ d = [task[t] EXCEPT !.pc = "run"]
    BY <1>5 DEF AskReady, IInv
  <2>2. task[t].pc = "ready" /\ task[t].on = Nobody /\ task[t].use = "commit"
    BY <1>1, <1>5 DEF AskReady, Waits, Fits
  <2>3. /\ d.use = "commit"
        /\ \/ d.pc = "watch" /\ d.on = warm.by /\ warm.kind = "warming"
           \/ d.on = Nobody
    BY <1>1, <2>1, <2>2 DEF TaskRecord
  <2>4. Waits(d, cache, warm) /\ ~Evaluating(t) /\ ~Warms(t)
    BY <2>2, <2>3 DEF Waits, Evaluating, Warms
  <2>5. QED
    BY <1>1, <2>1, <2>4, MoverWaits
<1>6. CASE Watched(t)
  <2>1. PICK p \in {"run", "ready"} : task' = [task EXCEPT ![t].pc = p]
    BY <1>6 DEF Watched
  <2> DEFINE d == [task[t] EXCEPT !.pc = p]
  <2>2. task' = [task EXCEPT ![t] = d] /\ task[t].pc = "watch" /\ task[t].on = Nobody /\ task[t].use = "commit"
    BY <1>1, <1>6, <2>1 DEF Watched, Fits
  <2>3. d.on = Nobody /\ d.use = "commit"
    BY <1>1, <2>2 DEF TaskRecord
  <2>4. Waits(d, cache, warm) /\ ~Evaluating(t) /\ ~Warms(t)
    BY <2>2, <2>3 DEF Waits, Evaluating, Warms
  <2>5. QED
    BY <1>1, <2>2, <2>4, MoverWaits
<1>7. QED
  BY <1>2, <1>3, <1>4, <1>5, <1>6

\* notify_waiters reaches everybody who waits for `t`, and nobody else.
LEMMA StoreAwaits == ASSUME IInv, Awaiting, NEW t \in Tasks, Store(t) PROVE Awaiting'
<1>1. PICK d \in After(t, task[t].env) :
         task' = [u \in Tasks |-> IF u = t THEN d ELSE Woken(t, u)]
  BY DEF Store
<1>2. /\ task[t].pc = "store" /\ cache.kind = "resolving" /\ cache.by = t /\ warm' = warm
      /\ cache'.kind # "resolving"
  BY FitsAt DEF Store, Fits, Kept, Ready, TimedOut, Empty, Entry
<1>3. Waits(d, cache', warm) /\ (Warms(t) => d.use = "warm")
  BY <1>2, AfterWaits DEF InGet
<1>4. ASSUME NEW u \in Tasks, u # t
      PROVE  Waits(Woken(t, u), cache', warm) /\ Woken(t, u).use = task[u].use
  <2>1. Waits(task[u], cache, warm) /\ task[u] \in TaskRecord
    BY FitsAt DEF Awaiting
  <2>2. CASE task[u].on = t /\ task[u].pc \in {"seen", "waiting"}
    <3>1. PICK p \in {"look", "seen"} : Woken(t, u) = [task[u] EXCEPT !.pc = p, !.on = Nobody]
      <4>1. task[u].pc = "seen" => [task[u] EXCEPT !.on = Nobody] = [task[u] EXCEPT !.pc = "seen", !.on = Nobody]
        BY <2>1 DEF TaskRecord
      <4>2. QED
        BY <2>2, <4>1 DEF Woken
    <3>2. Woken(t, u).on = Nobody /\ Woken(t, u).pc \in InGet /\ Woken(t, u).use = task[u].use
      BY <2>1, <3>1 DEF TaskRecord, InGet
    <3>3. QED
      BY <3>2 DEF Waits
  <2>3. CASE ~(task[u].on = t /\ task[u].pc \in {"seen", "waiting"})
    <3>1. Woken(t, u) = task[u]
      BY <2>3 DEF Woken
    <3>2. QED
      BY <1>2, <2>1, <2>3, <3>1 DEF Waits
  <2>4. QED
    BY <2>2, <2>3
<1>5. \A u \in Tasks : Waits(task'[u], cache', warm) /\ (Warms(u) => task'[u].use = "warm")
  BY <1>1, <1>3, <1>4 DEF Warms
<1>6. Owned'
  BY <1>2, <1>5, FitsAt DEF Awaiting, Owned, WarmRecord, Warms, Evaluating
<1>7. QED
  BY <1>2, <1>5, <1>6 DEF Awaiting

\* A live warm is joined; a claim replaces an entry nobody waits for.
LEMMA WarmClaimAwaits == ASSUME IInv, Awaiting, NEW t \in Tasks, WarmClaim(t) PROVE Awaiting'
<1>1. /\ task[t] \in TaskRecord /\ Waits(task[t], cache, warm) /\ task[t].pc = "warm"
      /\ task[t].use = "none" /\ cache' = cache /\ ~Evaluating(t) /\ ~Warms(t)
  BY FitsAt DEF Awaiting, WarmClaim, Fits, Evaluating, Warms
<1>2. CASE LiveRun
  <2> DEFINE d == [task[t] EXCEPT !.pc = "join", !.on = warm.by]
  <2>1. task' = [task EXCEPT ![t] = d] /\ warm' = warm
    BY <1>2 DEF WarmClaim, IInv
  <2>2. d.pc = "join" /\ d.on = warm.by /\ d.use = "none"
    BY <1>1 DEF TaskRecord
  <2>3. Waits(d, cache, warm)
    BY <1>2, <2>2 DEF Waits, LiveRun
  <2>4. QED
    BY <1>1, <2>1, <2>3, MoverWaits
<1>3. CASE ~LiveRun
  <2>1. task' = [task EXCEPT ![t] = Enter("warm")] /\ warm'.kind = "warming" /\ warm'.by = t
    BY <1>3 DEF WarmClaim, Warming
  <2>2. \A u \in Tasks : task'[u] = IF u = t THEN Enter("warm") ELSE task[u]
    BY <2>1 DEF IInv
  <2>3. Enter("warm").on = Nobody /\ Enter("warm").pc = "look" /\ Enter("warm").use = "warm"
    BY DEF Enter, At
  <2>4. ASSUME NEW u \in Tasks PROVE Waits(task'[u], cache, warm')
    <3>1. CASE u = t
      BY <2>2, <2>3, <3>1 DEF Waits, InGet
    <3>2. CASE u # t
      <4>1. Waits(task[u], cache, warm) /\ task'[u] = task[u]
        BY <2>2, <3>2 DEF Awaiting
      <4>2. QED
        BY <1>3, <4>1 DEF Waits, LiveRun
    <3>3. QED
      BY <3>1, <3>2
  <2>5. Owned'
    <3>1. \A u \in Tasks : Evaluating(u) => Evaluating(u)'
      BY <1>1, <2>2 DEF Evaluating
    <3>2. Warms(t)'
      BY <2>2, <2>3 DEF Warms
    <3>3. QED
      BY <1>1, <2>1, <3>1, <3>2, FitsAt DEF Awaiting, Owned, CacheRecord, Evaluating, Warms
  <2>6. QED
    BY <1>1, <2>4, <2>5 DEF Awaiting
<1>4. QED
  BY <1>2, <1>3

\* The sender goes with the run: everybody who joined or watches it is released.
LEMMA BuildEndsAwaits == ASSUME IInv, Awaiting, NEW t \in Tasks, BuildEnds(t) PROVE Awaiting'
<1>1. /\ task[t].pc = "build" /\ warm.by = t /\ cache' = cache
      /\ warm'.kind # "warming"
  BY FitsAt DEF BuildEnds, Fits, Warming, Warmed
<1>2. \A u \in Tasks : task'[u] = IF u = t THEN Idle ELSE Released(t, u)
  BY DEF BuildEnds
<1>3. ASSUME NEW u \in Tasks, u # t
      PROVE  Waits(Released(t, u), cache, warm') /\ Released(t, u).pc = task[u].pc
  <2>1. Waits(task[u], cache, warm) /\ task[u] \in TaskRecord
    BY FitsAt DEF Awaiting
  <2>2. CASE task[u].pc \in {"join", "watch"} /\ task[u].on = t
    <3>1. Released(t, u) = [task[u] EXCEPT !.on = Nobody]
      BY <2>2 DEF Released
    <3>2. /\ Released(t, u).on = Nobody /\ Released(t, u).pc = task[u].pc
          /\ Released(t, u).use = task[u].use
      BY <2>1, <3>1 DEF TaskRecord
    <3>3. QED
      BY <2>1, <3>2 DEF Waits
  <2>3. CASE ~(task[u].pc \in {"join", "watch"} /\ task[u].on = t)
    <3>1. Released(t, u) = task[u]
      BY <2>3 DEF Released
    <3>2. QED
      BY <1>1, <2>1, <2>3, <3>1 DEF Waits
  <2>4. QED
    BY <2>2, <2>3
<1>4. Waits(Idle, cache, warm')
  BY DEF Waits, Idle, At
<1>5. \A u \in Tasks : Waits(task'[u], cache, warm') /\ (Evaluating(u) => Evaluating(u)')
  BY <1>1, <1>2, <1>3, <1>4 DEF Evaluating
<1>6. Owned'
  BY <1>1, <1>5, FitsAt DEF Awaiting, Owned, CacheRecord, Evaluating, Warms
<1>7. QED
  BY <1>1, <1>5, <1>6 DEF Awaiting

\* Dropped tasks close their channels, and leave entries that name nobody.
LEMMA DropTasksAwaits ==
  ASSUME IInv, Awaiting, NEW gone \in SUBSET Tasks, DropTasks(gone)
  PROVE  Awaiting'
<1>1. cache \in CacheRecord /\ warm \in WarmRecord /\ Nobody \notin gone
  BY Distinct DEF IInv, Entries
<1>2. /\ cache'.kind = cache.kind /\ cache'.by = IF cache.by \in gone THEN Nobody ELSE cache.by
      /\ warm'.kind = warm.kind /\ warm'.by = IF warm.by \in gone THEN Nobody ELSE warm.by
  BY <1>1 DEF DropTasks, Without, CacheRecord, WarmRecord
<1>3. ASSUME NEW u \in Tasks
      PROVE  /\ Waits(task'[u], cache', warm')
             /\ u \notin gone => task'[u].pc = task[u].pc /\ task'[u].use = task[u].use
  <2>1. Waits(task[u], cache, warm) /\ task[u] \in TaskRecord
    BY FitsAt DEF Awaiting
  <2>2. CASE u \in gone
    <3>1. task'[u] = Idle
      BY <2>2 DEF DropTasks
    <3>2. QED
      BY <2>2, <3>1 DEF Waits, Idle, At
  <2>3. CASE u \notin gone /\ task[u].on \in gone
    <3>1. task'[u] = [task[u] EXCEPT !.on = Nobody]
      BY <2>3 DEF DropTasks
    <3>2. task'[u].on = Nobody /\ task'[u].pc = task[u].pc /\ task'[u].use = task[u].use
      BY <2>1, <3>1 DEF TaskRecord
    <3>3. QED
      BY <2>1, <3>2 DEF Waits
  <2>4. CASE u \notin gone /\ task[u].on \notin gone
    <3>1. task'[u] = task[u]
      BY <2>4 DEF DropTasks
    <3>2. QED
      BY <1>2, <2>1, <2>4, <3>1 DEF Waits
  <2>5. QED
    BY <2>2, <2>3, <2>4
<1>4. Owned'
  <2>1. \A u \in Tasks : u \notin gone => (Evaluating(u) => Evaluating(u)') /\ (Warms(u) => Warms(u)')
    BY <1>3 DEF Evaluating, Warms
  <2>2. QED
    BY <1>1, <1>2, <2>1 DEF Awaiting, Owned, CacheRecord, WarmRecord, Evaluating, Warms
<1>5. QED
  BY <1>3, <1>4 DEF Awaiting

\* A round begins with calls that were idle, a preparation with an idle job.
LEMMA BeginsAwait ==
  ASSUME IInv, Awaiting, StartRound \/ \E j \in Jobs : Prepare(j)
  PROVE  Awaiting'
<1>1. CASE StartRound
  <2>1. PICK execs, commits \in SUBSET Slots :
           task' = [t \in Tasks |-> CASE t \in execs -> Enter("exec")
                                      [] t \in commits -> At("ready", "commit", 0)
                                      [] OTHER -> task[t]]
    BY <1>1 DEF StartRound
  <2>2. UNCHANGED <<cache, warm>> /\ \A c \in Slots : task[c] = Idle
    BY <1>1 DEF StartRound
  <2>3. ASSUME NEW u \in Tasks
        PROVE  /\ Waits(task'[u], cache, warm)
               /\ (Evaluating(u) => task'[u] = task[u]) /\ (Warms(u) => task'[u] = task[u])
    <3>1. \/ task'[u] \in {Enter("exec"), At("ready", "commit", 0)} /\ task[u] = Idle
          \/ task'[u] = task[u]
      BY <2>1, <2>2
    <3>2. /\ Waits(Enter("exec"), cache, warm) /\ Waits(At("ready", "commit", 0), cache, warm)
          /\ Idle.pc = "idle" /\ Idle.use = "none"
      BY DEF Waits, Enter, Idle, At
    <3>3. QED
      BY <3>1, <3>2 DEF Awaiting, Evaluating, Warms
  <2>4. Owned'
    BY <2>2, <2>3, FitsAt DEF Awaiting, Owned, CacheRecord, WarmRecord, Evaluating, Warms, IInv, Entries
  <2>5. QED
    BY <2>2, <2>3, <2>4 DEF Awaiting
<1>2. ASSUME NEW j \in Jobs, Prepare(j) PROVE Awaiting'
  <2> DEFINE d == At("allow", "provision", 0)
  <2>1. task' = [task EXCEPT ![j] = d] /\ UNCHANGED <<cache, warm>> /\ task[j] = Idle /\ j \in Tasks
    BY <1>2 DEF Prepare, Tasks
  <2>2. Waits(d, cache, warm) /\ ~Evaluating(j) /\ ~Warms(j)
    BY <2>1 DEF Waits, At, Idle, Evaluating, Warms
  <2>3. QED
    BY <2>1, <2>2, MoverWaits
<1>3. QED
  BY <1>1, <1>2

LEMMA NextAwaits == IInv /\ Awaiting /\ [ShellNext]_shellVars => Awaiting'
<1> SUFFICES ASSUME IInv, Awaiting, [ShellNext]_shellVars PROVE Awaiting'
  OBVIOUS
<1>1. ASSUME NEW t \in Tasks, TaskStep(t) PROVE Awaiting'
  BY <1>1, LookAwaits, ClaimAwaits, PlainAwaits, StoreAwaits, WarmClaimAwaits, BuildEndsAwaits DEF TaskStep
<1>2. ASSUME NEW j \in Jobs, JobDies(j) PROVE Awaiting'
  BY <1>2, DropTasksAwaits DEF JobDies, Tasks
<1>3. CASE StartRound \/ \E j \in Jobs : Prepare(j)
  BY <1>3, BeginsAwait
<1>4. CASE CancelRound
  BY <1>4, DropTasksAwaits DEF CancelRound, Tasks
<1>5. CASE TimeoutExpires
  <2>1. cache.kind = "failed" /\ cache'.kind = "none" /\ UNCHANGED <<warm, task>>
    BY <1>5 DEF TimeoutExpires, Empty, Entry
  <2>2. QED
    BY <2>1 DEF Awaiting, Owned, Waits, Evaluating, Warms
<1>6. CASE Edit \/ UNCHANGED shellVars
  BY <1>6 DEF Edit, shellVars, Awaiting, Owned, Waits, Evaluating, Warms
<1>7. QED
  BY <1>1, <1>2, <1>3, <1>4, <1>5, <1>6 DEF ShellNext, SomeTaskStep

LEMMA InitAwaits == ShellInit => Awaiting
  BY DEF ShellInit, Awaiting, Owned, Waits, Idle, At, Empty, Entry, Cold

LEMMA AwaitingTells == IInv /\ Awaiting => Attended
<1> SUFFICES ASSUME IInv, Awaiting, NEW t \in Tasks, task[t].on # Nobody
    PROVE  \/ task[t].pc \in {"seen", "waiting"} /\ Evaluating(task[t].on)
           \/ task[t].pc \in {"join", "watch"} /\ Warms(task[t].on)
  BY DEF Attended
<1>1. Waits(task[t], cache, warm) /\ Owned
  BY DEF Awaiting
<1>2. QED
  BY <1>1 DEF Waits, Owned

\* Warmer::warm and ready, "Resolve when the run owning `rx` finishes", and get's
\* notify_waiters: however calls, warms, deaths and cancelled turns meet, a task that
\* waits for another waits for one that is evaluating, or warming, at that moment.  So
\* the only way to wait for nobody is the entry of a dropped evaluation.
THEOREM AttendedAlways == ShellSpec => []Attended
<1>1. QED
  BY DevshellInvariance, InitAwaits, NextAwaits, AwaitingTells, PTL DEF ShellSpec

-----------------------------------------------------------------------------
(* The preparation of a clone.                                             *)

(* The shapes of the checkout and of the preparations.                     *)

CloneSteps == GitSteps \cup {"off", "idle", "send", "probe", "remove", "clone", "cloning",
                             "discard"}
Preps == [at : CloneSteps, dirty : BOOLEAN]
Clones == [health : {"absent", "skeleton", "healthy"}, maker : SUBSET Preparers,
           head : {Detached} \cup Branches, at : SUBSET Works,
           refs : [Branches -> {NoCommit} \cup SUBSET Works],
           tree : SUBSET Works, staged : SUBSET Works]
Memories == [safe : SUBSET Works, faults : Nat]

CheckoutShapes ==
    /\ clone \in Clones
    /\ worktree \in {"absent", "standalone", "linked", "dangling"}
    /\ prep \in [Preparers -> Preps]
    /\ turn \subseteq Preparers \cup {Chat} /\ Cardinality(turn) <= 1
    /\ history \in Memories

(* What no clone has that is not one.                                      *)
Bare(c) ==
    /\ c.tree = {} /\ c.staged = {} /\ c.at = {} /\ c.head = Detached
    /\ \A b \in Branches : c.refs[b] = NoCommit

(* What git keeps true, and how the recovery branches are numbered.        *)
CheckoutTidy ==
    /\ clone.staged \subseteq clone.tree
    /\ clone.head # Detached => clone.refs[clone.head] = clone.at
    /\ clone.health # "healthy" => Bare(clone)
    /\ \E k \in 0 .. MaxParked : Parked = 1 .. k

(* Reviews never touch what a turn left.                                   *)
Roles ==
    \A p \in Reviews : prep[p].at \notin {"status", "head", "branch", "add", "commit",
                                          "detach", "clean"}

(* The works on branches; what of the works that must not be lost is there. *)
OnBranches == UNION {clone.refs[b] : b \in {c \in Branches : clone.refs[c] # NoCommit}}

Branched == history.safe \subseteq OnBranches
Based == history.safe \subseteq clone.at \cup OnBranches
Leaving == Branched \/ clone.head # Detached
Adding == \/ Branched
          \/ clone.head # Detached /\ history.safe \subseteq clone.staged \cup OnBranches

(* What a preparation knows by its step: nothing is left to lose where the *)
(* clone is about to go, and before a reset everything is on a branch.     *)
Careful(p) ==
    /\ prep[p].at \in {"remove", "clone", "cloning", "discard"} => history.safe = {}
    /\ prep[p].at \in {"head", "branch"} /\ ~ prep[p].dirty => Based
    /\ prep[p].at = "add" => Leaving
    /\ prep[p].at = "commit" => Adding
    /\ p \in Executions /\ prep[p].at \in {"fetch", "detach", "clean"} => Branched

CheckoutInv ==
    /\ CheckoutShapes /\ CheckoutTidy /\ Roles
    /\ \A p \in Preparers : Careful(p)
    /\ LeftoversKept

-----------------------------------------------------------------------------
(* Facts about branches.                                                   *)

LEMMA BranchNumbers ==
  /\ Branches \subseteq Nat /\ Detached \notin Branches /\ 0 \in Branches
  /\ NoCommit \notin SUBSET Works /\ MaxParked \in Nat
  /\ \A b \in Branches : b <= MaxParked
BY CheckoutAssumption DEF Branches, Detached, NoCommit

LEMMA OnBranchesIs ==
  /\ OnBranches = UNION {clone.refs[b] : b \in {c \in Branches : clone.refs[c] # NoCommit}}
  /\ \A w : w \in OnBranches <=>
         \E b \in Branches : clone.refs[b] # NoCommit /\ w \in clone.refs[b]
BY DEF OnBranches

LEMMA HeldIs == Held = clone.tree \cup clone.at \cup OnBranches
BY DEF Held, OnBranches

(* A step that leaves the branches alone.                                  *)
LEMMA SameBranches ==
  ASSUME clone'.refs = clone.refs
  PROVE OnBranches' = OnBranches /\ Parked' = Parked
BY DEF OnBranches, Parked

(* The clone's fields.                                                     *)
LEMMA CloneFields ==
  ASSUME CheckoutInv
  PROVE /\ clone \in Clones /\ clone.health \in {"absent", "skeleton", "healthy"}
        /\ clone.maker \subseteq Preparers /\ clone.head \in {Detached} \cup Branches
        /\ clone.at \subseteq Works /\ clone.tree \subseteq Works
        /\ clone.staged \subseteq clone.tree
        /\ clone.refs \in [Branches -> {NoCommit} \cup SUBSET Works]
        /\ history.safe \subseteq Works
        /\ clone.head # Detached => clone.refs[clone.head] = clone.at
BY DEF CheckoutInv, CheckoutShapes, CheckoutTidy, Clones, Memories

(* The commit that HEAD's branch is at is on a branch.                     *)
LEMMA HeadOnBranch ==
  ASSUME CheckoutInv, clone.head # Detached
  PROVE clone.at \subseteq OnBranches
<1>1. clone.head \in Branches /\ clone.refs[clone.head] = clone.at /\ clone.at # NoCommit
  BY CloneFields, BranchNumbers
<1> QED BY <1>1, OnBranchesIs

(* A bare clone holds nothing.                                             *)
LEMMA BareHolds ==
  ASSUME Bare(clone) PROVE Held = {} /\ OnBranches = {} /\ Parked = {}
BY HeldIs, OnBranchesIs DEF Bare, Parked

LEMMA AbsentIs ==
  /\ Absent \in Clones /\ Bare(Absent) /\ Absent.health = "absent"
  /\ Absent.staged \subseteq Absent.tree /\ Absent.head = Detached
  /\ Cloned \in Clones /\ Bare(Cloned) /\ Cloned.health = "healthy"
  /\ Cloned.staged \subseteq Cloned.tree /\ Cloned.head = Detached
  /\ \A p \in Preparers :
        LET s == [Absent EXCEPT !.health = "skeleton", !.maker = {p}]
        IN  s \in Clones /\ Bare(s)
BY DEF Absent, Cloned, Clones, Bare

-----------------------------------------------------------------------------
(* Steps of one preparation, and what they leave of the others.            *)

(* What others know stays true when this does.                             *)
Harmless ==
    /\ history'.safe \subseteq history.safe
    /\ Branched => Branched'
    /\ Based => Based'
    /\ Leaving => Leaving'
    /\ Adding => Adding'

LEMMA OthersCareful ==
  ASSUME NEW q \in Preparers, Careful(q), Harmless, prep'[q] = prep[q]
  PROVE Careful(q)'
<1>1. history.safe = {} => history'.safe = {} BY DEF Harmless
<1> QED BY <1>1 DEF Careful, Harmless

(* The clone as it is, and no more works to keep.                          *)
LEMMA SameCloneHarmless ==
  ASSUME clone' = clone, history'.safe \subseteq history.safe
  PROVE Harmless /\ OnBranches' = OnBranches /\ Parked' = Parked
<1>1. OnBranches' = OnBranches /\ Parked' = Parked BY SameBranches
<1> QED BY <1>1 DEF Harmless, Branched, Based, Leaving, Adding

(* Nothing to keep.                                                        *)
LEMMA NothingToKeep ==
  ASSUME history'.safe = {}
  PROVE Harmless /\ LeftoversKept' /\ \A q : Careful(q)'
BY DEF Harmless, Branched, Based, Leaving, Adding, LeftoversKept, Careful

(* Everything on branches that stay.                                       *)
LEMMA AllOnBranches ==
  ASSUME Branched', history'.safe \subseteq history.safe
  PROVE Harmless /\ LeftoversKept'
<1>1. Held' = clone'.tree \cup clone'.at \cup OnBranches' BY DEF Held, OnBranches
<1> QED BY <1>1 DEF Harmless, Branched, Based, Leaving, Adding, LeftoversKept

LEMMA GoIs ==
  ASSUME prep \in [Preparers -> Preps], NEW p \in Preparers, NEW step \in CloneSteps,
         Go(p, step)
  PROVE /\ prep' \in [Preparers -> Preps]
        /\ prep'[p].at = step /\ prep'[p].dirty = prep[p].dirty
        /\ \A q \in Preparers : q # p => prep'[q] = prep[q]
<1>1. prep' = [prep EXCEPT ![p] = [prep[p] EXCEPT !.at = step]] BY DEF Go
<1>2. prep[p] \in Preps OBVIOUS
<1>3. [prep[p] EXCEPT !.at = step] \in Preps
  BY <1>2 DEF Preps
<1>4. [prep[p] EXCEPT !.at = step].at = step /\ [prep[p] EXCEPT !.at = step].dirty = prep[p].dirty
  BY <1>2 DEF Preps
<1> QED BY <1>1, <1>3, <1>4

(* A step of the preparation p: what is left to show of it.                *)
LEMMA StepOf ==
  ASSUME CheckoutInv, NEW p \in Preparers,
         prep' \in [Preparers -> Preps], \A q \in Preparers : q # p => prep'[q] = prep[q],
         p \in Reviews => prep'[p].at \notin {"status", "head", "branch", "add", "commit",
                                              "detach", "clean"},
         clone' \in Clones, worktree' \in {"absent", "standalone", "linked", "dangling"},
         turn' = turn, history' \in Memories,
         CheckoutTidy', Harmless, LeftoversKept', Careful(p)'
  PROVE CheckoutInv'
<1>1. CheckoutShapes' BY DEF CheckoutInv, CheckoutShapes
<1>2. Roles' BY DEF CheckoutInv, Roles, Preparers
<1>3. ASSUME NEW q \in Preparers PROVE Careful(q)'
  <2>1. CASE q = p BY <2>1
  <2>2. CASE q # p
    <3>1. prep'[q] = prep[q] BY <2>2
    <3> QED BY <3>1, OthersCareful DEF CheckoutInv
  <2> QED BY <2>1, <2>2
<1> QED BY <1>1, <1>2, <1>3 DEF CheckoutInv

(* One that only looks.                                                    *)
LEMMA LookOnly ==
  ASSUME CheckoutInv, NEW p \in Preparers,
         prep' \in [Preparers -> Preps], \A q \in Preparers : q # p => prep'[q] = prep[q],
         p \in Reviews => prep'[p].at \notin {"status", "head", "branch", "add", "commit",
                                              "detach", "clean"},
         clone' = clone, worktree' \in {"absent", "standalone", "linked", "dangling"},
         turn' = turn, history' \in Memories, history'.safe \subseteq history.safe,
         Careful(p)'
  PROVE CheckoutInv'
<1>1. Harmless /\ OnBranches' = OnBranches /\ Parked' = Parked BY SameCloneHarmless
<1>2. CheckoutTidy' BY <1>1 DEF CheckoutInv, CheckoutTidy, Bare
<1>3. LeftoversKept'
  <2>1. Held' = Held BY DEF Held
  <2> QED BY <2>1 DEF CheckoutInv, LeftoversKept
<1>4. clone' \in Clones BY DEF CheckoutInv, CheckoutShapes
<1> QED BY <1>1, <1>2, <1>3, <1>4, StepOf

-----------------------------------------------------------------------------
(* Each step of a preparation.                                             *)

LEMMA ShapesOf ==
  ASSUME CheckoutInv
  PROVE /\ clone \in Clones /\ prep \in [Preparers -> Preps] /\ history \in Memories
        /\ worktree \in {"absent", "standalone", "linked", "dangling"}
        /\ turn \subseteq Preparers \cup {Chat} /\ Cardinality(turn) <= 1
BY DEF CheckoutInv, CheckoutShapes

LEMMA BlameIs ==
  ASSUME history \in Memories
  PROVE /\ Blame \in Memories /\ Blame.safe = history.safe
        /\ \A S : [Blame EXCEPT !.safe = history.safe \ S] \in Memories
                  /\ [Blame EXCEPT !.safe = history.safe \ S].safe = history.safe \ S
        /\ [Blame EXCEPT !.safe = {}] \in Memories /\ [Blame EXCEPT !.safe = {}].safe = {}
<1>1. history.faults + 1 \in Nat BY DEF Memories
<1> QED BY <1>1 DEF Blame, Memories

LEMMA BeginKeeps == ASSUME CheckoutInv, NEW p \in Preparers, Begin(p) PROVE CheckoutInv'
<1> DEFINE step == IF clone.health = "absent" THEN "clone" ELSE "probe"
           to == [Waiting EXCEPT !.at = step]
<1>1. /\ prep' = [prep EXCEPT ![p] = to] /\ UNCHANGED <<clone, worktree, turn, history>>
  BY DEF Begin
<1>2. to \in Preps /\ to.at = step BY DEF Waiting, Preps, CloneSteps
<1>3. prep' \in [Preparers -> Preps] /\ prep'[p].at = step
      /\ \A q \in Preparers : q # p => prep'[q] = prep[q]
  <2> HIDE DEF to
  <2> QED BY <1>1, <1>2, ShapesOf
<1>4. step = "clone" => history.safe = {}
  BY BareHolds DEF CheckoutInv, CheckoutTidy, LeftoversKept
<1>5. step \in {"clone", "probe"} OBVIOUS
<1> HIDE DEF step
<1>6. Careful(p)' BY <1>1, <1>3, <1>4, <1>5 DEF Careful
<1> QED BY <1>1, <1>3, <1>5, <1>6, ShapesOf, LookOnly

LEMMA ProbeKeeps == ASSUME CheckoutInv, NEW p \in Preparers, Probe(p) PROVE CheckoutInv'
<1> DEFINE step == IF clone.health # "healthy" THEN "remove"
                   ELSE IF p \in Executions THEN "status" ELSE "fetch"
<1>1. Go(p, step) /\ UNCHANGED <<clone, worktree, turn, history>> BY DEF Probe
<1>2. step \in {"remove", "status", "fetch"} /\ step \in CloneSteps
      /\ (step = "status" => p \in Executions) /\ (step = "fetch" => p \notin Executions)
      /\ (step = "remove" => clone.health # "healthy")
  BY DEF CloneSteps, GitSteps
<1> HIDE DEF step
<1>3. /\ prep' \in [Preparers -> Preps] /\ prep'[p].at = step
      /\ \A q \in Preparers : q # p => prep'[q] = prep[q]
  BY <1>1, <1>2, ShapesOf, GoIs
<1>4. step = "remove" => history.safe = {}
  BY <1>2, BareHolds DEF CheckoutInv, CheckoutTidy, LeftoversKept
<1>5. Careful(p)' BY <1>1, <1>2, <1>3, <1>4 DEF Careful
<1>6. p \in Reviews => step # "status" BY <1>2, CheckoutAssumption
<1> QED BY <1>1, <1>2, <1>3, <1>5, <1>6, ShapesOf, LookOnly

LEMMA ProbeFailsKeeps ==
  ASSUME CheckoutInv, NEW p \in Preparers, ProbeFails(p) PROVE CheckoutInv'
<1>1. /\ Go(p, "remove") /\ history' = [Blame EXCEPT !.safe = {}]
      /\ UNCHANGED <<clone, worktree, turn>>
  BY DEF ProbeFails
<1>2. "remove" \in CloneSteps BY DEF CloneSteps
<1>3. /\ prep' \in [Preparers -> Preps] /\ prep'[p].at = "remove"
      /\ \A q \in Preparers : q # p => prep'[q] = prep[q]
  BY <1>1, <1>2, ShapesOf, GoIs
<1>4. history' \in Memories /\ history'.safe = {} BY <1>1, ShapesOf, BlameIs
<1>5. Careful(p)' BY <1>4, NothingToKeep
<1> QED BY <1>1, <1>3, <1>4, <1>5, ShapesOf, LookOnly

(* The directory is replaced when nothing in it is to be kept.             *)
LEMMA Replaced ==
  ASSUME CheckoutInv, NEW p \in Preparers, history.safe = {}, history' = history,
         NEW step \in {"clone", "cloning", "discard", "fetch", "send", "idle"}, Go(p, step),
         clone' \in Clones, Bare(clone)',
         worktree' \in {"absent", "standalone", "linked", "dangling"}, turn' = turn
  PROVE CheckoutInv'
<1>1. step \in CloneSteps BY DEF CloneSteps, GitSteps
<1>2. /\ prep' \in [Preparers -> Preps] /\ prep'[p].at = step
      /\ \A q \in Preparers : q # p => prep'[q] = prep[q]
  BY <1>1, ShapesOf, GoIs
<1>3. Harmless /\ LeftoversKept' /\ Careful(p)' BY NothingToKeep
<1>4. CheckoutTidy'
  <2>1. Parked' = {} BY DEF Parked, Bare
  <2>2. 0 \in 0 .. MaxParked /\ 1 .. 0 = {} BY BranchNumbers
  <2> QED BY <2>1, <2>2 DEF CheckoutTidy, Bare
<1>5. prep'[p].at \notin {"status", "head", "branch", "add", "commit", "detach", "clean"}
  BY <1>2
<1> QED BY <1>2, <1>3, <1>4, <1>5, ShapesOf, StepOf

LEMMA RemoveKeeps == ASSUME CheckoutInv, NEW p \in Preparers, Remove(p) PROVE CheckoutInv'
<1>1. /\ prep[p].at = "remove" /\ clone' = Absent /\ worktree' = Removed(worktree)
      /\ Go(p, "clone") /\ UNCHANGED <<turn, history>>
  BY DEF Remove
<1>2. history.safe = {} BY <1>1 DEF CheckoutInv, Careful
<1>3. worktree' \in {"absent", "standalone", "linked", "dangling"}
  BY <1>1, ShapesOf DEF Removed
<1>4. clone' \in Clones /\ Bare(clone') BY <1>1, AbsentIs
<1> QED BY <1>1, <1>2, <1>3, <1>4, Replaced DEF Bare

LEMMA StartCloneKeeps ==
  ASSUME CheckoutInv, NEW p \in Preparers, StartClone(p) PROVE CheckoutInv'
<1>1. prep[p].at = "clone" /\ UNCHANGED <<worktree, turn, history>> BY DEF StartClone
<1>2. history.safe = {} BY <1>1 DEF CheckoutInv, Careful
<1>3. CASE clone.health = "absent"
  <2>1. clone' = [Absent EXCEPT !.health = "skeleton", !.maker = {p}] /\ Go(p, "cloning")
    BY <1>3 DEF StartClone
  <2>2. clone' \in Clones /\ Bare(clone') BY <2>1, AbsentIs
  <2> QED BY <1>1, <1>2, <2>1, <2>2, ShapesOf, Replaced DEF Bare
<1>4. CASE clone.health # "absent"
  <2>1. clone' = clone /\ Go(p, "discard") BY <1>4 DEF StartClone
  <2>2. "discard" \in CloneSteps BY DEF CloneSteps
  <2>3. /\ prep' \in [Preparers -> Preps] /\ prep'[p].at = "discard"
        /\ \A q \in Preparers : q # p => prep'[q] = prep[q]
    BY <2>1, <2>2, ShapesOf, GoIs
  <2>4. Careful(p)' BY <1>1, <1>2, NothingToKeep
  <2> QED BY <1>1, <2>1, <2>3, <2>4, ShapesOf, LookOnly
<1> QED BY <1>3, <1>4

LEMMA FinishCloneKeeps ==
  ASSUME CheckoutInv, NEW p \in Preparers, FinishClone(p) PROVE CheckoutInv'
<1>1. prep[p].at = "cloning" /\ UNCHANGED <<worktree, turn, history>> BY DEF FinishClone
<1>2. history.safe = {} BY <1>1 DEF CheckoutInv, Careful
<1>3. CASE clone.maker = {p}
  <2>1. clone' = Cloned /\ Go(p, "fetch") BY <1>3 DEF FinishClone
  <2>2. clone' \in Clones /\ Bare(clone') BY <2>1, AbsentIs
  <2> QED BY <1>1, <1>2, <2>1, <2>2, ShapesOf, Replaced DEF Bare
<1>4. CASE clone.maker # {p}
  <2>1. clone' = clone /\ Go(p, "discard") BY <1>4 DEF FinishClone
  <2>2. "discard" \in CloneSteps BY DEF CloneSteps
  <2>3. /\ prep' \in [Preparers -> Preps] /\ prep'[p].at = "discard"
        /\ \A q \in Preparers : q # p => prep'[q] = prep[q]
    BY <2>1, <2>2, ShapesOf, GoIs
  <2>4. Careful(p)' BY <1>1, <1>2, NothingToKeep
  <2> QED BY <1>1, <2>1, <2>3, <2>4, ShapesOf, LookOnly
<1> QED BY <1>3, <1>4

LEMMA DiscardKeeps == ASSUME CheckoutInv, NEW p \in Preparers, Discard(p) PROVE CheckoutInv'
<1>1. /\ prep[p].at = "discard" /\ clone' = Absent /\ worktree' = Removed(worktree)
      /\ Go(p, GaveUp(p)) /\ UNCHANGED <<turn, history>>
  BY DEF Discard
<1>2. history.safe = {} BY <1>1 DEF CheckoutInv, Careful
<1>3. worktree' \in {"absent", "standalone", "linked", "dangling"}
  BY <1>1, ShapesOf DEF Removed
<1>4. clone' \in Clones /\ Bare(clone') BY <1>1, AbsentIs
<1>5. GaveUp(p) \in {"send", "idle"} BY DEF GaveUp
<1> QED BY <1>1, <1>2, <1>3, <1>4, <1>5, Replaced DEF Bare

LEMMA ReadStatusKeeps ==
  ASSUME CheckoutInv, NEW p \in Preparers, ReadStatus(p) PROVE CheckoutInv'
<1> DEFINE to == [prep[p] EXCEPT !.at = "head", !.dirty = clone.tree # {}]
<1>1. /\ prep[p].at = "status" /\ prep' = [prep EXCEPT ![p] = to]
      /\ UNCHANGED <<clone, worktree, turn, history>>
  BY DEF ReadStatus, Runs
<1>2. to \in Preps /\ to.at = "head" /\ to.dirty = (clone.tree # {})
  <2>1. prep[p] \in Preps BY ShapesOf
  <2> QED BY <2>1 DEF Preps, CloneSteps, GitSteps
<1>3. /\ prep' \in [Preparers -> Preps] /\ prep'[p] = to
      /\ \A q \in Preparers : q # p => prep'[q] = prep[q]
  <2> HIDE DEF to
  <2> QED BY <1>1, <1>2, ShapesOf
<1>4. p \notin Reviews BY <1>1 DEF CheckoutInv, Roles
<1>5. Careful(p)'
  <2>1. clone.tree = {} => Based BY HeldIs DEF CheckoutInv, LeftoversKept, Based
  <2>2. Based' = Based BY <1>1, SameBranches DEF Based
  <2> HIDE DEF to
  <2> QED BY <1>2, <1>3, <2>1, <2>2 DEF Careful
<1> HIDE DEF to
<1> QED BY <1>1, <1>3, <1>4, <1>5, ShapesOf, LookOnly

LEMMA StatusUnreadKeeps ==
  ASSUME CheckoutInv, NEW p \in Preparers, StatusUnread(p) PROVE CheckoutInv'
<1> DEFINE to == [prep[p] EXCEPT !.at = "head", !.dirty = FALSE]
<1>1. /\ prep[p].at = "status" /\ prep' = [prep EXCEPT ![p] = to]
      /\ history' = IF clone.health = "healthy"
                    THEN [Blame EXCEPT !.safe = @ \ clone.tree] ELSE history
      /\ UNCHANGED <<clone, worktree, turn>>
  BY DEF StatusUnread
<1>2. to \in Preps /\ to.at = "head" /\ to.dirty = FALSE
  <2>1. prep[p] \in Preps BY ShapesOf
  <2> QED BY <2>1 DEF Preps, CloneSteps, GitSteps
<1>3. /\ prep' \in [Preparers -> Preps] /\ prep'[p] = to
      /\ \A q \in Preparers : q # p => prep'[q] = prep[q]
  <2> HIDE DEF to
  <2> QED BY <1>1, <1>2, ShapesOf
<1>4. p \notin Reviews BY <1>1 DEF CheckoutInv, Roles
<1>5. history' \in Memories /\ history'.safe = history.safe \ clone.tree
  <2>1. CASE clone.health = "healthy"
    <3>1. history' = [Blame EXCEPT !.safe = history.safe \ clone.tree]
      BY <1>1, <2>1, ShapesOf, BlameIs DEF Memories
    <3> QED BY <3>1, ShapesOf, BlameIs
  <2>2. CASE clone.health # "healthy"
    <3>1. history' = history BY <1>1, <2>2
    <3>2. history.safe = {}
      BY <2>2, BareHolds DEF CheckoutInv, CheckoutTidy, LeftoversKept
    <3> QED BY <3>1, <3>2, ShapesOf
  <2> QED BY <2>1, <2>2
<1>6. Careful(p)'
  <2>1. Based'
    <3>1. OnBranches' = OnBranches BY <1>1, SameBranches
    <3> QED BY <1>1, <1>5, <3>1, HeldIs DEF CheckoutInv, LeftoversKept, Based
  <2> HIDE DEF to
  <2> QED BY <1>2, <1>3, <2>1 DEF Careful
<1> HIDE DEF to
<1> QED BY <1>1, <1>3, <1>4, <1>5, <1>6, ShapesOf, LookOnly

LEMMA ReadHeadKeeps ==
  ASSUME CheckoutInv, NEW p \in Preparers, ReadHead(p) PROVE CheckoutInv'
<1> DEFINE step == IF Leftovers(p) THEN "branch" ELSE "fetch"
<1>1. /\ prep[p].at = "head" /\ Go(p, step) /\ UNCHANGED <<clone, worktree, turn, history>>
  BY DEF ReadHead, Runs
<1>2. step \in CloneSteps /\ step \in {"branch", "fetch"}
      /\ (step = "fetch" => ~ prep[p].dirty /\ ~ Stranded)
  BY DEF CloneSteps, GitSteps, Leftovers
<1> HIDE DEF step
<1>3. /\ prep' \in [Preparers -> Preps] /\ prep'[p].at = step /\ prep'[p].dirty = prep[p].dirty
      /\ \A q \in Preparers : q # p => prep'[q] = prep[q]
  BY <1>1, <1>2, ShapesOf, GoIs
<1>4. p \notin Reviews BY <1>1 DEF CheckoutInv, Roles
<1>5. Careful(p)'
  <2>1. ~ prep[p].dirty => Based BY <1>1 DEF CheckoutInv, Careful
  <2>2. step = "fetch" => Branched
    BY <1>2, <2>1, HeadOnBranch DEF Based, Branched, Stranded
  <2>3. Based' = Based /\ Branched' = Branched BY <1>1, SameBranches DEF Based, Branched
  <2> QED BY <1>2, <1>3, <2>1, <2>2, <2>3 DEF Careful
<1> QED BY <1>1, <1>3, <1>4, <1>5, ShapesOf, LookOnly

(* The branch that takes the leftovers is a new one.                       *)
LEMMA NewBranch ==
  ASSUME CheckoutInv, NEW b \in Branches, b = Cardinality(Parked) + 1,
         clone' = OnNewBranch(b), clone.health = "healthy"
  PROVE /\ clone' \in Clones /\ clone'.head = b /\ clone'.at = clone.at
        /\ clone'.tree = clone.tree /\ clone'.staged = clone.staged
        /\ OnBranches' = OnBranches \cup clone.at
        /\ CheckoutTidy'
<1>1. PICK k \in 0 .. MaxParked : Parked = 1 .. k BY DEF CheckoutInv, CheckoutTidy
<1>2. Cardinality(Parked) = k
  <2>1. k \in Nat /\ 1 \in Int BY <1>1, BranchNumbers
  <2>2. Cardinality(1 .. k) = IF 1 > k THEN 0 ELSE k - 1 + 1 BY <2>1, FS_Interval
  <2> QED BY <1>1, <2>1, <2>2
<1>3. b = k + 1 /\ b \notin Parked /\ b # 0 /\ k \in Nat /\ b <= MaxParked
  BY <1>1, <1>2, BranchNumbers
<1>4. clone.refs[b] = NoCommit BY <1>3 DEF Parked
<1>5. clone.at # NoCommit /\ clone.refs \in [Branches -> {NoCommit} \cup SUBSET Works]
      /\ clone.at \subseteq Works
  BY CloneFields, BranchNumbers
<1>6. clone' = [clone EXCEPT !.refs = [clone.refs EXCEPT ![b] = clone.at], !.head = b]
  BY CloneFields DEF OnNewBranch, Clones
<1> DEFINE refs == [clone.refs EXCEPT ![b] = clone.at]
<1>7. refs \in [Branches -> {NoCommit} \cup SUBSET Works] /\ refs[b] = clone.at
      /\ \A c \in Branches : c # b => refs[c] = clone.refs[c]
  BY <1>5
<1> HIDE DEF refs
<1>8. /\ clone' \in Clones /\ clone'.head = b /\ clone'.at = clone.at /\ clone'.refs = refs
      /\ clone'.tree = clone.tree /\ clone'.staged = clone.staged
      /\ clone'.health = clone.health
  <2>1. clone' = [clone EXCEPT !.refs = refs, !.head = b] BY <1>6 DEF refs
  <2> QED BY <1>7, <2>1, CloneFields DEF Clones
<1>9. OnBranches' = OnBranches \cup clone.at
  <2>1. ASSUME NEW w PROVE w \in OnBranches' <=> w \in OnBranches \cup clone.at
    <3>1. w \in OnBranches' <=> \E c \in Branches : refs[c] # NoCommit /\ w \in refs[c]
      BY <1>8 DEF OnBranches
    <3>2. w \in OnBranches <=> \E c \in Branches : clone.refs[c] # NoCommit /\ w \in clone.refs[c]
      BY OnBranchesIs
    <3> QED BY <1>4, <1>5, <1>7, <3>1, <3>2
  <2> QED BY <2>1
<1>10. Parked' = 1 .. k + 1
  <2>1. Parked' = {c \in Branches \ {0} : refs[c] # NoCommit} BY <1>8 DEF Parked
  <2>2. Parked' = Parked \cup {b}
    BY <1>3, <1>5, <1>7, <2>1 DEF Parked
  <2> QED BY <1>1, <1>3, <2>2
<1>11. k + 1 \in 0 .. MaxParked BY <1>3
<1>12. clone.staged \subseteq clone.tree BY CloneFields
<1> QED BY <1>7, <1>8, <1>9, <1>10, <1>11, <1>12 DEF CheckoutTidy

LEMMA MakeBranchKeeps ==
  ASSUME CheckoutInv, NEW p \in Preparers, MakeBranch(p) PROVE CheckoutInv'
<1> DEFINE step == IF prep[p].dirty THEN "add" ELSE "fetch"
<1>1. /\ prep[p].at = "branch" /\ clone.health = "healthy"
      /\ Go(p, step) /\ UNCHANGED <<worktree, turn, history>>
  BY DEF MakeBranch, Runs
<1>2. PICK b \in Branches : b = Cardinality(Parked) + 1 /\ clone' = OnNewBranch(b)
  BY DEF MakeBranch
<1>3. /\ clone' \in Clones /\ clone'.head = b /\ clone'.at = clone.at
      /\ clone'.tree = clone.tree /\ clone'.staged = clone.staged
      /\ OnBranches' = OnBranches \cup clone.at
      /\ CheckoutTidy'
  BY <1>1, <1>2, NewBranch
<1>4. clone'.head # Detached BY <1>3, BranchNumbers
<1>5. step \in CloneSteps /\ step \in {"add", "fetch"} /\ (step = "fetch" => ~ prep[p].dirty)
  BY DEF CloneSteps, GitSteps
<1> HIDE DEF step
<1>6. /\ prep' \in [Preparers -> Preps] /\ prep'[p].at = step /\ prep'[p].dirty = prep[p].dirty
      /\ \A q \in Preparers : q # p => prep'[q] = prep[q]
  BY <1>1, <1>5, ShapesOf, GoIs
<1>7. p \notin Reviews BY <1>1 DEF CheckoutInv, Roles
<1>8. Harmless BY <1>1, <1>3, <1>4 DEF Harmless, Branched, Based, Leaving, Adding
<1>9. LeftoversKept'
  <2>1. Held' = clone'.tree \cup clone'.at \cup OnBranches' BY DEF Held, OnBranches
  <2> QED BY <1>1, <1>3, <2>1, HeldIs DEF CheckoutInv, LeftoversKept
<1>10. Careful(p)'
  <2>1. ~ prep[p].dirty => Based BY <1>1 DEF CheckoutInv, Careful
  <2>2. ~ prep[p].dirty => Branched' BY <1>1, <1>3, <2>1 DEF Based, Branched
  <2> QED BY <1>4, <1>5, <1>6, <2>2 DEF Careful, Leaving
<1> QED BY <1>1, <1>3, <1>6, <1>7, <1>8, <1>9, <1>10, ShapesOf, StepOf

LEMMA AddAllKeeps ==
  ASSUME CheckoutInv, NEW p \in Preparers, AddAll(p) PROVE CheckoutInv'
<1>1. /\ prep[p].at = "add" /\ clone.health = "healthy"
      /\ clone' = [clone EXCEPT !.staged = clone.tree]
      /\ Go(p, "commit") /\ UNCHANGED <<worktree, turn, history>>
  BY DEF AddAll, Runs
<1>2. "commit" \in CloneSteps BY DEF CloneSteps, GitSteps
<1>3. /\ prep' \in [Preparers -> Preps] /\ prep'[p].at = "commit"
      /\ \A q \in Preparers : q # p => prep'[q] = prep[q]
  BY <1>1, <1>2, ShapesOf, GoIs
<1>4. /\ clone' \in Clones /\ clone'.staged = clone.tree /\ clone'.tree = clone.tree
      /\ clone'.at = clone.at /\ clone'.head = clone.head /\ clone'.refs = clone.refs
      /\ clone'.health = clone.health
  BY <1>1, CloneFields DEF Clones
<1>5. OnBranches' = OnBranches /\ Parked' = Parked BY <1>4, SameBranches
<1>6. CheckoutTidy' BY <1>1, <1>4, <1>5 DEF CheckoutInv, CheckoutTidy
<1>7. p \notin Reviews BY <1>1 DEF CheckoutInv, Roles
<1>8. clone.staged \subseteq clone'.staged BY <1>4, CloneFields
<1>9. Harmless BY <1>1, <1>4, <1>5, <1>8 DEF Harmless, Branched, Based, Leaving, Adding
<1>10. LeftoversKept'
  <2>1. Held' = clone'.tree \cup clone'.at \cup OnBranches' BY DEF Held, OnBranches
  <2> QED BY <1>1, <1>4, <1>5, <2>1, HeldIs DEF CheckoutInv, LeftoversKept
<1>11. Careful(p)'
  <2>1. Leaving BY <1>1 DEF CheckoutInv, Careful
  <2>2. Adding'
    <3>1. CASE Branched BY <1>1, <1>5, <3>1 DEF Branched, Adding
    <3>2. CASE clone.head # Detached
      <4>1. history.safe \subseteq clone.tree \cup OnBranches
        BY <3>2, HeadOnBranch, HeldIs DEF CheckoutInv, LeftoversKept
      <4> QED BY <1>1, <1>4, <1>5, <3>2, <4>1 DEF Adding
    <3> QED BY <2>1, <3>1, <3>2 DEF Leaving
  <2> QED BY <1>3, <2>2 DEF Careful
<1> QED BY <1>1, <1>3, <1>4, <1>6, <1>7, <1>9, <1>10, <1>11, ShapesOf, StepOf

(* A commit loses nothing.                                                 *)
LEMMA CommitIs ==
  ASSUME CheckoutInv, NEW ws, ws \subseteq clone.tree, clone.health = "healthy",
         clone' = WithCommit(ws)
  PROVE /\ clone' \in Clones /\ clone'.at = clone.at \cup ws /\ clone'.tree = clone.tree \ ws
        /\ clone'.staged = clone.staged \ ws /\ clone'.head = clone.head
        /\ OnBranches \subseteq OnBranches'
        /\ clone.head # Detached => ws \subseteq OnBranches'
        /\ CheckoutTidy'
<1> DEFINE made == clone.at \cup ws
           refs == IF clone.head = Detached THEN clone.refs
                   ELSE [clone.refs EXCEPT ![clone.head] = made]
<1>1. clone' = [clone EXCEPT !.at = made, !.refs = refs, !.tree = clone.tree \ ws,
                             !.staged = clone.staged \ ws]
  BY CloneFields DEF WithCommit, Clones
<1>2. made \subseteq Works /\ made # NoCommit BY CloneFields, BranchNumbers
<1>3. clone.head # Detached => clone.head \in Branches BY CloneFields
<1>4. /\ refs \in [Branches -> {NoCommit} \cup SUBSET Works]
      /\ \A c \in Branches : c # clone.head => refs[c] = clone.refs[c]
      /\ clone.head # Detached => refs[clone.head] = made
  <2> HIDE DEF made
  <2>1. CASE clone.head = Detached BY <2>1, CloneFields
  <2>2. CASE clone.head # Detached BY <1>2, <1>3, <2>2, CloneFields
  <2> QED BY <2>1, <2>2
<1> HIDE DEF refs
<1>5. /\ clone' \in Clones /\ clone'.at = made /\ clone'.refs = refs
      /\ clone'.tree = clone.tree \ ws /\ clone'.staged = clone.staged \ ws
      /\ clone'.head = clone.head /\ clone'.health = clone.health
  <2> HIDE DEF made
  <2>1. clone.tree \ ws \subseteq Works /\ clone.staged \ ws \subseteq Works BY CloneFields
  <2> QED BY <1>1, <1>2, <1>4, <2>1, CloneFields DEF Clones
<1>6. /\ clone.head # Detached => clone.refs[clone.head] = clone.at /\ clone.at # NoCommit
      /\ clone.head = Detached => \A c \in Branches : c # clone.head
  BY CloneFields, BranchNumbers
<1>7. ASSUME NEW w \in OnBranches PROVE w \in OnBranches'
  <2>1. PICK c \in Branches : clone.refs[c] # NoCommit /\ w \in clone.refs[c] BY OnBranchesIs
  <2>2. refs[c] # NoCommit /\ w \in refs[c]
    <3>1. CASE c # clone.head BY <1>4, <2>1, <3>1
    <3>2. CASE c = clone.head BY <1>2, <1>4, <1>6, <2>1, <3>2
    <3> QED BY <3>1, <3>2
  <2> QED BY <1>5, <2>2 DEF OnBranches
<1>8. clone.head # Detached => ws \subseteq OnBranches'
  BY <1>2, <1>3, <1>4, <1>5 DEF OnBranches
<1>9. Parked' = Parked
  <2>1. \A c \in Branches : refs[c] # NoCommit <=> clone.refs[c] # NoCommit
    BY <1>2, <1>4, <1>6
  <2> QED BY <1>5, <2>1 DEF Parked
<1>10. CheckoutTidy'
  <2>1. clone'.staged \subseteq clone'.tree BY <1>5, CloneFields
  <2> QED BY <1>4, <1>5, <1>9, <2>1 DEF CheckoutInv, CheckoutTidy
<1> QED BY <1>5, <1>7, <1>8, <1>10

LEMMA CommitParkedKeeps ==
  ASSUME CheckoutInv, NEW p \in Preparers, CommitParked(p) PROVE CheckoutInv'
<1>1. /\ prep[p].at = "commit" /\ clone.health = "healthy"
      /\ clone' = WithCommit(clone.staged)
      /\ Go(p, "fetch") /\ UNCHANGED <<worktree, turn, history>>
  BY DEF CommitParked, Runs
<1>2. "fetch" \in CloneSteps BY DEF CloneSteps, GitSteps
<1>3. /\ prep' \in [Preparers -> Preps] /\ prep'[p].at = "fetch"
      /\ \A q \in Preparers : q # p => prep'[q] = prep[q]
  BY <1>1, <1>2, ShapesOf, GoIs
<1>4. /\ clone' \in Clones /\ clone'.at = clone.at \cup clone.staged
      /\ clone'.tree = clone.tree \ clone.staged
      /\ clone'.staged = clone.staged \ clone.staged /\ clone'.head = clone.head
      /\ OnBranches \subseteq OnBranches'
      /\ clone.head # Detached => clone.staged \subseteq OnBranches'
      /\ CheckoutTidy'
  <2>1. clone.staged \subseteq clone.tree BY CloneFields
  <2> QED BY <1>1, <2>1, CommitIs
<1>5. p \notin Reviews BY <1>1 DEF CheckoutInv, Roles
<1>6. Adding => Branched' BY <1>1, <1>4 DEF Adding, Branched
<1>7. Harmless BY <1>1, <1>4, <1>6 DEF Harmless, Branched, Based, Leaving, Adding
<1>8. LeftoversKept'
  <2>1. Held' = clone'.tree \cup clone'.at \cup OnBranches' BY DEF Held, OnBranches
  <2> QED BY <1>1, <1>4, <2>1, HeldIs DEF CheckoutInv, LeftoversKept
<1>9. Careful(p)'
  <2>1. Adding BY <1>1 DEF CheckoutInv, Careful
  <2> QED BY <1>3, <1>6, <2>1 DEF Careful
<1> QED BY <1>1, <1>3, <1>4, <1>5, <1>7, <1>8, <1>9, ShapesOf, StepOf

(* Fetching, marking and placing the worktree: the clone stays.            *)
LEMMA FetchOriginKeeps ==
  ASSUME CheckoutInv, NEW p \in Preparers, FetchOrigin(p) PROVE CheckoutInv'
<1> DEFINE step == IF p \in Executions THEN "detach" ELSE "marker"
<1>1. /\ prep[p].at = "fetch" /\ Go(p, step) /\ UNCHANGED <<clone, worktree, turn, history>>
  BY DEF FetchOrigin, Runs
<1>2. step \in CloneSteps /\ step \in {"detach", "marker"} /\ (step = "detach" => p \in Executions)
  BY DEF CloneSteps, GitSteps
<1> HIDE DEF step
<1>3. /\ prep' \in [Preparers -> Preps] /\ prep'[p].at = step
      /\ \A q \in Preparers : q # p => prep'[q] = prep[q]
  BY <1>1, <1>2, ShapesOf, GoIs
<1>4. p \in Reviews => step # "detach" BY <1>2, CheckoutAssumption
<1>5. Careful(p)'
  <2>1. p \in Executions => Branched BY <1>1 DEF CheckoutInv, Careful
  <2>2. Branched' = Branched BY <1>1, SameBranches DEF Branched
  <2> QED BY <1>2, <1>3, <2>1, <2>2 DEF Careful
<1> QED BY <1>1, <1>2, <1>3, <1>4, <1>5, ShapesOf, LookOnly

LEMMA ResetKeeps == ASSUME CheckoutInv, NEW p \in Preparers, Reset(p) PROVE CheckoutInv'
<1>1. /\ prep[p].at = "detach" /\ clone.health = "healthy"
      /\ clone' = [clone EXCEPT !.head = Detached, !.at = {},
                                !.tree = (clone.tree \cap NewFiles) \ clone.staged,
                                !.staged = {}]
      /\ Go(p, "clean") /\ UNCHANGED <<worktree, turn, history>>
  BY CloneFields DEF Reset, Runs, Clones
<1>2. "clean" \in CloneSteps BY DEF CloneSteps, GitSteps
<1>3. /\ prep' \in [Preparers -> Preps] /\ prep'[p].at = "clean"
      /\ \A q \in Preparers : q # p => prep'[q] = prep[q]
  BY <1>1, <1>2, ShapesOf, GoIs
<1>4. /\ clone' \in Clones /\ clone'.head = Detached /\ clone'.refs = clone.refs
      /\ clone'.staged = {} /\ clone'.health = clone.health
  <2>1. (clone.tree \cap NewFiles) \ clone.staged \subseteq Works BY CloneFields
  <2> QED BY <1>1, <2>1, CloneFields DEF Clones
<1>5. OnBranches' = OnBranches /\ Parked' = Parked BY <1>4, SameBranches
<1>6. p \in Executions BY <1>1 DEF CheckoutInv, Roles, Preparers
<1>7. Branched' BY <1>1, <1>5, <1>6 DEF CheckoutInv, Careful, Branched
<1>8. CheckoutTidy' BY <1>1, <1>4, <1>5 DEF CheckoutInv, CheckoutTidy
<1>9. Harmless /\ LeftoversKept' BY <1>1, <1>7, AllOnBranches
<1>10. Careful(p)' BY <1>3, <1>7 DEF Careful
<1> QED
  BY <1>1, <1>3, <1>4, <1>6, <1>8, <1>9, <1>10, ShapesOf, StepOf, CheckoutAssumption

LEMMA CleanKeeps == ASSUME CheckoutInv, NEW p \in Preparers, Clean(p) PROVE CheckoutInv'
<1>1. /\ prep[p].at = "clean" /\ clone.health = "healthy"
      /\ clone' = [clone EXCEPT !.tree = (clone.tree \ NewFiles) \cup clone.staged]
      /\ Go(p, "send") /\ UNCHANGED <<worktree, turn, history>>
  BY CloneFields DEF Clean, Runs, Clones
<1>2. "send" \in CloneSteps BY DEF CloneSteps
<1>3. /\ prep' \in [Preparers -> Preps] /\ prep'[p].at = "send"
      /\ \A q \in Preparers : q # p => prep'[q] = prep[q]
  BY <1>1, <1>2, ShapesOf, GoIs
<1>4. /\ clone' \in Clones /\ clone'.head = clone.head /\ clone'.refs = clone.refs
      /\ clone'.at = clone.at /\ clone'.staged = clone.staged
      /\ clone'.tree = (clone.tree \ NewFiles) \cup clone.staged
      /\ clone'.health = clone.health
  <2>1. (clone.tree \ NewFiles) \cup clone.staged \subseteq Works BY CloneFields
  <2> QED BY <1>1, <2>1, CloneFields DEF Clones
<1>5. OnBranches' = OnBranches /\ Parked' = Parked BY <1>4, SameBranches
<1>6. p \in Executions BY <1>1 DEF CheckoutInv, Roles, Preparers
<1>7. Branched' BY <1>1, <1>5, <1>6 DEF CheckoutInv, Careful, Branched
<1>8. CheckoutTidy'
  <2>1. clone'.staged \subseteq clone'.tree BY <1>4
  <2> QED BY <1>1, <1>4, <1>5, <2>1 DEF CheckoutInv, CheckoutTidy
<1>9. Harmless /\ LeftoversKept' BY <1>1, <1>7, AllOnBranches
<1>10. Careful(p)' BY <1>3 DEF Careful
<1> QED BY <1>1, <1>3, <1>4, <1>8, <1>9, <1>10, ShapesOf, StepOf

LEMMA WorktreeKeeps ==
  ASSUME CheckoutInv, NEW p \in Preparers, EnsureWorktree(p) \/ Position(p) PROVE CheckoutInv'
<1>1. PICK step \in {"position", "send", "idle"} : Go(p, step)
  BY DEF EnsureWorktree, Position
<1>2. UNCHANGED <<clone, turn, history>>
      /\ worktree' \in {"absent", "standalone", "linked", "dangling"}
  BY ShapesOf DEF EnsureWorktree, Position
<1>3. step \in CloneSteps BY DEF CloneSteps, GitSteps
<1>4. /\ prep' \in [Preparers -> Preps] /\ prep'[p].at = step
      /\ \A q \in Preparers : q # p => prep'[q] = prep[q]
  BY <1>1, <1>3, ShapesOf, GoIs
<1>5. Careful(p)' BY <1>4 DEF Careful
<1> QED BY <1>2, <1>4, <1>5, ShapesOf, LookOnly

-----------------------------------------------------------------------------
(* Failures.                                                               *)

LEMMA CommandFailsKeeps ==
  ASSUME CheckoutInv, NEW p \in Preparers, CommandFails(p) \/ CloneFails(p)
  PROVE CheckoutInv'
<1>1. PICK step \in {"send", "idle", "discard"} :
         Go(p, step) /\ (step = "discard" => prep[p].at = "cloning")
  BY DEF CommandFails, CloneFails, GaveUp
<1>2. history' \in {history, Blame} /\ UNCHANGED <<clone, worktree, turn>>
  BY DEF CommandFails, CloneFails
<1>3. step \in CloneSteps BY DEF CloneSteps, GitSteps
<1>4. /\ prep' \in [Preparers -> Preps] /\ prep'[p].at = step
      /\ \A q \in Preparers : q # p => prep'[q] = prep[q]
  BY <1>1, <1>3, ShapesOf, GoIs
<1>5. history' \in Memories /\ history'.safe = history.safe BY <1>2, ShapesOf, BlameIs
<1>6. Careful(p)'
  <2>1. step = "discard" => history.safe = {} BY <1>1 DEF CheckoutInv, Careful
  <2> QED BY <1>4, <1>5, <2>1 DEF Careful
<1> QED BY <1>2, <1>4, <1>5, <1>6, ShapesOf, LookOnly

LEMMA KillKeeps == ASSUME CheckoutInv, Kill PROVE CheckoutInv'
<1>1. /\ prep' = [p \in Preparers |-> IF prep[p].at = "off" THEN prep[p] ELSE Waiting]
      /\ turn' = {} /\ worktree' = worktree /\ history' = Blame
      /\ clone' = [clone EXCEPT !.maker = {}]
  BY DEF Kill
<1>2. Waiting \in Preps /\ Waiting.at = "idle" BY DEF Waiting, Preps, CloneSteps
<1>3. prep' \in [Preparers -> Preps] /\ \A p \in Preparers : prep'[p].at \in {"off", "idle"}
  BY <1>1, <1>2, ShapesOf
<1>4. /\ clone' \in Clones /\ clone'.refs = clone.refs /\ clone'.at = clone.at
      /\ clone'.tree = clone.tree /\ clone'.staged = clone.staged
      /\ clone'.head = clone.head /\ clone'.health = clone.health
  BY <1>1, CloneFields DEF Clones
<1>5. OnBranches' = OnBranches /\ Parked' = Parked BY <1>4, SameBranches
<1>6. history' \in Memories /\ history'.safe = history.safe BY <1>1, ShapesOf, BlameIs
<1>7. CheckoutShapes'
  <2>1. Cardinality({}) <= 1 BY FS_EmptySet
  <2> QED BY <1>1, <1>3, <1>4, <1>6, <2>1, ShapesOf DEF CheckoutShapes
<1>8. CheckoutTidy' BY <1>4, <1>5 DEF CheckoutInv, CheckoutTidy, Bare
<1>9. Roles' BY <1>3 DEF Roles, Preparers
<1>10. \A p \in Preparers : Careful(p)' BY <1>3 DEF Careful
<1>11. LeftoversKept'
  <2>1. Held' = clone'.tree \cup clone'.at \cup OnBranches' BY DEF Held, OnBranches
  <2> QED BY <1>4, <1>5, <1>6, <2>1, HeldIs DEF CheckoutInv, LeftoversKept
<1> QED BY <1>7, <1>8, <1>9, <1>10, <1>11 DEF CheckoutInv

-----------------------------------------------------------------------------
(* Turns.                                                                  *)

LEMMA TurnBoundsKeep ==
  ASSUME CheckoutInv, EndTurn \/ \E p \in Preparers \cup {Chat} : StartTurn(p)
  PROVE CheckoutInv'
<1>1. /\ UNCHANGED <<clone, worktree, history>>
      /\ turn' \subseteq Preparers \cup {Chat} /\ Cardinality(turn') <= 1
  BY FS_EmptySet, FS_Singleton DEF EndTurn, StartTurn
<1>2. /\ prep' \in [Preparers -> Preps]
      /\ \A q \in Preparers : prep'[q] = prep[q] \/ prep'[q].at = "idle"
  <2>1. CASE prep' = prep BY <2>1, ShapesOf
  <2>2. CASE prep' # prep
    <3>1. PICK p \in Preparers : Go(p, "idle") BY <2>2 DEF EndTurn, StartTurn, Go
    <3>2. "idle" \in CloneSteps BY DEF CloneSteps
    <3> QED BY <3>1, <3>2, ShapesOf, GoIs
  <2> QED BY <2>1, <2>2
<1>3. CheckoutShapes' BY <1>1, <1>2, ShapesOf DEF CheckoutShapes
<1>4. Harmless /\ OnBranches' = OnBranches /\ Parked' = Parked BY <1>1, SameCloneHarmless
<1>5. CheckoutTidy' BY <1>1, <1>4 DEF CheckoutInv, CheckoutTidy, Bare
<1>6. Roles' BY <1>2 DEF CheckoutInv, Roles, Preparers
<1>7. ASSUME NEW q \in Preparers PROVE Careful(q)'
  <2>1. CASE prep'[q] = prep[q] BY <1>4, <2>1, OthersCareful DEF CheckoutInv
  <2>2. CASE prep'[q].at = "idle" BY <2>2 DEF Careful
  <2> QED BY <1>2, <2>1, <2>2
<1>8. LeftoversKept'
  <2>1. Held' = Held BY <1>1 DEF Held
  <2> QED BY <1>1, <2>1 DEF CheckoutInv, LeftoversKept
<1> QED BY <1>3, <1>5, <1>6, <1>7, <1>8 DEF CheckoutInv

(* What a turn does to the clone: nothing that was safe, or is now, is     *)
(* lost, and nothing that a preparation relies on.                         *)
LEMMA TurnChanges ==
  ASSUME CheckoutInv, NEW ws, ws \subseteq Works, Exposing(ws), TurnOnly,
         clone' \in Clones, CheckoutTidy',
         history.safe \cup ws \subseteq Held',
         history'.safe = history.safe \ ws => Harmless
  PROVE CheckoutInv'
<1>1. UNCHANGED <<worktree, prep, turn>> BY DEF TurnOnly
<1>2. /\ history' \in Memories
      /\ Preparing => history'.safe = history.safe \ ws
      /\ ~ Preparing => history'.safe = history.safe \cup ws
  BY ShapesOf DEF Exposing, Memories
<1>3. CheckoutShapes' BY <1>1, <1>2, ShapesOf DEF CheckoutShapes
<1>4. LeftoversKept' BY <1>2 DEF LeftoversKept
<1>5. ASSUME NEW q \in Preparers PROVE Careful(q)'
  <2>1. CASE Preparing
    <3>1. Harmless /\ prep'[q] = prep[q] BY <1>1, <1>2, <2>1
    <3> QED BY <3>1, OthersCareful DEF CheckoutInv
  <2>2. CASE ~ Preparing
    <3>1. prep'[q].at \in {"off", "idle", "send"} BY <1>1, <2>2 DEF Preparing
    <3> QED BY <3>1 DEF Careful
  <2> QED BY <2>1, <2>2
<1>6. Roles' BY <1>1 DEF CheckoutInv, Roles
<1> QED BY <1>3, <1>4, <1>5, <1>6 DEF CheckoutInv

LEMMA HeldNext == Held' = clone'.tree \cup clone'.at \cup OnBranches'
BY DEF Held, OnBranches

LEMMA WriteKeeps == ASSUME CheckoutInv, NEW w \in Works, Write(w) PROVE CheckoutInv'
<1>1. /\ clone.health = "healthy" /\ clone' = [clone EXCEPT !.tree = clone.tree \cup {w}]
      /\ Exposing({w}) /\ TurnOnly
  BY CloneFields DEF Write, Working, Clones
<1>2. /\ clone' \in Clones /\ clone'.refs = clone.refs /\ clone'.at = clone.at
      /\ clone'.tree = clone.tree \cup {w} /\ clone'.staged = clone.staged
      /\ clone'.head = clone.head /\ clone'.health = clone.health
  <2>1. clone.tree \cup {w} \subseteq Works BY CloneFields
  <2> QED BY <1>1, <2>1, CloneFields DEF Clones
<1>3. OnBranches' = OnBranches /\ Parked' = Parked BY <1>2, SameBranches
<1>4. CheckoutTidy' BY <1>1, <1>2, <1>3 DEF CheckoutInv, CheckoutTidy
<1>5. history.safe \cup {w} \subseteq Held'
  BY <1>2, <1>3, HeldIs, HeldNext DEF CheckoutInv, LeftoversKept
<1>6. history'.safe = history.safe \ {w} => Harmless
  BY <1>2, <1>3 DEF Harmless, Branched, Based, Leaving, Adding
<1> QED BY <1>1, <1>2, <1>4, <1>5, <1>6, TurnChanges

LEMMA CommitKeeps == ASSUME CheckoutInv, Commit PROVE CheckoutInv'
<1>1. /\ clone.health = "healthy" /\ clone' = WithCommit(clone.tree)
      /\ Exposing(clone.tree) /\ TurnOnly
  BY DEF Commit, Working
<1>2. /\ clone' \in Clones /\ clone'.at = clone.at \cup clone.tree
      /\ clone'.tree = clone.tree \ clone.tree
      /\ clone'.staged = clone.staged \ clone.tree /\ clone'.head = clone.head
      /\ OnBranches \subseteq OnBranches'
      /\ CheckoutTidy'
  BY <1>1, CommitIs
<1>3. history.safe \cup clone.tree \subseteq Held'
  BY <1>2, HeldIs, HeldNext DEF CheckoutInv, LeftoversKept
<1>4. ASSUME history'.safe = history.safe \ clone.tree PROVE Harmless
  <2>1. clone.staged \subseteq clone.tree BY CloneFields
  <2>2. Adding => Branched' BY <1>2, <1>4, <2>1 DEF Adding, Branched
  <2> QED BY <1>2, <1>4, <2>2 DEF Harmless, Branched, Based, Leaving, Adding
<1> QED BY <1>1, <1>2, <1>3, <1>4, CloneFields, TurnChanges

LEMMA TakeBranchKeeps == ASSUME CheckoutInv, TakeBranch PROVE CheckoutInv'
<1> DEFINE ws == clone.tree \cup clone.at
<1>1. clone.health = "healthy" /\ Exposing(ws) /\ TurnOnly BY DEF TakeBranch, Working
<1>2. ws \subseteq Works BY CloneFields
<1>3. 0 \in Branches /\ 0 # Detached BY BranchNumbers
(* After either move HEAD is on the turns' branch.                         *)
<1>4. ASSUME clone' \in Clones, CheckoutTidy', OnBranches \subseteq OnBranches',
             clone.at \subseteq Held', clone'.head = 0, clone'.tree = clone.tree,
             clone'.staged = clone.staged
      PROVE CheckoutInv'
  <2>1. history.safe \cup ws \subseteq Held'
    BY <1>4, HeldIs, HeldNext DEF CheckoutInv, LeftoversKept
  <2>2. ASSUME history'.safe = history.safe \ ws PROVE Harmless
    <3>1. Branched'
      BY <1>4, <2>2, HeldIs DEF CheckoutInv, LeftoversKept, Branched
    <3> QED BY <2>2, <3>1, AllOnBranches
  <2> HIDE DEF ws
  <2> QED BY <1>1, <1>2, <1>4, <2>1, <2>2, TurnChanges
<1>5. CASE /\ clone.refs[0] = NoCommit
           /\ clone' = [clone EXCEPT !.head = 0, !.refs[0] = clone.at]
  <2> DEFINE refs == [clone.refs EXCEPT ![0] = clone.at]
  <2>1. /\ refs \in [Branches -> {NoCommit} \cup SUBSET Works] /\ refs[0] = clone.at
        /\ \A c \in Branches : c # 0 => refs[c] = clone.refs[c]
    BY <1>3, CloneFields
  <2>2. clone' = [clone EXCEPT !.head = 0, !.refs = refs] BY <1>5, CloneFields DEF Clones
  <2> HIDE DEF refs
  <2>3. /\ clone' \in Clones /\ clone'.head = 0 /\ clone'.refs = refs /\ clone'.at = clone.at
        /\ clone'.tree = clone.tree /\ clone'.staged = clone.staged
        /\ clone'.health = clone.health
    BY <1>3, <2>1, <2>2, CloneFields DEF Clones
  <2>4. OnBranches \subseteq OnBranches'
    <3>1. ASSUME NEW w \in OnBranches PROVE w \in OnBranches'
      <4>1. PICK c \in Branches : clone.refs[c] # NoCommit /\ w \in clone.refs[c]
        BY OnBranchesIs
      <4>2. refs[c] = clone.refs[c] BY <1>5, <2>1, <4>1
      <4> QED BY <2>3, <4>1, <4>2 DEF OnBranches
    <3> QED BY <3>1
  <2>5. Parked' = Parked BY <2>1, <2>3 DEF Parked
  <2>6. CheckoutTidy'
    <3>1. clone'.staged \subseteq clone'.tree BY <2>3, CloneFields
    <3> QED BY <1>1, <2>1, <2>3, <2>5, <3>1 DEF CheckoutInv, CheckoutTidy
  <2> QED BY <1>4, <2>3, <2>4, <2>6, HeldNext
<1>6. CASE /\ clone.refs[0] # NoCommit /\ clone.tree = {} /\ ~ Stranded
           /\ clone' = [clone EXCEPT !.head = 0, !.at = clone.refs[0]]
  <2>1. clone.refs[0] \subseteq Works BY <1>3, <1>6, CloneFields
  <2>2. /\ clone' \in Clones /\ clone'.head = 0 /\ clone'.refs = clone.refs
        /\ clone'.at = clone.refs[0]
        /\ clone'.tree = clone.tree /\ clone'.staged = clone.staged
        /\ clone'.health = clone.health
    BY <1>3, <1>6, <2>1, CloneFields DEF Clones
  <2>3. OnBranches' = OnBranches /\ Parked' = Parked BY <2>2, SameBranches
  <2>4. clone.at \subseteq OnBranches
    BY <1>6, HeadOnBranch DEF Stranded
  <2>5. CheckoutTidy'
    <3>1. clone'.staged \subseteq clone'.tree BY <2>2, CloneFields
    <3> QED BY <1>1, <2>2, <2>3, <3>1 DEF CheckoutInv, CheckoutTidy
  <2> QED BY <1>4, <2>2, <2>3, <2>4, <2>5, HeldNext
<1> QED BY <1>5, <1>6 DEF TakeBranch

-----------------------------------------------------------------------------
(* All steps.                                                              *)

LEMMA CheckoutInitHolds == CheckoutInit => CheckoutInv
<1> SUFFICES ASSUME CheckoutInit PROVE CheckoutInv OBVIOUS
<1>1. /\ clone \in {Absent, Cloned} /\ worktree \in {"absent", "standalone"} /\ turn = {}
      /\ history = [safe |-> {}, faults |-> 0]
  BY DEF CheckoutInit
<1>2. PICK pollers : prep = [p \in Preparers |->
                                IF p \in pollers THEN Waiting ELSE [Waiting EXCEPT !.at = "off"]]
  BY DEF CheckoutInit
<1>3. Waiting \in Preps /\ [Waiting EXCEPT !.at = "off"] \in Preps
      /\ Waiting.at = "idle" /\ [Waiting EXCEPT !.at = "off"].at = "off"
  BY DEF Waiting, Preps, CloneSteps
<1>4. prep \in [Preparers -> Preps] /\ \A p \in Preparers : prep[p].at \in {"idle", "off"}
  BY <1>2, <1>3
<1>5. clone \in Clones /\ Bare(clone) /\ clone.staged \subseteq clone.tree
  BY <1>1, AbsentIs
<1>6. history \in Memories /\ history.safe = {} BY <1>1 DEF Memories
<1>7. CheckoutShapes
  <2>1. Cardinality({}) <= 1 BY FS_EmptySet
  <2> QED BY <1>1, <1>4, <1>5, <1>6, <2>1 DEF CheckoutShapes
<1>8. CheckoutTidy
  <2>1. Parked = {} BY <1>5, BareHolds
  <2>2. 0 \in 0 .. MaxParked /\ 1 .. 0 = {} BY BranchNumbers
  <2> QED BY <1>5, <2>1, <2>2 DEF CheckoutTidy, Bare
<1>9. Roles /\ \A p \in Preparers : Careful(p) BY <1>4 DEF Roles, Careful, Preparers
<1> QED BY <1>6, <1>7, <1>8, <1>9 DEF CheckoutInv, LeftoversKept

LEMMA PrepareStepKeeps ==
  ASSUME CheckoutInv, NEW p \in Preparers, PrepareStep(p) \/ Failure(p) PROVE CheckoutInv'
BY BeginKeeps, ProbeKeeps, RemoveKeeps, StartCloneKeeps, FinishCloneKeeps, DiscardKeeps,
   ReadStatusKeeps, ReadHeadKeeps, MakeBranchKeeps, AddAllKeeps, CommitParkedKeeps,
   FetchOriginKeeps, ResetKeeps, CleanKeeps, WorktreeKeeps, ProbeFailsKeeps,
   StatusUnreadKeeps, CommandFailsKeeps DEF PrepareStep, Failure

LEMMA CheckoutNextKeeps == CheckoutInv /\ [CheckoutNext]_checkoutVars => CheckoutInv'
<1> SUFFICES ASSUME CheckoutInv, [CheckoutNext]_checkoutVars PROVE CheckoutInv' OBVIOUS
<1>1. CASE UNCHANGED checkoutVars
  <2>1. UNCHANGED <<clone, worktree, prep, turn, history>> BY <1>1 DEF checkoutVars
  <2>2. CheckoutShapes' /\ CheckoutTidy' /\ Roles'
    BY <2>1 DEF CheckoutInv, CheckoutShapes, CheckoutTidy, Roles, Bare, Parked
  <2>3. Harmless BY <2>1, SameCloneHarmless
  <2>4. \A q \in Preparers : Careful(q)' BY <2>1, <2>3, OthersCareful DEF CheckoutInv
  <2>5. LeftoversKept' BY <2>1 DEF CheckoutInv, LeftoversKept, Held
  <2> QED BY <2>2, <2>4, <2>5 DEF CheckoutInv
<1>2. CASE \E p \in Preparers : PrepareStep(p) \/ Failure(p) BY <1>2, PrepareStepKeeps
<1>3. CASE EndTurn \/ \E p \in Preparers \cup {Chat} : StartTurn(p) BY <1>3, TurnBoundsKeep
<1>4. CASE TurnStep BY <1>4, WriteKeeps, CommitKeeps, TakeBranchKeeps DEF TurnStep
<1>5. CASE Kill BY <1>5, KillKeeps
<1> QED BY <1>1, <1>2, <1>3, <1>4, <1>5 DEF CheckoutNext

(* The checkout, its worktree, the preparations and the turn keep their    *)
(* types; HEAD's branch is at HEAD's commit and what is staged is in the   *)
(* tree (tools/git/checkout.rs).                                           *)
THEOREM CheckoutTypes == CheckoutSpec => []CheckoutTypeOK
<1>1. CheckoutInv => CheckoutTypeOK
  BY CloneFields, ShapesOf DEF CheckoutTypeOK
<1> QED BY <1>1, CheckoutInitHolds, CheckoutNextKeeps, PTL DEF CheckoutSpec

(* No work of a turn is lost: whichever pollers prepare the clone for      *)
(* another turn meanwhile, whichever of their commands fails and wherever  *)
(* the daemon is killed, it is in the tree, at HEAD or on a branch         *)
(* (channel/execution_checkout.rs, park_leftovers and prepare).            *)
THEOREM LeftoversAlwaysKept == CheckoutSpec => []LeftoversKept
<1>1. CheckoutInv => LeftoversKept BY DEF CheckoutInv
<1> QED BY <1>1, CheckoutInitHolds, CheckoutNextKeeps, PTL DEF CheckoutSpec
=============================================================================
