--------------------------- MODULE PrPollerProofs ---------------------------
(***************************************************************************)
(* Proofs about the pull request poller (PrPoller), for any number of PRs, *)
(* comments, ticks, failures and kills.                                    *)
(***************************************************************************)
EXTENDS PrPoller, TLAPS

Stages == {"down", "idle", "search", "read", "read diff", "dispatch", "turn"}
Heads == 0 .. MaxEvents + 1

Hub == [head : [Prs -> 1 .. MaxEvents + 1], open : SUBSET Prs,
        requested : SUBSET (Prs \ Own), events : 0 .. MaxEvents]
Notes == [Items -> [pr : Prs, kind : ItemKinds,
                    drafted : 0 .. MaxClock, published : 0 .. MaxClock]]
Looks == [pr : Prs \cup {NoLook.pr}, items : SUBSET Items, head : Heads]
Polls == [stage : Stages, pass : Passes, start : 0 .. MaxClock, todo : SUBSET Prs,
          look : Looks, jobs : SUBSET Jobs, prunes : SUBSET Prs, turn : SUBSET Jobs]
Histories ==
    [handled : SUBSET Items, excused : SUBSET (Items \X Excuses),
     excusing : SUBSET (Items \X Excuses), starts : SUBSET (1 .. MaxClock),
     asked : SUBSET Prs, forgotten : SUBSET Prs,
     returned : SUBSET (Prs \X Heads), faults : 0 .. MaxFaults]

Shapes ==
    /\ clock \in 1 .. MaxClock
    /\ github \in Hub /\ items \in Notes
    /\ state \in PollState /\ disk \in PollState
    /\ poll \in Polls /\ history \in Histories

(* What a tick works on, stage by stage: a PR is to be read, being read,   *)
(* pruned or a job, and only one of them.                                  *)
JobPrs == {job.pr : job \in poll.jobs}
Reviews == poll.pass \in {"requests", "tracked"}
Steps ==
    /\ \A p \in Prs : github.head[p] <= github.events + 1
    /\ poll.start <= clock
    /\ poll.stage \notin {"down", "idle"} => poll.start # Unseen
    /\ poll.stage \in {"down", "idle", "search"} => poll.jobs = {} /\ poll.prunes = {}
    /\ poll.stage = "read diff" =>
          /\ poll.look.pr \in Prs /\ poll.look.head # Unseen
          /\ poll.look.pr \notin poll.todo \cup JobPrs \cup poll.prunes
    /\ poll.stage \in {"read", "read diff"} =>
          /\ poll.todo \cap (JobPrs \cup poll.prunes) = {}
          /\ poll.prunes \cap JobPrs = {}
    /\ poll.stage \in {"dispatch", "turn"} => poll.prunes = {}
    /\ poll.pass = "tracked" /\ poll.stage = "read" => poll.todo \subseteq Tracked
    /\ poll.pass = "tracked" /\ poll.stage = "read diff" =>
          poll.todo \cup {poll.look.pr} \subseteq Tracked
    /\ poll.prunes \subseteq Tracked
    /\ \A a, b \in poll.jobs : a.pr = b.pr => a = b
    /\ \A job \in poll.jobs : job.head # Unseen
    /\ poll.stage = "turn" <=> poll.turn # {}
    /\ poll.stage = "turn" => \E job \in Jobs : poll.turn = {job}

(* A reviewer turn is marked with its PR and head. *)
Marked ==
    /\ poll.stage # "down" =>
          (state.inFlight # {} <=> poll.stage = "turn" /\ Reviews)
    /\ \A f \in state.inFlight : state.reviewed[f.pr] # Unseen
    /\ poll.stage = "turn" /\ Reviews =>
          \A job \in poll.turn : /\ state.reviewed[job.pr] = job.head
                                 /\ \A f \in state.inFlight : f.pr = job.pr

Base == Shapes /\ Steps /\ Marked

-----------------------------------------------------------------------------
(* Helpers *)

LEMMA Bounds ==
    /\ MaxClock \in Nat \ {0} /\ MaxEvents \in Nat /\ MaxFaults \in Nat /\ Own \subseteq Prs
BY PrPollerAssumption

LEMMA NoLookTyped == NoLook \in Looks
<1> DEFINE some == CHOOSE p \in Prs : TRUE
<1>1. NoLook = [pr |-> some, items |-> {}, head |-> 0]
  BY DEF NoLook, Unseen
<1> HIDE DEF some
<1>2. NoLook.pr = some
  BY <1>1
<1> QED
  BY <1>1, <1>2, Bounds DEF Looks, Heads

LEMMA IdleTyped ==
    /\ Idle \in Polls
    /\ Idle.stage = "idle" /\ Idle.jobs = {} /\ Idle.turn = {} /\ Idle.prunes = {}
    /\ Idle.todo = {} /\ Idle.start = Unseen /\ Idle.pass = "own"
<1>1. "idle" \in Stages /\ "own" \in Passes /\ 0 \in 0 .. MaxClock
  BY Bounds DEF Stages, Passes
<1> QED
  BY <1>1, NoLookTyped DEF Idle, Polls, Unseen

LEMMA StageTyped ==
    ASSUME NEW q \in Polls, NEW stage \in Stages
    PROVE  LET r == [q EXCEPT !.stage = stage]
           IN  /\ r \in Polls /\ r.stage = stage
               /\ r.jobs = q.jobs /\ r.turn = q.turn /\ r.prunes = q.prunes
               /\ r.todo = q.todo /\ r.start = q.start /\ r.pass = q.pass /\ r.look = q.look
BY DEF Polls

LEMMA ForgottenTyped ==
    ASSUME history \in Histories
    PROVE  /\ Forgotten \in Histories
           /\ Forgotten.handled = history.handled /\ Forgotten.excused = history.excused
           /\ Forgotten.starts = history.starts /\ Forgotten.returned = history.returned
           /\ Forgotten.faults = history.faults /\ Forgotten.forgotten = history.forgotten
           /\ Forgotten.excusing = {} /\ Forgotten.asked = {}
BY DEF Forgotten, Histories

LEMMA VisibleItems ==
    ASSUME NEW p PROVE Visible(p) \subseteq Items
BY DEF Visible

LEMMA ExcuseTyped ==
    ASSUME history \in Histories, NEW p, NEW why \in Excuses
    PROVE  Excuse(p, why) \in SUBSET (Items \X Excuses)
BY VisibleItems DEF Excuse, Histories

LEMMA FaultCounted ==
    ASSUME history \in Histories, Fault
    PROVE  history.faults + 1 \in 0 .. MaxFaults
BY Bounds DEF Fault, Histories

LEMMA MoreFaults ==
    ASSUME NEW h \in Histories, NEW n \in 0 .. MaxFaults
    PROVE  /\ [h EXCEPT !.faults = n] \in Histories
           /\ [h EXCEPT !.faults = n].handled = h.handled
           /\ [h EXCEPT !.faults = n].excused = h.excused
           /\ [h EXCEPT !.faults = n].excusing = h.excusing
           /\ [h EXCEPT !.faults = n].starts = h.starts
           /\ [h EXCEPT !.faults = n].asked = h.asked
           /\ [h EXCEPT !.faults = n].returned = h.returned
           /\ [h EXCEPT !.faults = n].forgotten = h.forgotten
BY DEF Histories

(* A save writes the document or counts a failure. *)
LEMMA Saved ==
    ASSUME history \in Histories, NEW s, NEW h \in Histories, h.faults = history.faults, Save(s, h)
    PROVE  /\ disk' = s \/ disk' = disk
           /\ history' \in Histories
           /\ history'.handled = h.handled /\ history'.excused = h.excused
           /\ history'.excusing = h.excusing /\ history'.starts = h.starts
           /\ history'.asked = h.asked /\ history'.returned = h.returned
           /\ history'.forgotten = h.forgotten
<1>1. CASE disk' = s /\ history' = h
  BY <1>1
<1>2. CASE Fault /\ disk' = disk /\ history' = [h EXCEPT !.faults = @ + 1]
  <2>1. history' = [h EXCEPT !.faults = h.faults + 1]
    BY <1>2
  <2>2. h.faults + 1 \in 0 .. MaxFaults
    BY <1>2, FaultCounted
  <2> QED
    BY <1>2, <2>1, <2>2, MoreFaults
<1> QED
  BY <1>1, <1>2 DEF Save

(* The rollback of a marked turn restores the head it replaced. *)
LEMMA RolledBackDoes ==
    ASSUME NEW s \in PollState
    PROVE  /\ RolledBack(s) \in PollState
           /\ RolledBack(s).inFlight = {} /\ RolledBack(s).lastPoll = s.lastPoll
           /\ \A p \in Prs : IF \E f \in s.inFlight : f.pr = p
                             THEN \E f \in s.inFlight : f.pr = p /\ RolledBack(s).reviewed[p] = f.prev
                             ELSE RolledBack(s).reviewed[p] = s.reviewed[p]
<1> DEFINE back == [p \in Prs |-> IF \E f \in s.inFlight : f.pr = p
                                  THEN (CHOOSE f \in s.inFlight : f.pr = p).prev
                                  ELSE s.reviewed[p]]
<1>1. \A f \in s.inFlight : f.prev \in Heads /\ f.pr \in Prs
  BY DEF PollState, Heads
<1>2. back \in [Prs -> Heads]
  BY <1>1 DEF PollState, Heads
<1>3. RolledBack(s) = [s EXCEPT !.inFlight = {}, !.reviewed = back]
  BY DEF RolledBack
<1> HIDE DEF back
<1>4. RolledBack(s) \in PollState /\ RolledBack(s).inFlight = {}
      /\ RolledBack(s).lastPoll = s.lastPoll /\ RolledBack(s).reviewed = back
  BY <1>2, <1>3 DEF PollState, Heads
<1>5. ASSUME NEW p \in Prs
      PROVE  IF \E f \in s.inFlight : f.pr = p
             THEN \E f \in s.inFlight : f.pr = p /\ back[p] = f.prev
             ELSE back[p] = s.reviewed[p]
  BY DEF back
<1> QED
  BY <1>4, <1>5

LEMMA DecidedTyped ==
    ASSUME NEW pass \in Passes, NEW look \in Looks, look.pr \in Prs, look.head # Unseen,
           NEW fresh \in SUBSET Items
    PROVE  /\ Decided(pass, look, fresh) \in SUBSET Jobs
           /\ \A job \in Decided(pass, look, fresh) :
                 job.pr = look.pr /\ job.head = look.head /\ job.items = fresh
           /\ \A a, b \in Decided(pass, look, fresh) : a = b
<1> DEFINE job == [pr |-> look.pr, head |-> look.head, items |-> fresh]
<1>1. job \in Jobs /\ job.pr = look.pr /\ job.head = look.head /\ job.items = fresh
  BY DEF Jobs, Looks, Heads
<1>2. Decided(pass, look, fresh) \in SUBSET {job}
  BY DEF Decided, Passes
<1> HIDE DEF job
<1> QED
  BY <1>1, <1>2

LEMMA FoundTyped ==
    ASSUME Shapes PROVE Found(poll.pass) \subseteq Prs
BY Bounds DEF Found, Shapes, Hub, Polls, Passes, Tracked

LEMMA FreshTyped ==
    ASSUME NEW pass, NEW p, NEW seen PROVE Fresh(pass, p, seen) \in SUBSET Items
BY VisibleItems DEF Fresh, Listed

-----------------------------------------------------------------------------
(* What each action does, field by field. *)

Lookless == UNCHANGED <<clock, github, items, state, disk>>

LEMMA StartTickDoes ==
    ASSUME Shapes, StartTick
    PROVE  /\ Lookless /\ UNCHANGED history
           /\ poll' \in Polls /\ poll.stage = "idle"
           /\ poll'.stage = "search" /\ poll'.start = clock /\ poll'.pass = "own"
           /\ poll'.jobs = {} /\ poll'.turn = {} /\ poll'.prunes = {} /\ poll'.todo = {}
<1>1. poll' = [Idle EXCEPT !.stage = "search", !.start = clock]
  BY DEF StartTick
<1>2. clock \in 0 .. MaxClock /\ "search" \in Stages
  BY Bounds DEF Shapes, Stages
<1>3. /\ poll' \in Polls
      /\ poll'.stage = "search" /\ poll'.start = clock /\ poll'.pass = Idle.pass
      /\ poll'.jobs = Idle.jobs /\ poll'.turn = Idle.turn /\ poll'.prunes = Idle.prunes
      /\ poll'.todo = Idle.todo
  BY <1>1, <1>2, IdleTyped DEF Polls
<1> QED
  BY <1>3, IdleTyped DEF StartTick, Lookless, GithubSame

LEMMA SearchDoes ==
    ASSUME Shapes, Search
    PROVE  /\ Lookless
           /\ poll' \in Polls /\ poll.stage = "search"
           /\ poll'.stage = "read" /\ poll'.todo = Found(poll.pass)
           /\ poll'.pass = poll.pass /\ poll'.start = poll.start /\ poll'.look = poll.look
           /\ poll'.jobs = poll.jobs /\ poll'.turn = poll.turn /\ poll'.prunes = poll.prunes
           /\ history' \in Histories
           /\ history'.handled = history.handled /\ history'.excused = history.excused
           /\ history'.starts = history.starts /\ history'.returned = history.returned
           /\ history.excusing \subseteq history'.excusing
           /\ history'.forgotten = history.forgotten
           /\ \A i \in Items, p \in Prs \ github.open :
                 i \in Visible(p) /\ poll.pass = (IF p \in Own THEN "own" ELSE "contributed")
                     => <<i, "closed">> \in history'.excusing
           /\ poll.pass = "contributed" =>
                 \A i \in Items, p \in github.requested \ (history.asked \cup Tracked) :
                     i \in Visible(p) => <<i, "moved">> \in history'.excusing
           /\ poll.pass = "contributed" =>
                 \A i \in Items, p \in Tracked :
                     i \in Visible(p) /\ items[i].kind = "review"
                         => <<i, "tracked">> \in history'.excusing
           /\ history'.asked = IF poll.pass = "requests" THEN github.requested
                               ELSE IF poll.pass = "contributed" THEN {} ELSE history.asked
<1> DEFINE closed == {p \in Prs \ github.open :
                         poll.pass = IF p \in Own THEN "own" ELSE "contributed"}
           moved == IF poll.pass = "contributed"
                    THEN github.requested \ (history.asked \cup Tracked)
                    ELSE {}
           C == UNION {Visible(p) : p \in closed}
           M == UNION {Visible(p) : p \in moved}
           reviews == {i \in Items : items[i].kind = "review"}
           tracked == IF poll.pass = "contributed" THEN Tracked ELSE {}
           T == UNION {Visible(p) \cap reviews : p \in tracked}
           asked == IF poll.pass = "requests" THEN github.requested
                    ELSE IF poll.pass = "contributed" THEN {} ELSE history.asked
<1>1. history' = [history EXCEPT !.excusing = history.excusing \cup (C \X {"closed"})
                                                               \cup (M \X {"moved"})
                                                               \cup (T \X {"tracked"}),
                                 !.asked = asked]
  BY DEF Search
<1>2. C \subseteq Items /\ M \subseteq Items /\ T \subseteq Items
  BY VisibleItems
<1>3. asked \subseteq Prs
  BY DEF Shapes, Hub, Histories
<1>4. \A i \in Items, p \in closed : i \in Visible(p) => i \in C
  OBVIOUS
<1>5. \A i \in Items, p \in moved : i \in Visible(p) => i \in M
  OBVIOUS
<1>a. \A i \in Items, p \in tracked :
          i \in Visible(p) /\ items[i].kind = "review" => i \in T
  OBVIOUS
<1> HIDE DEF C, M, T, asked
<1>6. /\ history' \in Histories
      /\ history'.handled = history.handled /\ history'.excused = history.excused
      /\ history'.starts = history.starts /\ history'.returned = history.returned
      /\ history'.excusing = history.excusing \cup (C \X {"closed"}) \cup (M \X {"moved"})
                                              \cup (T \X {"tracked"})
      /\ history'.asked = asked /\ history'.forgotten = history.forgotten
  BY <1>1, <1>2, <1>3 DEF Histories, Shapes, Excuses
<1>7. Found(poll.pass) \in SUBSET Prs /\ "read" \in Stages
  BY FoundTyped DEF Stages
<1>8. poll' = [poll EXCEPT !.stage = "read", !.todo = Found(poll.pass)]
  BY DEF Search
<1>9. /\ poll' \in Polls
      /\ poll'.stage = "read" /\ poll'.todo = Found(poll.pass)
      /\ poll'.pass = poll.pass /\ poll'.start = poll.start /\ poll'.look = poll.look
      /\ poll'.jobs = poll.jobs /\ poll'.turn = poll.turn /\ poll'.prunes = poll.prunes
  BY <1>7, <1>8 DEF Polls, Shapes
<1>10. Lookless /\ poll.stage = "search"
  BY DEF Search, Lookless, GithubSame
<1>11. \A i \in Items, p \in Prs \ github.open :
          i \in Visible(p) /\ poll.pass = (IF p \in Own THEN "own" ELSE "contributed")
              => <<i, "closed">> \in history'.excusing
  BY <1>4, <1>6
<1>12. poll.pass = "contributed" =>
          \A i \in Items, p \in github.requested \ (history.asked \cup Tracked) :
              i \in Visible(p) => <<i, "moved">> \in history'.excusing
  BY <1>5, <1>6
<1>13. poll.pass = "contributed" =>
          \A i \in Items, p \in Tracked :
              i \in Visible(p) /\ items[i].kind = "review" => <<i, "tracked">> \in history'.excusing
  BY <1>6, <1>a
<1> QED
  BY <1>6, <1>9, <1>10, <1>11, <1>12, <1>13 DEF asked

(* The tick ends early, or the daemon does. *)
LEMMA BreakDoes ==
    ASSUME Shapes, SearchFails \/ Kill
    PROVE  /\ Lookless
           /\ poll' \in Polls
           /\ \/ /\ poll'.stage = "idle" /\ poll.stage = "search"
                 /\ history'.forgotten = history.forgotten
              \/ poll'.stage = "down" /\ poll.stage # "down"
           /\ poll'.jobs = {} /\ poll'.turn = {} /\ poll'.prunes = {} /\ poll'.todo = {}
           /\ poll'.start = Unseen /\ poll'.pass = "own"
           /\ history' \in Histories
           /\ history'.handled = history.handled /\ history'.excused = history.excused
           /\ history'.starts = history.starts /\ history'.returned = history.returned
<1>1. "down" \in Stages
  BY DEF Stages
<1>2. history.faults + 1 \in 0 .. MaxFaults
  BY FaultCounted DEF SearchFails, Kill, Shapes
<1>3. CASE SearchFails
  <2>1. history' = [Forgotten EXCEPT !.faults = history.faults + 1]
    BY <1>3, ForgottenTyped DEF SearchFails, Shapes
  <2>2. /\ history' \in Histories
        /\ history'.handled = history.handled /\ history'.excused = history.excused
        /\ history'.starts = history.starts /\ history'.returned = history.returned
        /\ history'.forgotten = history.forgotten
    BY <1>2, <2>1, ForgottenTyped, MoreFaults DEF Shapes
  <2> QED
    BY <1>3, <2>2, IdleTyped DEF SearchFails, Lookless, GithubSame
<1>4. CASE Kill
  <2>1. history' = [[Forgotten EXCEPT !.forgotten = {}] EXCEPT !.faults = history.faults + 1]
    BY <1>4, ForgottenTyped DEF Kill, Shapes
  <2> DEFINE h == [Forgotten EXCEPT !.forgotten = {}]
  <2>2. /\ h \in Histories
        /\ h.handled = history.handled /\ h.excused = history.excused
        /\ h.starts = history.starts /\ h.returned = history.returned
    BY ForgottenTyped DEF Histories, Shapes
  <2> HIDE DEF h
  <2>3. /\ history' \in Histories
        /\ history'.handled = history.handled /\ history'.excused = history.excused
        /\ history'.starts = history.starts /\ history'.returned = history.returned
    BY <1>2, <2>1, <2>2, MoreFaults DEF h
  <2>4. poll' = [Idle EXCEPT !.stage = "down"] /\ poll.stage # "down" /\ Lookless
    BY <1>4 DEF Kill, Lookless, GithubSame
  <2> QED
    BY <1>1, <2>3, <2>4, IdleTyped, StageTyped
<1> QED
  BY <1>3, <1>4

LEMMA ReadPrDoes ==
    ASSUME Base, NEW p \in Prs, ReadPr(p)
    PROVE  /\ Lookless /\ UNCHANGED history
           /\ poll.stage = "read" /\ p \in poll.todo
           /\ poll' \in Polls
           /\ poll'.todo = poll.todo \ {p}
           /\ poll'.pass = poll.pass /\ poll'.start = poll.start /\ poll'.turn = poll.turn
           /\ \/ /\ poll.pass = "requests" /\ poll'.stage = "read"
                 /\ IF p \in Tracked THEN poll'.jobs = poll.jobs
                    ELSE \E job \in Jobs : /\ job.pr = p /\ job.head = github.head[p]
                                           /\ poll'.jobs = poll.jobs \cup {job}
                                           /\ job.items = {}
                 /\ poll'.prunes = poll.prunes
              \/ /\ poll.pass = "tracked" /\ p \notin github.open /\ poll'.stage = "read"
                 /\ poll'.prunes = poll.prunes \cup {p} /\ poll'.jobs = poll.jobs
              \/ /\ poll.pass # "requests" /\ (poll.pass = "tracked" => p \in github.open)
                 /\ poll'.stage = "read diff"
                 /\ poll'.look.pr = p /\ poll'.look.head = github.head[p]
                 /\ poll'.look.items = Visible(p)
                 /\ poll'.jobs = poll.jobs /\ poll'.prunes = poll.prunes
<1> DEFINE look == [pr |-> p, head |-> github.head[p], items |-> Visible(p)]
           rest == [poll EXCEPT !.todo = poll.todo \ {p}]
           job == [pr |-> p, head |-> github.head[p], items |-> {}]
<1>1. /\ poll' = IF poll.pass = "requests"
                 THEN [rest EXCEPT !.jobs = @ \cup Decided("requests", look, {})]
                 ELSE IF poll.pass = "tracked" /\ p \notin github.open
                 THEN [rest EXCEPT !.prunes = @ \cup {p}]
                 ELSE [rest EXCEPT !.stage = "read diff", !.look = look]
      /\ poll.stage = "read" /\ p \in poll.todo
      /\ Lookless /\ UNCHANGED history
  BY DEF ReadPr, Lookless, GithubSame
<1>2. github.head[p] \in Heads /\ poll \in Polls
  BY Bounds DEF Base, Shapes, Hub, Heads
<1>3. look \in Looks /\ look.pr = p /\ look.head = github.head[p] /\ look.items = Visible(p)
  BY <1>2, VisibleItems DEF Looks
<1>4. job \in Jobs /\ job.pr = p /\ job.head = github.head[p] /\ job.items = {}
  BY <1>2 DEF Jobs, Heads
<1>5. Decided("requests", look, {}) = IF p \in Tracked THEN {} ELSE {job}
  BY DEF Decided
<1> HIDE DEF look, job
<1>6. /\ rest \in Polls /\ rest.todo = poll.todo \ {p}
      /\ rest.pass = poll.pass /\ rest.start = poll.start /\ rest.turn = poll.turn
      /\ rest.stage = poll.stage /\ rest.jobs = poll.jobs /\ rest.prunes = poll.prunes
  BY <1>2 DEF Polls
<1> HIDE DEF rest
<1>7. CASE poll.pass = "requests"
  <2>1. poll' = [rest EXCEPT !.jobs = rest.jobs \cup (IF p \in Tracked THEN {} ELSE {job})]
    BY <1>1, <1>5, <1>7
  <2>2. /\ poll' \in Polls /\ poll'.todo = rest.todo
        /\ poll'.pass = rest.pass /\ poll'.start = rest.start /\ poll'.turn = rest.turn
        /\ poll'.stage = rest.stage /\ poll'.prunes = rest.prunes
        /\ poll'.jobs = rest.jobs \cup (IF p \in Tracked THEN {} ELSE {job})
    BY <1>4, <1>6, <2>1 DEF Polls
  <2> QED
    BY <1>1, <1>4, <1>6, <1>7, <2>2
<1>8. CASE poll.pass = "tracked" /\ p \notin github.open
  <2>1. poll' = [rest EXCEPT !.prunes = rest.prunes \cup {p}]
    BY <1>1, <1>8
  <2>2. /\ poll' \in Polls /\ poll'.todo = rest.todo
        /\ poll'.pass = rest.pass /\ poll'.start = rest.start /\ poll'.turn = rest.turn
        /\ poll'.stage = rest.stage /\ poll'.jobs = rest.jobs
        /\ poll'.prunes = rest.prunes \cup {p}
    BY <1>6, <2>1 DEF Polls
  <2> QED
    BY <1>1, <1>6, <1>8, <2>2
<1>9. CASE poll.pass # "requests" /\ (poll.pass = "tracked" => p \in github.open)
  <2>1. poll' = [rest EXCEPT !.stage = "read diff", !.look = look]
    BY <1>1, <1>9
  <2>2. "read diff" \in Stages
    BY DEF Stages
  <2>3. /\ poll' \in Polls /\ poll'.todo = rest.todo
        /\ poll'.pass = rest.pass /\ poll'.start = rest.start /\ poll'.turn = rest.turn
        /\ poll'.stage = "read diff" /\ poll'.jobs = rest.jobs /\ poll'.prunes = rest.prunes
        /\ poll'.look = look
    BY <1>3, <1>6, <2>1, <2>2 DEF Polls
  <2> QED
    BY <1>1, <1>3, <1>6, <1>9, <2>3
<1> QED
  BY <1>7, <1>8, <1>9

LEMMA ReadDiffDoes ==
    ASSUME Base, ReadDiffComments
    PROVE  LET fresh == Fresh(poll.pass, poll.look.pr, poll.look.items)
               decided == Decided(poll.pass, poll.look, fresh)
           IN  /\ Lookless /\ UNCHANGED history
               /\ poll.stage = "read diff" /\ poll' \in Polls
               /\ poll'.stage = "read" /\ poll'.jobs = poll.jobs \cup decided
               /\ decided \in SUBSET Jobs /\ fresh \in SUBSET Items
               /\ \A job \in decided : /\ job.pr = poll.look.pr /\ job.head = poll.look.head
                                       /\ job.items = fresh
               /\ \A a, b \in decided : a = b
               /\ poll'.pass = poll.pass /\ poll'.start = poll.start /\ poll'.turn = poll.turn
               /\ poll'.todo = poll.todo /\ poll'.prunes = poll.prunes
<1> DEFINE fresh == Fresh(poll.pass, poll.look.pr, poll.look.items)
           decided == Decided(poll.pass, poll.look, fresh)
<1>1. poll.stage = "read diff" /\ Lookless /\ UNCHANGED history
  BY DEF ReadDiffComments, Lookless, GithubSame
<1>2. poll.look \in Looks /\ poll.look.pr \in Prs /\ poll.look.head # Unseen
      /\ poll.pass \in Passes /\ poll \in Polls
  BY <1>1 DEF Base, Shapes, Steps, Polls
<1>3. fresh \in SUBSET Items
  BY FreshTyped
<1>4. /\ decided \in SUBSET Jobs
      /\ \A job \in decided : /\ job.pr = poll.look.pr /\ job.head = poll.look.head
                              /\ job.items = fresh
      /\ \A a, b \in decided : a = b
  BY <1>2, <1>3, DecidedTyped
<1>5. poll' = [poll EXCEPT !.stage = "read", !.look = NoLook, !.jobs = poll.jobs \cup decided]
  BY DEF ReadDiffComments
<1> HIDE DEF decided, fresh
<1>6. "read" \in Stages
  BY DEF Stages
<1>7. /\ poll' \in Polls
      /\ poll'.stage = "read" /\ poll'.jobs = poll.jobs \cup decided
      /\ poll'.pass = poll.pass /\ poll'.start = poll.start /\ poll'.turn = poll.turn
      /\ poll'.todo = poll.todo /\ poll'.prunes = poll.prunes
  BY <1>2, <1>4, <1>5, <1>6, NoLookTyped DEF Polls
<1> QED
  BY <1>1, <1>3, <1>4, <1>7 DEF decided, fresh

LEMMA ReadFailsDoes ==
    ASSUME Base, NEW p \in Prs, ReadFails(p)
    PROVE  /\ Lookless
           /\ \/ poll.stage = "read" /\ p \in poll.todo
              \/ poll.stage = "read diff" /\ p = poll.look.pr
           /\ poll' \in Polls /\ poll'.stage = "read" /\ poll'.todo = poll.todo \ {p}
           /\ poll'.pass = poll.pass /\ poll'.start = poll.start /\ poll'.turn = poll.turn
           /\ poll'.jobs = poll.jobs /\ poll'.prunes = poll.prunes
           /\ history' \in Histories
           /\ history'.handled = history.handled /\ history'.excused = history.excused
           /\ history'.starts = history.starts /\ history'.returned = history.returned
           /\ history'.asked = history.asked /\ history'.forgotten = history.forgotten
           /\ history'.excusing = Excuse(p, "fetch")
<1>1. /\ poll' = [poll EXCEPT !.stage = "read", !.look = NoLook, !.todo = poll.todo \ {p}]
      /\ history' = [history EXCEPT !.excusing = Excuse(p, "fetch"),
                                    !.faults = history.faults + 1]
      /\ Lookless
      /\ \/ poll.stage = "read" /\ p \in poll.todo
         \/ poll.stage = "read diff" /\ p = poll.look.pr
  BY DEF ReadFails, Lookless, GithubSame
<1>2. "read" \in Stages /\ poll \in Polls /\ history \in Histories /\ "fetch" \in Excuses
  BY DEF Stages, Base, Shapes, Excuses
<1>3. history.faults + 1 \in 0 .. MaxFaults /\ Excuse(p, "fetch") \in SUBSET (Items \X Excuses)
  BY <1>2, FaultCounted, ExcuseTyped DEF ReadFails
<1>4. /\ poll' \in Polls /\ poll'.stage = "read" /\ poll'.todo = poll.todo \ {p}
      /\ poll'.pass = poll.pass /\ poll'.start = poll.start /\ poll'.turn = poll.turn
      /\ poll'.jobs = poll.jobs /\ poll'.prunes = poll.prunes
  BY <1>1, <1>2, NoLookTyped DEF Polls
<1>5. /\ history' \in Histories
      /\ history'.handled = history.handled /\ history'.excused = history.excused
      /\ history'.starts = history.starts /\ history'.returned = history.returned
      /\ history'.asked = history.asked /\ history'.forgotten = history.forgotten
      /\ history'.excusing = Excuse(p, "fetch")
  BY <1>1, <1>2, <1>3 DEF Histories
<1> QED
  BY <1>1, <1>4, <1>5

LEMMA EndReadDoes ==
    ASSUME Base, EndRead
    PROVE  /\ UNCHANGED <<clock, github, items>>
           /\ poll.stage = "read" /\ poll.todo = {}
           /\ poll' \in Polls /\ poll'.stage = "dispatch" /\ poll'.prunes = {}
           /\ poll'.todo = poll.todo /\ poll'.jobs = poll.jobs
           /\ poll'.pass = poll.pass /\ poll'.start = poll.start /\ poll'.turn = poll.turn
           /\ state' \in PollState
           /\ state'.lastPoll = state.lastPoll /\ state'.inFlight = state.inFlight
           /\ \A p \in Prs : state'.reviewed[p] =
                                IF p \in poll.prunes THEN Unseen ELSE state.reviewed[p]
           /\ disk' = state' \/ disk' = disk
           /\ history' \in Histories
           /\ history'.handled = history.handled /\ history'.excused = history.excused
           /\ history'.starts = history.starts /\ history'.returned = history.returned
           /\ history'.forgotten = history.forgotten
           /\ history'.asked = history.asked /\ history'.excusing = history.excusing
<1> DEFINE pruned == [p \in Prs |-> IF p \in poll.prunes THEN Unseen ELSE state.reviewed[p]]
<1>1. /\ poll' = [poll EXCEPT !.stage = "dispatch", !.prunes = {}]
      /\ state' = [state EXCEPT !.reviewed = pruned]
      /\ poll.stage = "read" /\ poll.todo = {} /\ UNCHANGED <<clock, github, items>>
  BY DEF EndRead, GithubSame
<1>2. "dispatch" \in Stages /\ poll \in Polls /\ history \in Histories /\ state \in PollState
  BY DEF Stages, Base, Shapes
<1>3. pruned \in [Prs -> 0 .. MaxEvents + 1]
  BY <1>2, Bounds DEF PollState, Unseen
<1>4. \A p \in Prs : pruned[p] = IF p \in poll.prunes THEN Unseen ELSE state.reviewed[p]
  OBVIOUS
<1> HIDE DEF pruned
<1>5. state' \in PollState /\ state'.lastPoll = state.lastPoll
      /\ state'.inFlight = state.inFlight /\ state'.reviewed = pruned
  BY <1>1, <1>2, <1>3 DEF PollState
<1>6. /\ poll' \in Polls /\ poll'.stage = "dispatch" /\ poll'.prunes = {}
      /\ poll'.todo = poll.todo /\ poll'.jobs = poll.jobs
      /\ poll'.pass = poll.pass /\ poll'.start = poll.start /\ poll'.turn = poll.turn
  BY <1>1, <1>2 DEF Polls
<1>7. UNCHANGED <<disk, history>> \/ Save(state', history)
  BY DEF EndRead
<1>8. /\ disk' = state' \/ disk' = disk
      /\ history' \in Histories
      /\ history'.handled = history.handled /\ history'.excused = history.excused
      /\ history'.starts = history.starts /\ history'.returned = history.returned
      /\ history'.forgotten = history.forgotten
      /\ history'.asked = history.asked /\ history'.excusing = history.excusing
  BY <1>2, <1>7, Saved
<1> QED
  BY <1>1, <1>4, <1>5, <1>6, <1>8

LEMMA PrepFailsDoes ==
    ASSUME Base, NEW job \in poll.jobs, PrepFails(job)
    PROVE  /\ Lookless
           /\ poll.stage = "dispatch" /\ Reviews
           /\ poll' \in Polls /\ poll'.stage = poll.stage /\ poll'.jobs = poll.jobs \ {job}
           /\ poll'.todo = poll.todo /\ poll'.prunes = poll.prunes
           /\ poll'.pass = poll.pass /\ poll'.start = poll.start /\ poll'.turn = poll.turn
           /\ history' \in Histories
           /\ history'.handled = history.handled /\ history'.excused = history.excused
           /\ history'.starts = history.starts /\ history'.returned = history.returned
           /\ history'.asked = history.asked /\ history'.forgotten = history.forgotten
           /\ history'.excusing = Excuse(job.pr, "prep")
<1>1. /\ poll' = [poll EXCEPT !.jobs = poll.jobs \ {job}]
      /\ history' = [history EXCEPT !.excusing = Excuse(job.pr, "prep"),
                                    !.faults = history.faults + 1]
      /\ Lookless /\ poll.stage = "dispatch" /\ Reviews
  BY DEF PrepFails, Lookless, GithubSame, Reviews
<1>2. poll \in Polls /\ history \in Histories /\ "prep" \in Excuses
  BY DEF Base, Shapes, Excuses
<1>3. history.faults + 1 \in 0 .. MaxFaults /\ Excuse(job.pr, "prep") \in SUBSET (Items \X Excuses)
  BY <1>2, FaultCounted, ExcuseTyped DEF PrepFails
<1>4. /\ poll' \in Polls /\ poll'.stage = poll.stage /\ poll'.jobs = poll.jobs \ {job}
      /\ poll'.todo = poll.todo /\ poll'.prunes = poll.prunes
      /\ poll'.pass = poll.pass /\ poll'.start = poll.start /\ poll'.turn = poll.turn
  BY <1>1, <1>2 DEF Polls
<1>5. /\ history' \in Histories
      /\ history'.handled = history.handled /\ history'.excused = history.excused
      /\ history'.starts = history.starts /\ history'.returned = history.returned
      /\ history'.asked = history.asked /\ history'.forgotten = history.forgotten
      /\ history'.excusing = Excuse(job.pr, "prep")
  BY <1>1, <1>2, <1>3 DEF Histories
<1> QED
  BY <1>1, <1>4, <1>5

LEMMA DispatchDoes ==
    ASSUME Base, NEW job \in poll.jobs, Dispatch(job)
    PROVE  /\ UNCHANGED <<clock, github, items>>
           /\ job \in Jobs /\ poll.stage = "dispatch"
           /\ poll' \in Polls /\ poll'.stage = "turn" /\ poll'.jobs = poll.jobs \ {job}
           /\ poll'.turn = {job}
           /\ poll'.todo = poll.todo /\ poll'.prunes = poll.prunes
           /\ poll'.pass = poll.pass /\ poll'.start = poll.start
           /\ state' \in PollState /\ state'.lastPoll = state.lastPoll
           /\ IF Reviews
              THEN /\ \A p \in Prs : state'.reviewed[p] =
                                        IF p = job.pr THEN job.head ELSE state.reviewed[p]
                   /\ state'.inFlight = {[pr |-> job.pr, prev |-> state.reviewed[job.pr]]}
                   /\ disk' = state' \/ disk' = disk
                   /\ history'.forgotten = history.forgotten \ {job.pr}
              ELSE /\ UNCHANGED <<state, disk>>
                   /\ history'.forgotten = history.forgotten
           /\ history' \in Histories
           /\ history'.handled = history.handled \cup job.items
           /\ history'.excused = history.excused
           /\ history'.starts = history.starts /\ history'.returned = history.returned
           /\ history'.asked = history.asked /\ history'.excusing = history.excusing
<1> DEFINE mark == [pr |-> job.pr, prev |-> state.reviewed[job.pr]]
           h == [history EXCEPT !.handled = history.handled \cup job.items]
           f == [h EXCEPT !.forgotten = h.forgotten \ {job.pr}]
<1>1. /\ poll' = [poll EXCEPT !.stage = "turn", !.jobs = poll.jobs \ {job}, !.turn = {job}]
      /\ IF Reviews THEN /\ state' = [state EXCEPT !.reviewed[job.pr] = job.head,
                                                   !.inFlight = {mark}]
                         /\ Save(state', f)
                    ELSE history' = h /\ UNCHANGED <<state, disk>>
      /\ UNCHANGED <<clock, github, items>> /\ poll.stage = "dispatch"
  BY DEF Dispatch, GithubSame, Reviews
<1>2. /\ poll \in Polls /\ history \in Histories /\ state \in PollState /\ "turn" \in Stages
      /\ job \in Jobs
  BY DEF Base, Shapes, Stages, Polls
<1>3. job.pr \in Prs /\ job.head \in Heads /\ job.items \subseteq Items
  BY <1>2 DEF Jobs, Heads
<1>4. mark \in [pr : Prs, prev : 0 .. MaxEvents + 1]
  BY <1>2, <1>3 DEF PollState
<1>5. /\ h \in Histories /\ h.handled = history.handled \cup job.items
      /\ h.excused = history.excused /\ h.faults = history.faults
      /\ h.starts = history.starts /\ h.returned = history.returned
      /\ h.asked = history.asked /\ h.excusing = history.excusing
      /\ h.forgotten = history.forgotten
  BY <1>2, <1>3 DEF Histories
<1> HIDE DEF h
<1>a. /\ f \in Histories /\ f.handled = h.handled /\ f.excused = h.excused
      /\ f.faults = h.faults /\ f.starts = h.starts /\ f.returned = h.returned
      /\ f.asked = h.asked /\ f.excusing = h.excusing
      /\ f.forgotten = h.forgotten \ {job.pr}
  BY <1>5 DEF Histories
<1> HIDE DEF mark, f
<1>6. /\ poll' \in Polls /\ poll'.stage = "turn" /\ poll'.jobs = poll.jobs \ {job}
      /\ poll'.turn = {job}
      /\ poll'.todo = poll.todo /\ poll'.prunes = poll.prunes
      /\ poll'.pass = poll.pass /\ poll'.start = poll.start
  BY <1>1, <1>2 DEF Polls
<1>7. CASE Reviews
  <2>1. state' = [state EXCEPT !.reviewed[job.pr] = job.head, !.inFlight = {mark}]
    BY <1>1, <1>7
  <2>2. /\ state' \in PollState /\ state'.lastPoll = state.lastPoll
        /\ state'.inFlight = {mark}
        /\ state'.reviewed = [state.reviewed EXCEPT ![job.pr] = job.head]
    BY <1>2, <1>3, <1>4, <2>1 DEF PollState, Heads
  <2>3. \A p \in Prs : state'.reviewed[p] = IF p = job.pr THEN job.head ELSE state.reviewed[p]
    BY <1>2, <1>3, <2>2 DEF PollState
  <2>4. /\ disk' = state' \/ disk' = disk
        /\ history' \in Histories
        /\ history'.handled = f.handled /\ history'.excused = f.excused
        /\ history'.excusing = f.excusing /\ history'.starts = f.starts
        /\ history'.asked = f.asked /\ history'.returned = f.returned
        /\ history'.forgotten = f.forgotten
    BY <1>1, <1>2, <1>5, <1>7, <1>a, Saved
  <2> QED
    BY <1>1, <1>2, <1>5, <1>6, <1>7, <1>a, <2>2, <2>3, <2>4 DEF mark
<1>8. CASE ~Reviews
  BY <1>1, <1>2, <1>5, <1>6, <1>8
<1> QED
  BY <1>7, <1>8

LEMMA TurnReturnsDoes ==
    ASSUME Base, TurnReturns
    PROVE  \E job \in Jobs :
           /\ poll.turn = {job}
           /\ UNCHANGED <<clock, items>> /\ github' \in Hub
           /\ github'.head = github.head /\ github'.open = github.open
           /\ github'.events = github.events /\ github'.requested \subseteq github.requested
           /\ poll.stage = "turn"
           /\ poll' \in Polls /\ poll'.stage = "dispatch" /\ poll'.turn = {}
           /\ poll'.jobs = poll.jobs /\ poll'.todo = poll.todo /\ poll'.prunes = poll.prunes
           /\ poll'.pass = poll.pass /\ poll'.start = poll.start
           /\ state' \in PollState /\ state'.lastPoll = state.lastPoll
           /\ state'.reviewed = state.reviewed
           /\ IF Reviews
              THEN /\ state'.inFlight = {}
                   /\ disk' = state' \/ disk' = disk
                   /\ history'.returned = history.returned \cup {<<job.pr, job.head>>}
              ELSE UNCHANGED <<state, disk, history>>
           /\ history' \in Histories
           /\ history'.handled = history.handled /\ history'.excused = history.excused
           /\ history'.starts = history.starts
           /\ history'.asked = history.asked /\ history'.excusing = history.excusing
           /\ history'.forgotten = history.forgotten
<1>1. poll.stage = "turn" /\ UNCHANGED <<clock, items>>
      /\ poll' = [poll EXCEPT !.stage = "dispatch", !.turn = {}]
  BY DEF TurnReturns
<1>2. /\ poll \in Polls /\ history \in Histories /\ state \in PollState /\ github \in Hub
      /\ "dispatch" \in Stages
  BY DEF Base, Shapes, Stages
<1>3. PICK job \in Jobs : poll.turn = {job}
  BY <1>1 DEF Base, Steps
<1> DEFINE h == [history EXCEPT !.returned = history.returned \cup {<<job.pr, job.head>>}]
           g == [github EXCEPT !.requested = github.requested \ {job.pr}]
<1>4. IF Reviews THEN /\ state' = [state EXCEPT !.inFlight = {}]
                      /\ Save(state', h)
                      /\ github' \in {github, g}
                 ELSE UNCHANGED <<state, disk, history, github>>
  BY <1>3 DEF TurnReturns, Reviews
<1>5. job.pr \in Prs /\ job.head \in Heads
  BY DEF Jobs, Heads
<1>6. /\ h \in Histories /\ h.handled = history.handled
      /\ h.excused = history.excused /\ h.faults = history.faults
      /\ h.starts = history.starts /\ h.asked = history.asked
      /\ h.excusing = history.excusing /\ h.forgotten = history.forgotten
      /\ h.returned = history.returned \cup {<<job.pr, job.head>>}
  BY <1>2, <1>5 DEF Histories
<1>7. /\ g \in Hub /\ g.head = github.head /\ g.open = github.open /\ g.events = github.events
      /\ g.requested \subseteq github.requested
  BY <1>2 DEF Hub
<1> HIDE DEF h, g
<1>8. /\ poll' \in Polls /\ poll'.stage = "dispatch" /\ poll'.turn = {}
      /\ poll'.jobs = poll.jobs /\ poll'.todo = poll.todo /\ poll'.prunes = poll.prunes
      /\ poll'.pass = poll.pass /\ poll'.start = poll.start
  BY <1>1, <1>2 DEF Polls
<1>9. CASE Reviews
  <2>1. state' = [state EXCEPT !.inFlight = {}]
    BY <1>4, <1>9
  <2>2. /\ state' \in PollState /\ state'.lastPoll = state.lastPoll
        /\ state'.inFlight = {} /\ state'.reviewed = state.reviewed
    BY <1>2, <2>1 DEF PollState
  <2>3. /\ disk' = state' \/ disk' = disk
        /\ history' \in Histories
        /\ history'.handled = h.handled /\ history'.excused = h.excused
        /\ history'.excusing = h.excusing /\ history'.starts = h.starts
        /\ history'.asked = h.asked /\ history'.returned = h.returned
        /\ history'.forgotten = h.forgotten
    BY <1>2, <1>4, <1>6, <1>9, Saved
  <2> QED
    BY <1>1, <1>2, <1>3, <1>4, <1>6, <1>7, <1>8, <1>9, <2>2, <2>3
<1>10. CASE ~Reviews
  BY <1>1, <1>2, <1>3, <1>4, <1>8, <1>10
<1> QED
  BY <1>9, <1>10

LEMMA EndPassDoes ==
    ASSUME Base, EndPass
    PROVE  /\ Lookless /\ UNCHANGED history
           /\ poll.stage = "dispatch" /\ poll.jobs = {} /\ poll.pass # "contributed"
           /\ poll' \in Polls /\ poll'.stage = "search" /\ poll'.pass = NextPass(poll.pass)
           /\ poll'.jobs = poll.jobs /\ poll'.todo = poll.todo /\ poll'.prunes = poll.prunes
           /\ poll'.turn = poll.turn /\ poll'.start = poll.start
<1>1. /\ poll' = [poll EXCEPT !.stage = "search", !.pass = NextPass(poll.pass)]
      /\ Lookless /\ UNCHANGED history
      /\ poll.stage = "dispatch" /\ poll.jobs = {} /\ poll.pass # "contributed"
  BY DEF EndPass, Lookless, GithubSame
<1>2. poll \in Polls /\ "search" \in Stages
  BY DEF Base, Shapes, Stages
<1>3. NextPass(poll.pass) \in Passes
  BY <1>1, <1>2 DEF NextPass, Passes, Polls
<1> QED
  BY <1>1, <1>2, <1>3 DEF Polls

LEMMA EndTickDoes ==
    ASSUME Base, EndTick
    PROVE  /\ UNCHANGED <<clock, github, items>>
           /\ poll.stage = "dispatch" /\ poll.jobs = {} /\ poll.pass = "contributed"
           /\ poll' \in Polls /\ poll'.stage = "idle"
           /\ poll'.jobs = {} /\ poll'.turn = {} /\ poll'.prunes = {} /\ poll'.todo = {}
           /\ poll'.start = Unseen /\ poll'.pass = "own"
           /\ state' \in PollState /\ state'.lastPoll = poll.start
           /\ state'.reviewed = state.reviewed /\ state'.inFlight = state.inFlight
           /\ disk' = state' \/ disk' = disk
           /\ history' \in Histories
           /\ history'.handled = history.handled
           /\ history'.excused = history.excused \cup history.excusing
           /\ history'.starts = history.starts \cup {poll.start}
           /\ history'.returned = history.returned /\ history'.forgotten = history.forgotten
<1> DEFINE h == [Forgotten EXCEPT !.excused = Forgotten.excused \cup history.excusing,
                                  !.starts = Forgotten.starts \cup {poll.start}]
<1>1. /\ poll' = Idle /\ state' = [state EXCEPT !.lastPoll = poll.start]
      /\ Save(state', h) /\ UNCHANGED <<clock, github, items>>
      /\ poll.stage = "dispatch" /\ poll.jobs = {} /\ poll.pass = "contributed"
  BY DEF EndTick, GithubSame
<1>2. poll.start \in 1 .. MaxClock /\ state \in PollState /\ history \in Histories
  BY <1>1, Bounds DEF Base, Shapes, Steps, Polls, Unseen
<1>3. /\ h \in Histories /\ h.handled = history.handled
      /\ h.excused = history.excused \cup history.excusing
      /\ h.starts = history.starts \cup {poll.start}
      /\ h.returned = history.returned /\ h.faults = history.faults
      /\ h.forgotten = history.forgotten
  BY <1>2, ForgottenTyped DEF Histories
<1> HIDE DEF h
<1>4. /\ state' \in PollState /\ state'.lastPoll = poll.start
      /\ state'.reviewed = state.reviewed /\ state'.inFlight = state.inFlight
  BY <1>1, <1>2 DEF PollState
<1>5. /\ disk' = state' \/ disk' = disk
      /\ history' \in Histories
      /\ history'.handled = h.handled /\ history'.excused = h.excused
      /\ history'.starts = h.starts /\ history'.returned = h.returned
      /\ history'.forgotten = h.forgotten
  BY <1>1, <1>2, <1>3, Saved
<1> QED
  BY <1>1, <1>3, <1>4, <1>5, IdleTyped

LEMMA StartingNowTyped ==
    ASSUME Shapes
    PROVE  /\ StartingNow \in PollState
           /\ StartingNow.lastPoll = clock /\ StartingNow.inFlight = {}
           /\ \A p \in Prs : StartingNow.reviewed[p] = Unseen
<1> DEFINE none == [p \in Prs |-> Unseen]
<1>1. none \in [Prs -> 0 .. MaxEvents + 1] /\ \A p \in Prs : none[p] = Unseen
  BY Bounds DEF Unseen
<1>2. StartingNow = [lastPoll |-> clock, reviewed |-> none, inFlight |-> {}]
  BY DEF StartingNow
<1> HIDE DEF none
<1> QED
  BY <1>1, <1>2 DEF PollState, Shapes

(* The document is loaded and rolled back, or the poller starts from now. *)
Reloaded ==
    /\ state' = RolledBack(disk)
    /\ disk' = state' \/ disk' = disk
    /\ history'.excused = history.excused
    /\ history'.starts = history.starts
Restarted ==
    /\ state' = StartingNow /\ disk' = disk
    /\ history.excused \subseteq history'.excused
    /\ \A i \in Items, p \in Prs : i \in Visible(p) => <<i, "fresh start">> \in history'.excused
    /\ history'.starts = history.starts \cup {clock}
    /\ history'.forgotten = {p \in Prs : disk.reviewed[p] # Unseen}

LEMMA BootDoes ==
    ASSUME Base, Boot
    PROVE  /\ UNCHANGED <<clock, github, items>>
           /\ poll.stage = "down"
           /\ poll' \in Polls /\ poll'.stage = "idle"
           /\ poll'.jobs = {} /\ poll'.turn = {} /\ poll'.prunes = {} /\ poll'.todo = {}
           /\ poll'.start = Unseen /\ poll'.pass = "own"
           /\ Reloaded \/ Restarted
           /\ history' \in Histories
           /\ history'.handled = history.handled /\ history'.returned = history.returned
<1>1. history \in Histories
  BY DEF Base, Shapes
<1>2. CASE /\ state' = RolledBack(disk)
           /\ (UNCHANGED <<disk, history>>) \/ Save(state', history)
  <2>1. /\ disk' = state' \/ disk' = disk
        /\ history' \in Histories
        /\ history'.handled = history.handled /\ history'.excused = history.excused
        /\ history'.starts = history.starts /\ history'.returned = history.returned
    BY <1>1, <1>2, Saved
  <2> QED
    BY <1>2, <2>1, IdleTyped DEF Boot, GithubSame, Reloaded
<1>3. ASSUME state' = StartingNow, disk' = disk,
             history' =
               [history EXCEPT
                  !.excused = @ \cup ((UNION {Visible(p) : p \in Prs}) \X {"fresh start"}),
                  !.starts = @ \cup {clock},
                  !.forgotten = {p \in Prs : disk.reviewed[p] # Unseen}]
      PROVE  /\ Restarted /\ history' \in Histories
             /\ history'.handled = history.handled /\ history'.returned = history.returned
  <2> DEFINE A == UNION {Visible(p) : p \in Prs}
             N == {p \in Prs : disk.reviewed[p] # Unseen}
  <2>1. history' = [history EXCEPT !.excused = history.excused \cup (A \X {"fresh start"}),
                                   !.starts = history.starts \cup {clock}, !.forgotten = N]
    BY <1>3
  <2>2. A \subseteq Items /\ N \subseteq Prs /\ clock \in 1 .. MaxClock
    BY VisibleItems DEF Base, Shapes
  <2>3. \A i \in Items, p \in Prs : i \in Visible(p) => i \in A
    OBVIOUS
  <2>4. N = {p \in Prs : disk.reviewed[p] # Unseen}
    OBVIOUS
  <2> HIDE DEF A, N
  <2>5. /\ history' \in Histories
        /\ history'.handled = history.handled /\ history'.returned = history.returned
        /\ history'.excused = history.excused \cup (A \X {"fresh start"})
        /\ history'.starts = history.starts \cup {clock} /\ history'.forgotten = N
    BY <1>1, <2>1, <2>2 DEF Histories, Excuses
  <2> QED
    BY <1>3, <2>3, <2>4, <2>5 DEF Restarted
<1>4. CASE /\ state' = StartingNow /\ disk' = disk
           /\ history' =
               [history EXCEPT
                  !.excused = @ \cup ((UNION {Visible(p) : p \in Prs}) \X {"fresh start"}),
                  !.starts = @ \cup {clock},
                  !.forgotten = {p \in Prs : disk.reviewed[p] # Unseen}]
  BY <1>3, <1>4, IdleTyped DEF Boot, GithubSame
<1> QED
  BY <1>2, <1>4 DEF Boot

(* People: comments appear once, PRs close once, heads grow. *)
HubGrows ==
    /\ github' \in Hub
    /\ github'.open \subseteq github.open
    /\ \A q \in Prs : /\ github'.head[q] <= github'.events + 1
                      /\ github.head[q] <= github'.head[q]
NotesGrow ==
    /\ items' \in Notes
    /\ \A i \in Items :
          /\ items'[i].pr = items[i].pr /\ items'[i].kind = items[i].kind
          /\ \/ items'[i].published = items[i].published
             \/ items[i].published = Unseen /\ items'[i].published = clock
ClockGrows == clock' \in 1 .. MaxClock /\ clock <= clock'

LEMMA HubStays ==
    ASSUME Base, github' = github PROVE HubGrows
<1>1. github \in Hub /\ \A q \in Prs : github.head[q] <= github.events + 1
  BY DEF Base, Shapes, Steps
<1>2. \A q \in Prs : github.head[q] <= github.head[q]
  BY <1>1, Bounds DEF Hub
<1> QED
  BY <1>1, <1>2 DEF HubGrows

LEMMA NotesStay ==
    ASSUME Base, items' = items PROVE NotesGrow
BY DEF NotesGrow, Base, Shapes

LEMMA ClockStays ==
    ASSUME Base, clock' = clock PROVE ClockGrows
BY Bounds DEF ClockGrows, Base, Shapes

LEMMA ItemsAppear ==
    ASSUME Base, NEW i \in Items, DraftItem(i) \/ PublishItem(i)
    PROVE  NotesGrow
<1>1. items \in Notes /\ clock \in 0 .. MaxClock
  BY Bounds DEF Base, Shapes
<1>2. CASE DraftItem(i)
  <2>1. items' = [items EXCEPT ![i] = [items[i] EXCEPT !.drafted = clock]]
    BY <1>2 DEF DraftItem
  <2> QED
    BY <1>1, <2>1 DEF Notes, NotesGrow
<1>3. CASE PublishItem(i)
  <2>1. PICK d \in 0 .. MaxClock :
           items' = [items EXCEPT ![i] = [items[i] EXCEPT !.published = clock, !.drafted = d]]
    <3>1. items' = [items EXCEPT ![i] = [items[i] EXCEPT !.published = clock,
                       !.drafted = IF items[i].kind = "inline" THEN items[i].drafted ELSE clock]]
      BY <1>1, <1>3 DEF PublishItem, Notes
    <3>2. (IF items[i].kind = "inline" THEN items[i].drafted ELSE clock) \in 0 .. MaxClock
      BY <1>1 DEF Notes
    <3> QED
      BY <3>1, <3>2
  <2>2. items[i].published = Unseen
    BY <1>3 DEF PublishItem
  <2> QED
    BY <1>1, <2>1, <2>2 DEF Notes, NotesGrow
<1> QED
  BY <1>2, <1>3

LEMMA HubMoves ==
    ASSUME Base, NEW p \in Prs, PushCommits(p) \/ RequestReview(p) \/ ClosePr(p)
    PROVE  HubGrows
<1>1. github \in Hub /\ \A q \in Prs : github.head[q] <= github.events + 1
  BY DEF Base, Shapes, Steps
<1>2. \A q \in Prs : github.head[q] \in Nat /\ github.head[q] <= github.head[q]
  BY <1>1, Bounds DEF Hub
<1>3. github.events \in Nat /\ github.events < MaxEvents
  BY <1>1, Bounds DEF Hub, PushCommits, RequestReview, ClosePr
<1>a. github.events + 1 \in 0 .. MaxEvents
  BY <1>3, Bounds
<1>4. CASE PushCommits(p)
  <2> DEFINE pushed == [github.head EXCEPT ![p] = github.head[p] + 1]
  <2>1. github' = [github EXCEPT !.head = pushed, !.events = github.events + 1]
    BY <1>1, <1>4 DEF PushCommits, Hub
  <2>2. pushed \in [Prs -> 1 .. MaxEvents + 1]
    BY <1>1, <1>2, <1>3, Bounds DEF Hub
  <2>3. \A q \in Prs : pushed[q] = IF q = p THEN github.head[p] + 1 ELSE github.head[q]
    BY <1>1 DEF Hub
  <2> HIDE DEF pushed
  <2>4. /\ github' \in Hub /\ github'.open = github.open
        /\ github'.head = pushed /\ github'.events = github.events + 1
    BY <1>1, <1>a, <2>1, <2>2 DEF Hub
  <2> QED
    BY <1>1, <1>2, <1>3, <2>3, <2>4 DEF HubGrows
<1>5. CASE RequestReview(p)
  <2>1. /\ github' = [github EXCEPT !.requested = github.requested \cup {p},
                                    !.events = github.events + 1]
        /\ p \in Prs \ Own
    BY <1>5 DEF RequestReview
  <2>2. /\ github' \in Hub /\ github'.open = github.open /\ github'.head = github.head
        /\ github'.events = github.events + 1
    BY <1>1, <1>a, <2>1 DEF Hub
  <2> QED
    BY <1>1, <1>2, <1>3, <2>2 DEF HubGrows
<1>6. CASE ClosePr(p)
  <2>1. github' = [github EXCEPT !.open = github.open \ {p}, !.events = github.events + 1]
    BY <1>6 DEF ClosePr
  <2>2. /\ github' \in Hub /\ github'.open = github.open \ {p} /\ github'.head = github.head
        /\ github'.events = github.events + 1
    BY <1>1, <1>a, <2>1 DEF Hub
  <2> QED
    BY <1>1, <1>2, <1>3, <2>2 DEF HubGrows
<1> QED
  BY <1>4, <1>5, <1>6

LEMMA PeopleDo ==
    ASSUME Base, People
    PROVE  UNCHANGED <<state, disk, poll, history>> /\ ClockGrows /\ HubGrows /\ NotesGrow
<1>1. CASE SecondPasses
  <2>1. ClockGrows
    BY <1>1, Bounds DEF SecondPasses, ClockGrows, Base, Shapes
  <2> QED
    BY <1>1, <2>1, HubStays, NotesStay DEF SecondPasses, Outside
<1>2. CASE \E i \in Items : DraftItem(i) \/ PublishItem(i)
  BY <1>2, ItemsAppear, HubStays, ClockStays DEF DraftItem, PublishItem, Outside
<1>3. CASE \E p \in Prs : PushCommits(p) \/ RequestReview(p) \/ ClosePr(p)
  BY <1>3, HubMoves, NotesStay, ClockStays DEF PushCommits, RequestReview, ClosePr, Outside
<1> QED
  BY <1>1, <1>2, <1>3 DEF People

-----------------------------------------------------------------------------
(* Base is an invariant. *)

LEMMA InitBase == Init => Base
<1> SUFFICES ASSUME Init PROVE Base
  OBVIOUS
<1>1. clock \in 1 .. MaxClock /\ poll \in Polls
  BY Bounds, IdleTyped DEF Init
<1>2. github \in Hub /\ \A p \in Prs : github.head[p] = 1
  BY Bounds DEF Init, Hub
<1>3. items \in Notes
  <2>1. {Unseen} \subseteq 0 .. MaxClock
    BY Bounds DEF Unseen
  <2> QED
    BY <2>1 DEF Init, Notes
<1>4. state \in PollState /\ disk \in PollState /\ state.inFlight = {}
  BY Bounds DEF Init, StartingNow, PollState, Unseen
<1>5. history \in Histories
  BY Bounds DEF Init, Histories
<1>6. github.events = 0
  BY DEF Init
<1>7. Shapes
  BY <1>1, <1>2, <1>3, <1>4, <1>5 DEF Shapes
<1>8. Steps
  BY <1>1, <1>2, <1>6, IdleTyped DEF Init, Steps, Tracked, JobPrs, Unseen
<1>9. Marked
  BY <1>4, IdleTyped DEF Init, Marked, Reviews
<1> QED
  BY <1>7, <1>8, <1>9 DEF Base

LEMMA StartNat ==
    ASSUME Base
    PROVE  /\ poll.start \in Nat /\ clock \in Nat /\ poll.start <= clock
           /\ \A c \in 1 .. MaxClock : c \in Nat
<1>1. poll.start \in 0 .. MaxClock /\ clock \in 1 .. MaxClock
  BY DEF Base, Shapes, Polls
<1>2. poll.start <= clock
  BY DEF Base, Steps
<1> QED
  BY <1>1, <1>2, Bounds

LEMMA PeopleBase == ASSUME Base, People PROVE Base'
<1>1. UNCHANGED <<state, disk, poll, history>> /\ ClockGrows /\ HubGrows /\ NotesGrow
  BY PeopleDo
<1>2. Shapes'
  BY <1>1 DEF Base, Shapes, ClockGrows, HubGrows, NotesGrow
<1>3. poll'.start <= clock'
  <2>1. poll.start \in Nat /\ clock \in Nat /\ clock' \in Nat /\ poll.start <= clock
    BY <1>1, StartNat DEF ClockGrows
  <2> QED
    BY <1>1, <2>1 DEF ClockGrows
<1>4. Steps'
  BY <1>1, <1>3 DEF Base, Steps, HubGrows, Tracked, JobPrs
<1>5. Marked'
  BY <1>1 DEF Base, Marked, Reviews
<1> QED
  BY <1>2, <1>4, <1>5 DEF Base

LEMMA LooklessBase ==
    ASSUME Base, Lookless, poll' \in Polls, history' \in Histories, Steps', Marked'
    PROVE  Base'
BY DEF Base, Shapes, Lookless

(* A tick is over, or has just begun. *)
LEMMA FreshSteps ==
    ASSUME Base, UNCHANGED <<clock, github>>, poll'.stage \in {"down", "idle", "search"},
           poll'.start \in {Unseen, clock}, poll'.start = clock => poll'.start # Unseen,
           poll'.stage = "search" => poll'.start = clock,
           poll'.jobs = {}, poll'.turn = {}, poll'.prunes = {}
    PROVE  Steps'
<1>1. clock \in Nat /\ clock <= clock /\ 0 <= clock
  BY Bounds DEF Base, Shapes
<1>2. poll'.start <= clock'
  BY <1>1 DEF Unseen
<1>3. \A p \in Prs : github'.head[p] <= github'.events + 1
  BY DEF Base, Steps
<1>4. JobPrs' = {}
  BY DEF JobPrs
<1> QED
  BY <1>2, <1>3, <1>4 DEF Steps

LEMMA StartTickBase == ASSUME Base, StartTick PROVE Base'
<1>1. Shapes
  BY DEF Base
<1>2. Steps'
  <2>1. clock # Unseen
    BY <1>1, Bounds DEF Shapes, Unseen
  <2> QED
    BY <1>1, <2>1, StartTickDoes, FreshSteps DEF Lookless
<1>3. Marked'
  BY <1>1, StartTickDoes DEF Base, Marked, Reviews, Lookless
<1> QED
  BY <1>1, <1>2, <1>3, StartTickDoes, LooklessBase DEF Shapes

LEMMA SearchBase == ASSUME Base, Search PROVE Base'
<1>1. Shapes
  BY DEF Base
<1>a. poll.pass = "tracked" => Found(poll.pass) = Tracked
  BY DEF Found
<1>2. Steps'
  BY <1>1, <1>a, SearchDoes DEF Base, Steps, Tracked, JobPrs, Lookless
<1>3. Marked'
  BY <1>1, SearchDoes DEF Base, Marked, Reviews, Lookless
<1> QED
  BY <1>1, <1>2, <1>3, SearchDoes, LooklessBase

LEMMA BreakBase == ASSUME Base, SearchFails \/ Kill PROVE Base'
<1>1. Shapes
  BY DEF Base
<1>2. Steps'
  <2>1. clock # Unseen
    BY <1>1, Bounds DEF Shapes, Unseen
  <2> QED
    BY <1>1, <2>1, BreakDoes, FreshSteps DEF Lookless
<1>3. Marked'
  BY <1>1, BreakDoes DEF Base, Marked, Reviews, Lookless
<1> QED
  BY <1>1, <1>2, <1>3, BreakDoes, LooklessBase

LEMMA ReadPrBase == ASSUME Base, NEW p \in Prs, ReadPr(p) PROVE Base'
<1>1. github.head[p] # Unseen
  BY Bounds DEF Base, Shapes, Hub, Unseen
<1>2. Steps'
  <2>a. /\ poll.stage = "read" /\ p \in poll.todo /\ poll'.todo = poll.todo \ {p}
        /\ poll'.pass = poll.pass /\ poll'.start = poll.start /\ poll'.turn = poll.turn
        /\ Lookless /\ Tracked' = Tracked
    BY ReadPrDoes DEF Lookless, Tracked
  <2>b. Steps /\ p \notin JobPrs /\ p \notin poll.prunes /\ (poll.pass = "tracked" => p \in Tracked)
    BY <2>a DEF Base, Steps
  <2>1. CASE /\ poll'.stage = "read"
             /\ poll'.prunes = poll.prunes /\ poll'.jobs = poll.jobs
    BY <2>1, <2>a, <2>b DEF Steps, JobPrs, Lookless
  <2>2. CASE /\ poll.pass = "requests" /\ poll'.stage = "read" /\ poll'.prunes = poll.prunes
             /\ \E job \in Jobs : /\ job.pr = p /\ job.head = github.head[p]
                                  /\ poll'.jobs = poll.jobs \cup {job}
    <3>1. PICK job \in Jobs : /\ job.pr = p /\ job.head = github.head[p]
                              /\ poll'.jobs = poll.jobs \cup {job}
      BY <2>2
    <3>2. JobPrs' = JobPrs \cup {p}
      BY <3>1 DEF JobPrs
    <3>3. \A a, b \in poll'.jobs : a.pr = b.pr => a = b
      BY <2>b, <3>1 DEF Steps, JobPrs
    <3>4. \A j \in poll'.jobs : j.head # Unseen
      BY <1>1, <2>b, <3>1 DEF Steps
    <3> QED
      BY <2>2, <2>a, <2>b, <3>2, <3>3, <3>4 DEF Steps, Lookless
  <2>3. CASE /\ poll.pass = "tracked" /\ poll'.stage = "read"
             /\ poll'.prunes = poll.prunes \cup {p} /\ poll'.jobs = poll.jobs
    BY <2>3, <2>a, <2>b DEF Steps, JobPrs, Lookless
  <2>4. CASE /\ poll'.stage = "read diff"
             /\ poll'.look.pr = p /\ poll'.look.head = github.head[p]
             /\ poll'.jobs = poll.jobs /\ poll'.prunes = poll.prunes
    BY <1>1, <2>4, <2>a, <2>b DEF Steps, JobPrs, Lookless
  <2> QED
    BY <2>1, <2>2, <2>3, <2>4, ReadPrDoes
<1>3. Marked'
  BY ReadPrDoes DEF Base, Marked, Reviews, Lookless
<1> QED
  BY <1>2, <1>3, ReadPrDoes, LooklessBase DEF Base, Shapes

LEMMA ReadDiffBase == ASSUME Base, ReadDiffComments PROVE Base'
<1>1. Steps'
  <2> DEFINE decided == Decided(poll.pass, poll.look, Fresh(poll.pass, poll.look.pr, poll.look.items))
  <2>a. /\ poll.stage = "read diff" /\ poll'.stage = "read" /\ poll'.todo = poll.todo
        /\ poll'.pass = poll.pass /\ poll'.start = poll.start /\ poll'.turn = poll.turn
        /\ poll'.prunes = poll.prunes /\ Lookless /\ Tracked' = Tracked
        /\ poll'.jobs = poll.jobs \cup decided
        /\ \A job \in decided : job.pr = poll.look.pr /\ job.head = poll.look.head
        /\ \A a, b \in decided : a = b
    BY ReadDiffDoes DEF Lookless, Tracked
  <2> HIDE DEF decided
  <2>b. Steps /\ poll.look.pr \notin poll.todo \cup JobPrs \cup poll.prunes
        /\ poll.look.head # Unseen
    BY <2>a DEF Base, Steps
  <2>1. JobPrs' \subseteq JobPrs \cup {poll.look.pr}
    BY <2>a DEF JobPrs
  <2>2. \A a, b \in poll'.jobs : a.pr = b.pr => a = b
    <3>1. \A a \in poll.jobs, b \in decided : a.pr # b.pr
      BY <2>a, <2>b DEF JobPrs
    <3>2. \A a, b \in poll.jobs : a.pr = b.pr => a = b
      BY <2>b DEF Steps
    <3> QED
      BY <2>a, <3>1, <3>2
  <2>3. \A job \in poll'.jobs : job.head # Unseen
    BY <2>a, <2>b DEF Steps
  <2>4. /\ poll'.todo \cap (JobPrs' \cup poll'.prunes) = {}
        /\ poll'.prunes \cap JobPrs' = {}
    BY <2>a, <2>b, <2>1 DEF Steps
  <2>5. poll'.pass = "tracked" => poll'.todo \subseteq Tracked'
    BY <2>a, <2>b DEF Steps
  <2> QED
    BY <2>a, <2>b, <2>2, <2>3, <2>4, <2>5 DEF Steps, Lookless
<1>2. Marked'
  BY ReadDiffDoes DEF Base, Marked, Reviews, Lookless
<1> QED
  BY <1>1, <1>2, ReadDiffDoes, LooklessBase DEF Base, Shapes

LEMMA ReadFailsBase == ASSUME Base, NEW p \in Prs, ReadFails(p) PROVE Base'
<1>1. Steps'
  BY ReadFailsDoes DEF Base, Steps, Tracked, JobPrs, Lookless
<1>2. Marked'
  BY ReadFailsDoes DEF Base, Marked, Reviews, Lookless
<1> QED
  BY <1>1, <1>2, ReadFailsDoes, LooklessBase

LEMMA EndReadBase == ASSUME Base, EndRead PROVE Base'
<1>1. Shapes'
  BY EndReadDoes DEF Base, Shapes
<1>2. Steps'
  BY EndReadDoes DEF Base, Steps, Tracked, JobPrs
<1>3. Marked'
  BY EndReadDoes DEF Base, Steps, Marked, Reviews
<1> QED
  BY <1>1, <1>2, <1>3 DEF Base

LEMMA PrepFailsBase == ASSUME Base, NEW job \in poll.jobs, PrepFails(job) PROVE Base'
<1>1. Steps'
  BY PrepFailsDoes DEF Base, Steps, Tracked, JobPrs, Lookless
<1>2. Marked'
  BY PrepFailsDoes DEF Base, Marked, Reviews, Lookless
<1> QED
  BY <1>1, <1>2, PrepFailsDoes, LooklessBase

LEMMA DispatchBase == ASSUME Base, NEW job \in poll.jobs, Dispatch(job) PROVE Base'
<1>a. job.pr \in Prs /\ job.head # Unseen
  BY DispatchDoes DEF Base, Steps, Jobs
<1>b. Reviews' <=> Reviews
  BY DispatchDoes DEF Reviews
<1>1. Shapes'
  BY DispatchDoes DEF Base, Shapes
<1>2. Steps'
  BY <1>a, DispatchDoes DEF Base, Steps, Tracked, JobPrs
<1>3. Marked'
  <2>1. CASE Reviews
    <3>1. state'.inFlight # {} /\ \A f \in state'.inFlight : f.pr = job.pr
      <4>1. state'.inFlight = {[pr |-> job.pr, prev |-> state.reviewed[job.pr]]}
        BY <2>1, DispatchDoes
      <4> QED
        BY <4>1
    <3>2. state'.reviewed[job.pr] = job.head
      BY <1>a, <2>1, DispatchDoes
    <3> QED
      BY <1>a, <1>b, <2>1, <3>1, <3>2, DispatchDoes DEF Marked
  <2>2. CASE ~Reviews
    BY <1>b, <2>2, DispatchDoes DEF Base, Marked
  <2> QED
    BY <2>1, <2>2
<1> QED
  BY <1>1, <1>2, <1>3 DEF Base

LEMMA TurnReturnsBase == ASSUME Base, TurnReturns PROVE Base'
<1>1. Shapes'
  BY TurnReturnsDoes DEF Base, Shapes
<1>2. Steps'
  BY TurnReturnsDoes DEF Base, Steps, Tracked, JobPrs
<1>3. Marked'
  BY TurnReturnsDoes DEF Base, Marked, Reviews
<1> QED
  BY <1>1, <1>2, <1>3 DEF Base

LEMMA EndPassBase == ASSUME Base, EndPass PROVE Base'
<1>1. Steps'
  BY EndPassDoes DEF Base, Steps, Tracked, JobPrs, Lookless
<1>2. Marked'
  BY EndPassDoes DEF Base, Marked, Steps, Reviews, Lookless
<1> QED
  BY <1>1, <1>2, EndPassDoes, LooklessBase DEF Base, Shapes

LEMMA EndTickBase == ASSUME Base, EndTick PROVE Base'
<1>1. Shapes'
  BY EndTickDoes DEF Base, Shapes
<1>2. Steps'
  <2>1. clock # Unseen
    BY Bounds DEF Base, Shapes, Unseen
  <2> QED
    BY <2>1, EndTickDoes, FreshSteps
<1>3. Marked'
  BY EndTickDoes DEF Base, Marked, Reviews
<1> QED
  BY <1>1, <1>2, <1>3 DEF Base

LEMMA BootBase == ASSUME Base, Boot PROVE Base'
<1>1. disk \in PollState
  BY DEF Base, Shapes
<1>2. state' \in PollState /\ state'.inFlight = {} /\ (disk' = state' \/ disk' = disk)
  BY <1>1, BootDoes, RolledBackDoes, StartingNowTyped DEF Base, Reloaded, Restarted
<1>3. Shapes'
  BY <1>2, BootDoes DEF Base, Shapes
<1>4. Steps'
  <2>1. clock # Unseen
    BY Bounds DEF Base, Shapes, Unseen
  <2> QED
    BY <2>1, BootDoes, FreshSteps
<1>5. Marked'
  BY <1>2, BootDoes DEF Marked, Reviews
<1> QED
  BY <1>3, <1>4, <1>5 DEF Base

LEMMA StepBase == Base /\ [Next]_vars => Base'
<1> SUFFICES ASSUME Base, [Next]_vars PROVE Base'
  OBVIOUS
<1>1. CASE UNCHANGED vars
  BY <1>1 DEF vars, Base, Shapes, Steps, Marked, Tracked, JobPrs, Reviews
<1>2. CASE People
  BY <1>2, PeopleBase
<1>3. CASE Progress
  BY <1>3, BootBase, StartTickBase, SearchBase, ReadDiffBase, EndReadBase, TurnReturnsBase,
     EndPassBase, EndTickBase, ReadPrBase, DispatchBase DEF Progress
<1>4. CASE Failures
  BY <1>4, BreakBase, ReadFailsBase, PrepFailsBase DEF Failures
<1> QED
  BY <1>1, <1>2, <1>3, <1>4 DEF Next

LEMMA BaseHolds == Spec => []Base
BY InitBase, StepBase, PTL DEF Spec

(* The poller's data stay within their types; a reviewer turn runs only    *)
(* while it is marked in flight, and a marked PR is tracked.               *)
THEOREM PollerTypes == Spec => []TypeOK
<1>1. Base => TypeOK
  <2> SUFFICES ASSUME Base PROVE TypeOK
    OBVIOUS
  <2>1. poll.start \in 0 .. clock
    <3>1. poll.start \in Nat /\ clock \in Nat /\ poll.start <= clock
      BY StartNat
    <3> QED
      BY <3>1
  <2> QED
    BY <2>1 DEF Base, Shapes, Steps, Marked, Reviews, Hub, Notes, Polls, Stages, TypeOK
<1> QED
  BY BaseHolds, <1>1, PTL

-----------------------------------------------------------------------------
(* A recorded head was reviewed, or its turn is marked, and what a rollback *)
(* would restore was reviewed too.                                          *)

Sound(s, done) ==
    /\ \A p \in Prs : \/ s.reviewed[p] = Unseen
                      \/ <<p, s.reviewed[p]>> \in done
                      \/ \E f \in s.inFlight : f.pr = p
    /\ \A f \in s.inFlight : f.prev = Unseen \/ <<f.pr, f.prev>> \in done

Recorded == Sound(state, history.returned) /\ Sound(disk, history.returned)

LEMMA SoundGrows ==
    ASSUME NEW s, NEW a, NEW b, a \subseteq b, Sound(s, a) PROVE Sound(s, b)
BY DEF Sound

LEMMA SoundFewer ==
    ASSUME NEW s, NEW t, NEW done, Sound(s, done), t.inFlight = s.inFlight,
           \A p \in Prs : t.reviewed[p] \in {Unseen, s.reviewed[p]}
    PROVE  Sound(t, done)
BY DEF Sound

LEMMA SameRecord ==
    ASSUME Recorded, UNCHANGED <<state, disk>>, history'.returned = history.returned
    PROVE  Recorded'
BY DEF Recorded

LEMMA DispatchRecorded ==
    ASSUME Base, Recorded, NEW job \in poll.jobs, Dispatch(job)
    PROVE  Recorded'
<1> DEFINE done == history.returned
           mark == [pr |-> job.pr, prev |-> state.reviewed[job.pr]]
<1>1. history'.returned = done
  BY DispatchDoes
<1>2. CASE ~Reviews
  BY <1>1, <1>2, DispatchDoes, SameRecord
<1>3. CASE Reviews
  <2>1. /\ \A p \in Prs : state'.reviewed[p] =
                             IF p = job.pr THEN job.head ELSE state.reviewed[p]
        /\ state'.inFlight = {mark}
        /\ disk' = state' \/ disk' = disk
        /\ job.pr \in Prs /\ poll.stage = "dispatch"
    BY <1>3, DispatchDoes DEF Jobs
  <2>2. state.inFlight = {}
    BY <2>1 DEF Base, Marked
  <2>3. \A p \in Prs : state.reviewed[p] = Unseen \/ <<p, state.reviewed[p]>> \in done
    BY <2>2 DEF Recorded, Sound
  <2>4. Sound(state', done)
    BY <2>1, <2>3 DEF Sound
  <2> QED
    BY <1>1, <2>1, <2>4 DEF Recorded
<1> QED
  BY <1>2, <1>3

LEMMA TurnReturnsRecorded ==
    ASSUME Base, Recorded, TurnReturns
    PROVE  Recorded'
<1>1. PICK job \in Jobs :
        /\ poll.turn = {job} /\ poll.stage = "turn"
        /\ state'.reviewed = state.reviewed
        /\ IF Reviews
           THEN /\ state'.inFlight = {}
                /\ disk' = state' \/ disk' = disk
                /\ history'.returned = history.returned \cup {<<job.pr, job.head>>}
           ELSE UNCHANGED <<state, disk, history>>
  BY TurnReturnsDoes
<1>2. CASE ~Reviews
  BY <1>1, <1>2, SameRecord
<1>3. CASE Reviews
  <2>1. /\ state.reviewed[job.pr] = job.head
        /\ \A f \in state.inFlight : f.pr = job.pr
    BY <1>1, <1>3 DEF Base, Marked
  <2>2. Sound(state', history'.returned)
    BY <1>1, <1>3, <2>1 DEF Recorded, Sound
  <2>3. Sound(disk, history'.returned)
    BY <1>1, <1>3, SoundGrows DEF Recorded
  <2> QED
    BY <1>1, <1>3, <2>2, <2>3 DEF Recorded
<1> QED
  BY <1>2, <1>3

LEMMA BootRecorded == ASSUME Base, Recorded, Boot PROVE Recorded'
<1>1. disk \in PollState
  BY DEF Base, Shapes
<1>2. history'.returned = history.returned /\ (Reloaded \/ Restarted)
  BY BootDoes
<1>3. Sound(RolledBack(disk), history.returned)
  <2>1. RolledBack(disk).inFlight = {}
    BY <1>1, RolledBackDoes
  <2>2. ASSUME NEW p \in Prs
        PROVE  \/ RolledBack(disk).reviewed[p] = Unseen
               \/ <<p, RolledBack(disk).reviewed[p]>> \in history.returned
    <3>1. CASE \E f \in disk.inFlight : f.pr = p
      <4>1. PICK f \in disk.inFlight : f.pr = p /\ RolledBack(disk).reviewed[p] = f.prev
        BY <1>1, <3>1, RolledBackDoes
      <4> QED
        BY <4>1 DEF Recorded, Sound
    <3>2. CASE ~\E f \in disk.inFlight : f.pr = p
      <4>1. RolledBack(disk).reviewed[p] = disk.reviewed[p]
        BY <1>1, <3>2, RolledBackDoes
      <4> QED
        BY <3>2, <4>1 DEF Recorded, Sound
    <3> QED
      BY <3>1, <3>2
  <2> QED
    BY <2>1, <2>2 DEF Sound
<1>4. Sound(StartingNow, history.returned)
  BY StartingNowTyped DEF Base, Sound
<1> QED
  BY <1>2, <1>3, <1>4 DEF Recorded, Reloaded, Restarted

LEMMA StepRecorded == Base /\ Recorded /\ [Next]_vars => Recorded'
<1> SUFFICES ASSUME Base, Recorded, [Next]_vars PROVE Recorded'
  OBVIOUS
<1>1. Shapes
  BY DEF Base
<1>2. CASE UNCHANGED vars
  BY <1>2 DEF vars, Recorded
<1>3. CASE People
  BY <1>3, PeopleDo, SameRecord
<1>4. CASE StartTick \/ Search \/ SearchFails \/ Kill \/ EndPass
  BY <1>1, <1>4, StartTickDoes, SearchDoes, BreakDoes, EndPassDoes, SameRecord DEF Lookless
<1>5. CASE ReadDiffComments \/ \E p \in Prs : ReadPr(p) \/ ReadFails(p)
  BY <1>5, ReadDiffDoes, ReadPrDoes, ReadFailsDoes, SameRecord DEF Lookless
<1>6. CASE \E job \in poll.jobs : PrepFails(job)
  BY <1>6, PrepFailsDoes, SameRecord DEF Lookless
<1>7. CASE EndRead
  <2>1. Sound(state', history.returned)
    BY <1>7, EndReadDoes, SoundFewer DEF Recorded
  <2> QED
    BY <1>7, <2>1, EndReadDoes DEF Recorded
<1>8. CASE EndTick
  <2>1. Sound(state', history.returned)
    BY <1>8, EndTickDoes, SoundFewer DEF Recorded
  <2> QED
    BY <1>8, <2>1, EndTickDoes DEF Recorded
<1> QED
  BY <1>2, <1>3, <1>4, <1>5, <1>6, <1>7, <1>8, DispatchRecorded, TurnReturnsRecorded, BootRecorded
  DEF Next, Progress, Failures

(* The document holds a head only if a turn for it returned, or marks that  *)
(* turn so that the next start undoes it.                                   *)
THEOREM RecordedAlways == Spec => []RecordedMeansReturned
<1>1. Init => Recorded
  BY DEF Init, StartingNow, Recorded, Sound
<1>2. Recorded => RecordedMeansReturned
  BY DEF Recorded, Sound, RecordedMeansReturned
<1> QED
  BY BaseHolds, <1>1, <1>2, StepRecorded, PTL DEF Spec

-----------------------------------------------------------------------------
(* Nothing falls behind the cursor: what a tick owes to the items between   *)
(* the cursor and its start, pass by pass.                                  *)

Told(i) == \/ i \in history.handled
           \/ items[i].published \in history.starts
           \/ \E why \in Excuses : <<i, why>> \in history.excused
Clear(c) ==
    /\ c <= clock /\ c \in history.starts
    /\ \A i \in Items : items[i].published # Unseen /\ items[i].published <= c => Told(i)

InTick == poll.stage \notin {"down", "idle"}
Pending(i) == state.lastPoll < items[i].published /\ items[i].published < poll.start

Accounted(i) == \/ i \in history.handled
                \/ \E why \in Excuses : <<i, why>> \in history.excusing
                \/ \E job \in poll.jobs : i \in job.items
ToRead(p) == poll.stage \in {"read", "read diff"} /\ p \in poll.todo
Reading(i) == \/ ToRead(items[i].pr)
              \/ /\ poll.stage = "read diff" /\ poll.look.pr = items[i].pr
                 /\ i \in poll.look.items

(* After the search of a pass. *)
OwnSearched == poll.pass # "own" \/ poll.stage # "search"
RequestsSearched == poll.pass \in {"tracked", "contributed"}
                    \/ (poll.pass = "requests" /\ poll.stage # "search")
TrackedSearched == poll.pass = "contributed" \/ (poll.pass = "tracked" /\ poll.stage # "search")
AllSearched == poll.pass = "contributed" /\ poll.stage # "search"

OwnCovered(i) ==
    items[i].pr \in Own /\ OwnSearched =>
        Accounted(i) \/ (poll.pass = "own" /\ Reading(i))
AskedCovered(i) ==
    /\ items[i].pr \in history.asked \ Own
    /\ RequestsSearched /\ ~TrackedSearched
    => \/ Accounted(i) \/ items[i].pr \notin github.open \/ items[i].pr \in Tracked
       \/ poll.pass = "requests" /\ (ToRead(items[i].pr) \/ items[i].pr \in JobPrs)
(* A review that no pass takes up: the tracked pass reads comments only, and *)
(* the contributed pass leaves the PR to it.                                *)
Skipped(i) == items[i].kind = "review" /\ items[i].pr \in Tracked
TrackedCovered(i) ==
    /\ items[i].pr \notin Own
    /\ TrackedSearched /\ ~AllSearched
    => \/ Accounted(i) \/ items[i].pr \notin github.open \/ Skipped(i)
       \/ items[i].pr \notin Tracked \cup history.asked
       \/ poll.pass = "tracked" /\ Reading(i)
AllCovered(i) ==
    items[i].pr \notin Own /\ AllSearched => Accounted(i) \/ Reading(i)

Covered(i) == OwnCovered(i) /\ AskedCovered(i) /\ TrackedCovered(i) /\ AllCovered(i)

JobItems ==
    /\ \A job \in poll.jobs : \A i \in job.items :
          i \in Items /\ items[i].pr = job.pr /\ items[i].published # Unseen
    /\ IF poll.pass = "tracked" THEN JobPrs \subseteq Tracked ELSE poll.prunes = {}
    /\ poll.prunes \cap github.open = {}

Cursors == Clear(state.lastPoll) /\ Clear(disk.lastPoll)
Owes == InTick => \A i \in Items : Pending(i) => Covered(i)
Lossless == Cursors /\ JobItems /\ Owes

-----------------------------------------------------------------------------
(* The cursors *)

LEMMA Dates ==
    ASSUME Base
    PROVE  /\ \A i \in Items : items[i].published \in Nat
           /\ state.lastPoll \in Nat \ {0} /\ disk.lastPoll \in Nat \ {0}
           /\ clock \in Nat \ {0} /\ poll.start \in Nat /\ poll.start <= clock
           /\ history.starts \in SUBSET Nat
<1>1. \A i \in Items : items[i].published \in 0 .. MaxClock
  BY DEF Base, Shapes, Notes
<1>2. state.lastPoll \in 1 .. MaxClock /\ disk.lastPoll \in 1 .. MaxClock /\ clock \in 1 .. MaxClock
  BY DEF Base, Shapes, PollState
<1>3. history.starts \in SUBSET (1 .. MaxClock)
  BY DEF Base, Shapes, Histories
<1> QED
  BY <1>1, <1>2, <1>3, StartNat, Bounds

(* More is told, and the world has not changed. *)
LEMMA ClearStays ==
    ASSUME NEW c, Clear(c), UNCHANGED <<clock, items>>,
           history.handled \subseteq history'.handled,
           history.starts \subseteq history'.starts,
           history.excused \subseteq history'.excused
    PROVE  /\ c <= clock' /\ c \in history'.starts
           /\ \A i \in Items : items'[i].published # Unseen /\ items'[i].published <= c => Told(i)'
BY DEF Clear, Told

LEMMA CursorsStay ==
    ASSUME Cursors, UNCHANGED <<clock, items>>,
           history.handled \subseteq history'.handled,
           history.starts \subseteq history'.starts,
           history.excused \subseteq history'.excused,
           state'.lastPoll \in {state.lastPoll, disk.lastPoll},
           disk'.lastPoll \in {state.lastPoll, disk.lastPoll}
    PROVE  Cursors'
<1>1. \A c \in {state.lastPoll, disk.lastPoll} :
         /\ c <= clock' /\ c \in history'.starts
         /\ \A i \in Items : items'[i].published # Unseen /\ items'[i].published <= c => Told(i)'
  BY ClearStays DEF Cursors
<1> QED
  BY <1>1 DEF Cursors, Clear

LEMMA PeopleClear ==
    ASSUME Base, People, NEW c \in Nat, Clear(c)
    PROVE  /\ c <= clock' /\ c \in history'.starts
           /\ \A i \in Items : items'[i].published # Unseen /\ items'[i].published <= c => Told(i)'
<1>1. history' = history /\ NotesGrow /\ ClockGrows
  BY PeopleDo
<1>2. clock \in Nat /\ clock' \in Nat /\ clock <= clock' /\ c <= clock /\ c \in history.starts
  BY <1>1, Dates, StartNat DEF Clear, ClockGrows
<1>3. ASSUME NEW i \in Items, items'[i].published # Unseen, items'[i].published <= c
      PROVE  Told(i)'
  <2>1. CASE items'[i].published = items[i].published
    BY <1>1, <1>3, <2>1 DEF Clear, Told
  <2>2. CASE items[i].published = Unseen /\ items'[i].published = clock
    <3>1. items'[i].published = c
      BY <1>2, <1>3, <2>2
    <3> QED
      BY <1>1, <1>2, <3>1 DEF Told
  <2> QED
    BY <1>1, <2>1, <2>2 DEF NotesGrow
<1> QED
  BY <1>1, <1>2, <1>3

(* The end of a tick: everything before its start is told. *)
LEMMA EndTickClear ==
    ASSUME Base, Lossless, EndTick
    PROVE  Cursors'
<1>a. /\ UNCHANGED <<clock, github, items>>
      /\ poll.stage = "dispatch" /\ poll.jobs = {} /\ poll.pass = "contributed"
      /\ state'.lastPoll = poll.start /\ (disk' = state' \/ disk' = disk)
      /\ history'.handled = history.handled
      /\ history'.excused = history.excused \cup history.excusing
      /\ history'.starts = history.starts \cup {poll.start}
  BY EndTickDoes
<1>1. ASSUME NEW i \in Items, items[i].published # Unseen, items[i].published <= poll.start
      PROVE  Told(i)'
  <2>1. CASE items[i].published <= state.lastPoll
    BY <1>1, <1>a, <2>1 DEF Lossless, Cursors, Clear, Told
  <2>2. CASE items[i].published = poll.start
    BY <1>a, <2>2 DEF Told
  <2>3. CASE Pending(i)
    <3>1. Covered(i)
      BY <1>a, <2>3 DEF Lossless, Owes, InTick
    <3>2. Accounted(i)
      BY <1>a, <3>1 DEF Covered, OwnCovered, AllCovered, OwnSearched, AllSearched, Reading, ToRead
    <3>3. \/ i \in history.handled
          \/ \E why \in Excuses : <<i, why>> \in history.excusing
      BY <1>a, <3>2 DEF Accounted
    <3> QED
      BY <1>a, <3>3 DEF Told
  <2> QED
    BY <1>1, <2>1, <2>2, <2>3, Dates DEF Pending
<1>2. Clear(state.lastPoll) /\ Clear(disk.lastPoll)
  BY DEF Lossless, Cursors
<1>3. Clear(state.lastPoll)'
  BY <1>1, <1>a, Dates DEF Clear
<1>4. Clear(disk.lastPoll)'
  <2>1. CASE disk' = state'
    BY <1>3, <2>1
  <2>2. CASE disk' = disk
    BY <1>2, <1>a, <2>2, ClearStays DEF Clear
  <2> QED
    BY <1>a, <2>1, <2>2
<1> QED
  BY <1>3, <1>4 DEF Cursors

-----------------------------------------------------------------------------
(* What the tick owes is never forgotten. *)

(* Steps that only move jobs: taken from the list, they are handled or      *)
(* their items excused.                                                     *)
Keeps == \A i \in Items : Accounted(i) => Accounted(i)'

LEMMA SameAccount ==
    ASSUME history.handled \subseteq history'.handled,
           history.excusing \subseteq history'.excusing,
           poll.jobs \subseteq poll'.jobs
    PROVE  Keeps
BY DEF Keeps, Accounted

(* The pass and its search are as before, nothing is left to read that was. *)
LEMMA SameCover ==
    ASSUME Keeps, UNCHANGED items, github'.open = github.open, NEW i \in Items, Covered(i),
           poll'.pass = poll.pass, poll'.start = poll.start,
           poll.stage # "search", poll'.stage # "search",
           history'.asked = history.asked,
           items[i].pr \in Tracked /\ poll.pass # "tracked" => items[i].pr \in Tracked',
           items[i].pr \in Tracked' /\ TrackedSearched => items[i].pr \in Tracked,
           poll.pass # "requests" /\ Reading(i) => Reading(i)' \/ Accounted(i)'
              \/ (poll.pass = "tracked" /\ (items[i].pr \notin github.open \/ Skipped(i)')),
           Skipped(i) => Skipped(i)' \/ items[i].pr \notin github.open,
           items[i].pr \in JobPrs => items[i].pr \in JobPrs' \/ items[i].pr \in Tracked'
              \/ Accounted(i)',
           poll.pass = "requests" /\ ToRead(items[i].pr) =>
              \/ ToRead(items[i].pr)' \/ items[i].pr \in JobPrs' \/ items[i].pr \in Tracked
              \/ Accounted(i)'
    PROVE  Covered(i)'
<1>a. /\ items' = items /\ github'.open = github.open
      /\ Accounted(i) => Accounted(i)'
      /\ OwnSearched' = OwnSearched /\ RequestsSearched' = RequestsSearched
      /\ TrackedSearched' = TrackedSearched /\ AllSearched' = AllSearched
  BY DEF Keeps, OwnSearched, RequestsSearched, TrackedSearched, AllSearched
<1>1. OwnCovered(i)'
  BY <1>a DEF Covered, OwnCovered
<1>2. AskedCovered(i)'
  BY <1>a DEF Covered, AskedCovered, TrackedSearched
<1>3. TrackedCovered(i)'
  BY <1>a DEF Covered, TrackedCovered
<1>4. AllCovered(i)'
  BY <1>a DEF Covered, AllCovered, AllSearched
<1> QED
  BY <1>1, <1>2, <1>3, <1>4 DEF Covered

LEMMA SeenThen ==
    ASSUME Base, NEW i \in Items, Pending(i)
    PROVE  items[i].published # Unseen /\ i \in Visible(items[i].pr)
BY Dates DEF Pending, Visible, Unseen

LEMMA SearchOwes == ASSUME Base, Lossless, Search PROVE Owes'
<1>a. Shapes /\ Steps
  BY DEF Base
<1>b. /\ poll.stage = "search" /\ poll'.stage = "read" /\ poll'.todo = Found(poll.pass)
      /\ poll'.pass = poll.pass /\ poll'.start = poll.start /\ poll'.jobs = poll.jobs
      /\ history'.handled = history.handled /\ history.excusing \subseteq history'.excusing
      /\ history'.asked = IF poll.pass = "requests" THEN github.requested
                          ELSE IF poll.pass = "contributed" THEN {} ELSE history.asked
      /\ UNCHANGED <<clock, github, items, state, disk>>
  BY <1>a, SearchDoes DEF Lookless
<1>c. Keeps
  BY <1>b, SameAccount
<1> SUFFICES ASSUME NEW i \in Items, Pending(i)' PROVE Covered(i)'
  BY DEF Owes
<1>1. Pending(i) /\ Covered(i)
  BY <1>b DEF Pending, Lossless, Owes, InTick
<1>2. i \in Visible(items[i].pr) /\ items[i].pr \in Prs /\ items'[i].pr = items[i].pr
  BY <1>a, <1>b, <1>1, SeenThen DEF Shapes, Notes
<1>3. Tracked' = Tracked /\ (\A p : ToRead(p)' <=> p \in Found(poll.pass))
  BY <1>b DEF Tracked, ToRead
<1>s. Skipped(i)' <=> Skipped(i)
  BY <1>b DEF Skipped, Tracked
<1>4. CASE poll.pass = "own"
  <2>1. items[i].pr \in Own => Accounted(i)' \/ Reading(i)'
    <3>1. CASE items[i].pr \in github.open
      BY <1>2, <1>3, <1>4, <3>1 DEF Found, Reading
    <3>2. CASE items[i].pr \notin github.open
      BY <1>a, <1>2, <1>4, <3>2, SearchDoes DEF Accounted, Excuses
    <3> QED
      BY <3>1, <3>2
  <2> QED
    BY <1>b, <1>2, <1>4, <2>1 DEF Covered, OwnCovered, AskedCovered, TrackedCovered, AllCovered,
       RequestsSearched, TrackedSearched, AllSearched
<1>5. CASE poll.pass # "own"
  <2>1. OwnCovered(i)'
    BY <1>b, <1>c, <1>1, <1>2, <1>5 DEF Covered, OwnCovered, OwnSearched, Keeps
  <2>2. CASE poll.pass = "requests"
    <3>1. items[i].pr \in history'.asked => items[i].pr \notin github.open \/ ToRead(items[i].pr)'
      BY <1>b, <1>3, <2>2 DEF Found
    <3> QED
      BY <1>b, <1>2, <2>1, <2>2, <3>1 DEF Covered, AskedCovered, TrackedCovered, AllCovered,
         TrackedSearched, AllSearched
  <2>3. CASE poll.pass = "tracked"
    <3>1. items[i].pr \in Tracked => Reading(i)'
      BY <1>2, <1>3, <2>3 DEF Found, Reading
    <3>2. items[i].pr \in history.asked \ Own =>
             Accounted(i)' \/ items[i].pr \notin github.open \/ items[i].pr \in Tracked
      <4>1. items[i].pr \in history.asked \ Own =>
               Accounted(i) \/ items[i].pr \notin github.open \/ items[i].pr \in Tracked
        BY <1>b, <1>1, <2>3 DEF Covered, AskedCovered, RequestsSearched, TrackedSearched
      <4> QED
        BY <1>c, <4>1 DEF Keeps
    <3> QED
      BY <1>b, <1>2, <1>3, <2>1, <2>3, <3>1, <3>2 DEF Covered, AskedCovered, TrackedCovered,
         AllCovered, TrackedSearched, AllSearched
  <2>4. CASE poll.pass = "contributed"
    <3>1. items[i].pr \notin Own => Accounted(i)' \/ Reading(i)'
      <4> SUFFICES ASSUME items[i].pr \notin Own PROVE Accounted(i)' \/ Reading(i)'
        OBVIOUS
      <4>1. CASE items[i].pr \notin github.open
        BY <1>a, <1>2, <2>4, <4>1, SearchDoes DEF Accounted, Excuses
      <4>2. CASE Accounted(i)
        BY <1>c, <4>2 DEF Keeps
      <4>3. CASE Skipped(i)
        BY <1>a, <1>2, <2>4, <4>3, SearchDoes DEF Accounted, Excuses, Skipped
      <4>4. CASE /\ items[i].pr \in github.open
                 /\ items[i].pr \notin Tracked \cup history.asked
        <5>1. CASE items[i].pr \in github.requested
          BY <1>a, <1>2, <2>4, <4>4, <5>1, SearchDoes DEF Accounted, Excuses
        <5>2. CASE items[i].pr \notin github.requested
          BY <1>2, <1>3, <2>4, <4>4, <5>2 DEF Found, Reading
        <5> QED
          BY <5>1, <5>2
      <4> QED
        <5>1. \/ Accounted(i) \/ items[i].pr \notin github.open \/ Skipped(i)
              \/ items[i].pr \notin Tracked \cup history.asked
          BY <1>b, <1>1, <2>4 DEF Covered, TrackedCovered, TrackedSearched, AllSearched
        <5> QED
          BY <4>1, <4>2, <4>3, <4>4, <5>1
    <3> QED
      BY <1>b, <1>2, <2>1, <2>4, <3>1 DEF Covered, AskedCovered, TrackedCovered, AllCovered,
         TrackedSearched, AllSearched
  <2> QED
    BY <1>a, <1>5, <2>2, <2>3, <2>4 DEF Shapes, Polls, Passes
<1> QED
  BY <1>4, <1>5

LEMMA EndPassOwes == ASSUME Base, Lossless, EndPass PROVE Owes'
<1>b. /\ poll.stage = "dispatch" /\ poll.jobs = {} /\ poll'.jobs = {}
      /\ poll.pass # "contributed" /\ poll'.stage = "search"
      /\ poll'.pass = NextPass(poll.pass) /\ poll'.start = poll.start
      /\ UNCHANGED <<clock, github, items, state, disk, history>>
  BY EndPassDoes DEF Lookless
<1> SUFFICES ASSUME NEW i \in Items, Pending(i)' PROVE Covered(i)'
  BY DEF Owes
<1>1. Pending(i) /\ Covered(i)
  BY <1>b DEF Pending, Lossless, Owes, InTick
<1>2. /\ Accounted(i)' <=> Accounted(i)
      /\ Tracked' = Tracked /\ ~Reading(i) /\ ~ToRead(items[i].pr) /\ JobPrs = {}
      /\ Skipped(i)' <=> Skipped(i)
  BY <1>b DEF Accounted, Tracked, Skipped, Reading, ToRead, JobPrs
<1>3. poll.pass \in {"own", "requests", "tracked"}
  BY <1>b DEF Base, Shapes, Polls, Passes
<1> USE DEF Covered, OwnCovered, AskedCovered, TrackedCovered, AllCovered,
            OwnSearched, RequestsSearched, TrackedSearched, AllSearched, NextPass
<1>4. CASE poll.pass = "own"
  BY <1>b, <1>1, <1>2, <1>4
<1>5. CASE poll.pass = "requests"
  BY <1>b, <1>1, <1>2, <1>5
<1>6. CASE poll.pass = "tracked"
  BY <1>b, <1>1, <1>2, <1>6
<1> QED
  BY <1>3, <1>4, <1>5, <1>6

LEMMA ReadPrOwes == ASSUME Base, Lossless, NEW p \in Prs, ReadPr(p) PROVE Owes'
<1>b. /\ poll.stage = "read" /\ p \in poll.todo /\ poll'.todo = poll.todo \ {p}
      /\ poll'.pass = poll.pass /\ poll'.start = poll.start
      /\ poll.jobs \subseteq poll'.jobs
      /\ UNCHANGED <<clock, github, items, state, disk, history>>
  BY ReadPrDoes DEF Lookless
<1>c. poll'.stage \in {"read", "read diff"}
  BY ReadPrDoes
<1>d. Keeps
  BY <1>b, SameAccount
<1> SUFFICES ASSUME NEW i \in Items, Pending(i)' PROVE Covered(i)'
  BY DEF Owes
<1>1. Pending(i) /\ Covered(i)
  BY <1>b DEF Pending, Lossless, Owes, InTick
<1>2. i \in Visible(items[i].pr)
  BY <1>1, SeenThen
<1>3. Tracked' = Tracked /\ (Skipped(i)' <=> Skipped(i)) /\ JobPrs \subseteq JobPrs'
  BY <1>b DEF Tracked, Skipped, JobPrs
<1>4. items[i].pr # p /\ ToRead(items[i].pr) => ToRead(items[i].pr)'
  BY <1>b, <1>c DEF ToRead
<1>5. poll.pass # "requests" /\ Reading(i) =>
         Reading(i)' \/ (poll.pass = "tracked" /\ items[i].pr \notin github.open)
  <2>1. CASE items[i].pr # p
    <3>1. Reading(i) => ToRead(items[i].pr)
      BY <1>b DEF Reading
    <3>2. ToRead(items[i].pr)' => Reading(i)'
      BY DEF Reading
    <3> QED
      BY <1>4, <2>1, <3>1, <3>2
  <2>2. CASE items[i].pr = p
    <3>1. CASE /\ poll'.stage = "read diff" /\ poll'.look.pr = p
               /\ poll'.look.items = Visible(p)
      BY <1>b, <1>2, <2>2, <3>1 DEF Reading
    <3>2. CASE poll.pass = "tracked" /\ p \notin github.open
      BY <2>2, <3>2
    <3> QED
      BY <3>1, <3>2, ReadPrDoes
  <2> QED
    BY <2>1, <2>2
<1>6. poll.pass = "requests" /\ ToRead(items[i].pr) =>
         ToRead(items[i].pr)' \/ items[i].pr \in JobPrs' \/ items[i].pr \in Tracked
  <2>1. CASE items[i].pr # p
    BY <1>4, <2>1
  <2>2. CASE items[i].pr = p /\ poll.pass = "requests" /\ p \notin Tracked
    <3>1. \E job \in poll'.jobs : job.pr = p
      BY <2>2, ReadPrDoes
    <3> QED
      BY <2>2, <3>1 DEF JobPrs
  <2> QED
    BY <2>1, <2>2
<1> QED
  BY <1>b, <1>c, <1>d, <1>1, <1>3, <1>5, <1>6, SameCover

LEMMA ReadDiffOwes == ASSUME Base, Lossless, ReadDiffComments PROVE Owes'
<1> DEFINE fresh == Fresh(poll.pass, poll.look.pr, poll.look.items)
           decided == Decided(poll.pass, poll.look, fresh)
<1>b. /\ poll.stage = "read diff" /\ poll'.stage = "read" /\ poll'.todo = poll.todo
      /\ poll'.pass = poll.pass /\ poll'.start = poll.start
      /\ poll'.jobs = poll.jobs \cup decided
      /\ \A job \in decided : job.items = fresh
      /\ UNCHANGED <<clock, github, items, state, disk, history>>
  BY ReadDiffDoes DEF Lookless
<1>d. Keeps
  BY <1>b, SameAccount
<1> SUFFICES ASSUME NEW i \in Items, Pending(i)' PROVE Covered(i)'
  BY DEF Owes
<1>1. Pending(i) /\ Covered(i)
  BY <1>b DEF Pending, Lossless, Owes, InTick
<1>2. i \in Visible(items[i].pr)
  BY <1>1, SeenThen
<1>3. Tracked' = Tracked /\ (Skipped(i)' <=> Skipped(i)) /\ JobPrs \subseteq JobPrs'
  BY <1>b DEF Tracked, Skipped, JobPrs
<1>4. ToRead(items[i].pr) => ToRead(items[i].pr)'
  BY <1>b DEF ToRead
<1>5. poll.pass # "requests" /\ Reading(i) =>
         Reading(i)' \/ Accounted(i)' \/ (poll.pass = "tracked" /\ Skipped(i))
  <2>1. CASE ToRead(items[i].pr)
    BY <1>b, <1>4, <2>1 DEF Reading
  <2>2. CASE /\ poll.pass # "requests" /\ poll.look.pr = items[i].pr /\ i \in poll.look.items
    <3>1. EffectiveTime(i, poll.look.items) > state.lastPoll
      BY <1>1, <2>2, Dates DEF EffectiveTime, Pending
    <3>2. CASE poll.pass = "tracked" /\ items[i].kind = "review"
      BY <1>b, <2>2, <3>2 DEF Skipped, Base, Steps
    <3> SUFFICES ASSUME ~(poll.pass = "tracked" /\ items[i].kind = "review")
                 PROVE  Accounted(i)'
      BY <3>2
    <3>4. i \in fresh
      BY <1>2, <2>2, <3>1 DEF Fresh, Listed
    <3>3. decided # {}
      <4>1. poll.pass \in {"own", "contributed", "tracked"}
        BY <2>2 DEF Base, Shapes, Polls, Passes
      <4> HIDE DEF fresh
      <4> QED
        BY <3>4, <4>1 DEF Decided
    <3> QED
      BY <1>b, <3>4, <3>3 DEF Accounted
  <2> QED
    BY <2>1, <2>2 DEF Reading
<1> HIDE DEF fresh, decided
<1> QED
  BY <1>b, <1>d, <1>1, <1>3, <1>4, <1>5, SameCover

(* PR p is left out: everything visible on it is excused. *)
LEMMA ExcusedAll ==
    ASSUME NEW p, NEW why \in Excuses, history'.excusing = Excuse(p, why),
           NEW i \in Items, i \in Visible(p)
    PROVE  Accounted(i)'
<1>1. <<i, why>> \in history'.excusing
  BY DEF Excuse
<1> QED
  BY <1>1 DEF Accounted

LEMMA ExcuseGrows ==
    ASSUME NEW p, NEW why, history'.excusing = Excuse(p, why)
    PROVE  history.excusing \subseteq history'.excusing
BY DEF Excuse

LEMMA ReadFailsOwes == ASSUME Base, Lossless, NEW p \in Prs, ReadFails(p) PROVE Owes'
<1>b. /\ poll.stage \in {"read", "read diff"} /\ poll'.stage = "read"
      /\ (poll.stage = "read diff" => p = poll.look.pr)
      /\ poll'.todo = poll.todo \ {p}
      /\ poll'.pass = poll.pass /\ poll'.start = poll.start /\ poll'.jobs = poll.jobs
      /\ history'.handled = history.handled /\ history'.asked = history.asked
      /\ history'.excusing = Excuse(p, "fetch")
      /\ UNCHANGED <<clock, github, items, state, disk>>
  BY ReadFailsDoes DEF Lookless
<1>d. Keeps
  BY <1>b, SameAccount, ExcuseGrows
<1> SUFFICES ASSUME NEW i \in Items, Pending(i)' PROVE Covered(i)'
  BY DEF Owes
<1>1. Pending(i) /\ Covered(i)
  BY <1>b DEF Pending, Lossless, Owes, InTick
<1>2. i \in Visible(items[i].pr)
  BY <1>1, SeenThen
<1>3. Tracked' = Tracked /\ (Skipped(i)' <=> Skipped(i)) /\ JobPrs' = JobPrs
  BY <1>b DEF Tracked, Skipped, JobPrs
<1>4. CASE items[i].pr = p
  <2>1. Accounted(i)'
    BY <1>b, <1>2, <1>4, ExcusedAll DEF Excuses
  <2> QED
    BY <1>b, <1>d, <1>1, <1>3, <2>1, SameCover
<1>5. CASE items[i].pr # p
  <2>1. ToRead(items[i].pr) => ToRead(items[i].pr)'
    BY <1>b, <1>5 DEF ToRead
  <2>2. Reading(i) => ToRead(items[i].pr)
    BY <1>b, <1>5 DEF Reading
  <2>3. Reading(i) => Reading(i)'
    BY <1>b, <2>1, <2>2 DEF Reading
  <2> QED
    BY <1>b, <1>d, <1>1, <1>3, <2>1, <2>3, SameCover
<1> QED
  BY <1>4, <1>5

LEMMA EndReadOwes == ASSUME Base, Lossless, EndRead PROVE Owes'
<1>b. /\ poll.stage = "read" /\ poll.todo = {} /\ poll'.stage = "dispatch"
      /\ poll'.pass = poll.pass /\ poll'.start = poll.start /\ poll'.jobs = poll.jobs
      /\ history'.handled = history.handled /\ history'.asked = history.asked
      /\ history'.excusing = history.excusing
      /\ state'.lastPoll = state.lastPoll
      /\ \A p \in Prs : state'.reviewed[p] =
                           IF p \in poll.prunes THEN Unseen ELSE state.reviewed[p]
      /\ UNCHANGED <<clock, github, items>>
  BY EndReadDoes
<1>d. Keeps
  BY <1>b, SameAccount
<1> SUFFICES ASSUME NEW i \in Items, Pending(i)' PROVE Covered(i)'
  BY DEF Owes
<1>1. Pending(i) /\ Covered(i)
  BY <1>b DEF Pending, Lossless, Owes, InTick
<1>2. ~Reading(i) /\ ~ToRead(items[i].pr) /\ JobPrs' = JobPrs
  BY <1>b DEF Reading, ToRead, JobPrs
<1>a. Skipped(i) => Skipped(i)' \/ items[i].pr \notin github.open
  <2>1. poll.prunes \cap github.open = {}
    BY DEF Lossless, JobItems
  <2> QED
    BY <1>b, <2>1 DEF Skipped, Tracked
<1>3. /\ Tracked' \subseteq Tracked
      /\ poll.pass # "tracked" => Tracked' = Tracked
  <2>1. Tracked' \subseteq Tracked
    BY <1>b DEF Tracked
  <2>2. poll.pass # "tracked" => poll.prunes = {}
    BY DEF Lossless, JobItems
  <2> QED
    BY <1>b, <2>1, <2>2 DEF Tracked
<1> QED
  BY <1>a, <1>b, <1>d, <1>1, <1>2, <1>3, SameCover

LEMMA PrepFailsOwes ==
    ASSUME Base, Lossless, NEW job \in poll.jobs, PrepFails(job) PROVE Owes'
<1>b. /\ poll.stage = "dispatch" /\ poll'.stage = "dispatch"
      /\ poll'.pass = poll.pass /\ poll'.start = poll.start /\ poll'.jobs = poll.jobs \ {job}
      /\ history'.handled = history.handled /\ history'.asked = history.asked
      /\ history'.excusing = Excuse(job.pr, "prep")
      /\ UNCHANGED <<clock, github, items, state, disk>>
  BY PrepFailsDoes DEF Lookless
<1>c. \A i \in Items : i \in Visible(job.pr) => Accounted(i)'
  BY <1>b, ExcusedAll DEF Excuses
<1>d. Keeps
  <2> SUFFICES ASSUME NEW i \in Items, Accounted(i) PROVE Accounted(i)'
    BY DEF Keeps
  <2>1. CASE i \in job.items
    <3>1. i \in Visible(job.pr)
      BY <2>1 DEF Lossless, JobItems, Visible
    <3> QED
      BY <1>c, <3>1
  <2>2. CASE \E j \in poll'.jobs : i \in j.items
    BY <2>2 DEF Accounted
  <2>3. CASE i \in history.handled \/ \E why \in Excuses : <<i, why>> \in history.excusing
    BY <1>b, <2>3, ExcuseGrows DEF Accounted
  <2> QED
    BY <1>b, <2>1, <2>2, <2>3 DEF Accounted
<1> SUFFICES ASSUME NEW i \in Items, Pending(i)' PROVE Covered(i)'
  BY DEF Owes
<1>1. Pending(i) /\ Covered(i)
  BY <1>b DEF Pending, Lossless, Owes, InTick
<1>2. ~Reading(i) /\ ~ToRead(items[i].pr) /\ Tracked' = Tracked
      /\ (Skipped(i)' <=> Skipped(i))
  BY <1>b DEF Reading, ToRead, Tracked, Skipped
<1>3. items[i].pr \in JobPrs => items[i].pr \in JobPrs' \/ Accounted(i)'
  <2>1. CASE items[i].pr = job.pr
    BY <1>c, <1>1, <2>1, SeenThen
  <2>2. CASE items[i].pr # job.pr
    BY <1>b, <2>2 DEF JobPrs
  <2> QED
    BY <2>1, <2>2
<1> QED
  BY <1>b, <1>d, <1>1, <1>2, <1>3, SameCover

LEMMA DispatchOwes ==
    ASSUME Base, Lossless, NEW job \in poll.jobs, Dispatch(job) PROVE Owes'
<1>b. /\ poll.stage = "dispatch" /\ poll'.stage = "turn" /\ job \in Jobs
      /\ poll'.pass = poll.pass /\ poll'.start = poll.start /\ poll'.jobs = poll.jobs \ {job}
      /\ history'.handled = history.handled \cup job.items /\ history'.asked = history.asked
      /\ history'.excusing = history.excusing
      /\ state'.lastPoll = state.lastPoll
      /\ UNCHANGED <<clock, github, items>>
  BY DispatchDoes
<1>c. IF Reviews
      THEN \A p \in Prs : state'.reviewed[p] = IF p = job.pr THEN job.head ELSE state.reviewed[p]
      ELSE state' = state
  BY DispatchDoes
<1>d. Keeps
  BY <1>b DEF Keeps, Accounted
<1>e. job.pr \in Prs /\ job.pr \in JobPrs /\ job.head # Unseen
  BY <1>b DEF Jobs, JobPrs, Base, Steps
<1> SUFFICES ASSUME NEW i \in Items, Pending(i)' PROVE Covered(i)'
  BY DEF Owes
<1>1. Pending(i) /\ Covered(i)
  BY <1>b DEF Pending, Lossless, Owes, InTick
<1>2. ~Reading(i) /\ ~ToRead(items[i].pr)
  BY <1>b DEF Reading, ToRead
<1>3. IF Reviews THEN Tracked' = Tracked \cup {job.pr} ELSE Tracked' = Tracked
  BY <1>c, <1>e DEF Tracked
<1>4. TrackedSearched => Tracked' = Tracked
  <2>1. CASE poll.pass = "tracked"
    BY <1>e, <1>3, <2>1 DEF Lossless, JobItems
  <2>2. CASE poll.pass = "contributed"
    BY <1>3, <2>2 DEF Reviews
  <2> QED
    BY <2>1, <2>2 DEF TrackedSearched
<1>5. AskedCovered(i)'
  <2> SUFFICES ASSUME poll.pass = "requests", items[i].pr \in JobPrs
               PROVE  items[i].pr \in JobPrs' \/ items[i].pr \in Tracked'
    BY <1>b, <1>d, <1>1, <1>2, <1>3
    DEF Covered, AskedCovered, RequestsSearched, TrackedSearched, Keeps
  <2>1. CASE items[i].pr = job.pr
    BY <1>3, <2>1 DEF Reviews
  <2>2. CASE items[i].pr # job.pr
    BY <1>b, <2>2 DEF JobPrs
  <2> QED
    BY <2>1, <2>2
<1>6. OwnCovered(i)' /\ AllCovered(i)'
  BY <1>b, <1>d, <1>1, <1>2 DEF Covered, OwnCovered, AllCovered, OwnSearched, AllSearched, Keeps
<1>7. TrackedCovered(i)'
  <2>1. TrackedSearched => (Skipped(i)' <=> Skipped(i))
    BY <1>b, <1>4 DEF Skipped
  <2> QED
    BY <1>b, <1>d, <1>1, <1>2, <1>4, <2>1
    DEF Covered, TrackedCovered, TrackedSearched, AllSearched, Keeps
<1> QED
  BY <1>5, <1>6, <1>7 DEF Covered

LEMMA TurnReturnsOwes == ASSUME Base, Lossless, TurnReturns PROVE Owes'
<1>b. /\ poll.stage = "turn" /\ poll'.stage = "dispatch"
      /\ poll'.pass = poll.pass /\ poll'.start = poll.start /\ poll'.jobs = poll.jobs
      /\ history'.handled = history.handled /\ history'.asked = history.asked
      /\ history'.excusing = history.excusing
      /\ state'.lastPoll = state.lastPoll /\ state'.reviewed = state.reviewed
      /\ UNCHANGED <<clock, items>> /\ github'.open = github.open
  BY TurnReturnsDoes
<1>d. Keeps
  BY <1>b, SameAccount
<1> SUFFICES ASSUME NEW i \in Items, Pending(i)' PROVE Covered(i)'
  BY DEF Owes
<1>1. Pending(i) /\ Covered(i)
  BY <1>b DEF Pending, Lossless, Owes, InTick
<1>2. ~Reading(i) /\ ~ToRead(items[i].pr) /\ Tracked' = Tracked
      /\ (Skipped(i)' <=> Skipped(i)) /\ JobPrs' = JobPrs
  BY <1>b DEF Reading, ToRead, Tracked, Skipped, JobPrs
<1> QED
  BY <1>b, <1>d, <1>1, <1>2, SameCover

(* An item published during a tick is not before its start. *)
LEMMA PeopleOwe == ASSUME Base, Lossless, People PROVE Owes'
<1>b. UNCHANGED <<state, disk, poll, history>> /\ ClockGrows /\ HubGrows /\ NotesGrow
  BY PeopleDo
<1> SUFFICES ASSUME InTick, NEW i \in Items, Pending(i)' PROVE Covered(i)'
  BY <1>b DEF Owes, InTick
<1>1. items'[i].published = items[i].published
  BY <1>b, Dates DEF NotesGrow, Pending
<1>2. items'[i].pr = items[i].pr /\ items'[i].kind = items[i].kind
  BY <1>b DEF NotesGrow
<1>3. Covered(i)
  BY <1>b, <1>1 DEF Pending, Lossless, Owes
<1>4. /\ Accounted(i)' <=> Accounted(i)
      /\ Reading(i)' <=> Reading(i)
      /\ ToRead(items[i].pr)' <=> ToRead(items[i].pr)
      /\ Tracked' = Tracked /\ JobPrs' = JobPrs /\ (Skipped(i)' <=> Skipped(i))
  BY <1>b, <1>2 DEF Accounted, Reading, ToRead, Tracked, Skipped, JobPrs
<1>5. github'.open \subseteq github.open
  BY <1>b DEF HubGrows
<1> QED
  BY <1>b, <1>2, <1>3, <1>4, <1>5 DEF Covered, OwnCovered, AskedCovered, TrackedCovered, AllCovered,
     OwnSearched, RequestsSearched, TrackedSearched, AllSearched

LEMMA StartTickOwes == ASSUME Base, StartTick PROVE Owes'
BY StartTickDoes DEF Base, Owes, Covered, OwnCovered, AskedCovered, TrackedCovered, AllCovered,
   OwnSearched, RequestsSearched, TrackedSearched, AllSearched

LEMMA NoTickOwes == ASSUME poll'.stage \in {"idle", "down"} PROVE Owes'
BY DEF Owes, InTick

-----------------------------------------------------------------------------

LEMMA NoJobs ==
    ASSUME poll'.jobs = {}, poll'.prunes = {} PROVE JobItems'
BY DEF JobItems, JobPrs

LEMMA FewerJobs ==
    ASSUME JobItems, UNCHANGED items, poll'.jobs \subseteq poll.jobs, poll'.pass = poll.pass,
           poll'.prunes \subseteq poll.prunes, github'.open \subseteq github.open,
           poll.pass = "tracked" => JobPrs' \subseteq Tracked'
    PROVE  JobItems'
BY DEF JobItems

LEMMA PeopleJobs == ASSUME Base, JobItems, People PROVE JobItems'
<1>1. UNCHANGED <<state, disk, poll, history>> /\ NotesGrow /\ github'.open \subseteq github.open
  BY PeopleDo DEF HubGrows
<1>2. ASSUME NEW job \in poll.jobs, NEW i \in job.items
      PROVE  i \in Items /\ items'[i].pr = job.pr /\ items'[i].published # Unseen
  BY <1>1, <1>2 DEF JobItems, NotesGrow
<1> QED
  BY <1>1, <1>2 DEF JobItems, JobPrs, Tracked

LEMMA ReadJobs ==
    ASSUME Base, JobItems, ReadDiffComments \/ \E p \in Prs : ReadPr(p) \/ ReadFails(p)
    PROVE  JobItems'
<1>1. CASE ReadDiffComments
  <2> DEFINE fresh == Fresh(poll.pass, poll.look.pr, poll.look.items)
             decided == Decided(poll.pass, poll.look, fresh)
  <2>1. /\ poll.stage = "read diff" /\ poll'.jobs = poll.jobs \cup decided
        /\ \A job \in decided : job.pr = poll.look.pr /\ job.items = fresh
        /\ poll'.pass = poll.pass /\ poll'.prunes = poll.prunes
        /\ UNCHANGED <<github, items, state>>
    BY <1>1, ReadDiffDoes DEF Lookless
  <2>2. \A i \in fresh : i \in Items /\ items[i].pr = poll.look.pr /\ items[i].published # Unseen
    BY DEF Fresh, Listed, Visible
  <2>3. poll.pass = "tracked" => poll.look.pr \in Tracked
    BY <2>1 DEF Base, Steps
  <2> HIDE DEF decided, fresh
  <2>4. Tracked' = Tracked /\ JobPrs' \subseteq JobPrs \cup {poll.look.pr}
    BY <2>1 DEF Tracked, JobPrs
  <2>5. \A job \in poll'.jobs : \A i \in job.items :
          i \in Items /\ items[i].pr = job.pr /\ items[i].published # Unseen
    BY <2>1, <2>2 DEF JobItems
  <2> QED
    BY <2>1, <2>3, <2>4, <2>5 DEF JobItems
<1>2. ASSUME NEW p \in Prs, ReadPr(p) PROVE JobItems'
  <2>1. poll'.pass = poll.pass /\ UNCHANGED <<github, items, state>>
    BY <1>2, ReadPrDoes DEF Lookless
  <2>2. Tracked' = Tracked
    BY <2>1 DEF Tracked
  <2>3. CASE /\ poll.pass = "requests" /\ poll'.prunes = poll.prunes
             /\ \E job \in Jobs : job.items = {} /\ poll'.jobs = poll.jobs \cup {job}
    BY <2>1, <2>3 DEF JobItems
  <2>4. CASE /\ poll'.jobs = poll.jobs
             /\ \/ poll'.prunes = poll.prunes
                \/ /\ poll.pass = "tracked" /\ p \notin github.open
                   /\ poll'.prunes = poll.prunes \cup {p}
    BY <2>1, <2>2, <2>4 DEF JobItems, JobPrs
  <2> QED
    BY <1>2, <2>3, <2>4, ReadPrDoes
<1>3. ASSUME NEW p \in Prs, ReadFails(p) PROVE JobItems'
  <2>1. /\ UNCHANGED <<github, items, state>> /\ poll'.jobs = poll.jobs /\ poll'.pass = poll.pass
        /\ poll'.prunes = poll.prunes
    BY <1>3, ReadFailsDoes DEF Lookless
  <2> QED
    BY <2>1 DEF JobItems, JobPrs, Tracked
<1> QED
  BY <1>1, <1>2, <1>3

LEMMA TurnJobs ==
    ASSUME Base, JobItems,
           EndRead \/ TurnReturns \/ \E job \in poll.jobs : PrepFails(job) \/ Dispatch(job)
    PROVE  JobItems'
<1>1. CASE EndRead
  <2>1. /\ poll'.jobs = poll.jobs /\ poll'.pass = poll.pass /\ poll'.prunes = {}
        /\ UNCHANGED items /\ github'.open = github.open /\ poll.stage = "read"
        /\ \A p \in Prs : state'.reviewed[p] =
                             IF p \in poll.prunes THEN Unseen ELSE state.reviewed[p]
    BY <1>1, EndReadDoes
  <2>2. poll.prunes \cap JobPrs = {}
    BY <2>1 DEF Base, Steps
  <2>3. Tracked' = Tracked \ poll.prunes /\ JobPrs' = JobPrs
    BY <2>1 DEF Tracked, JobPrs
  <2> QED
    BY <2>1, <2>2, <2>3, FewerJobs DEF JobItems
<1>2. CASE TurnReturns
  <2>1. /\ poll'.jobs = poll.jobs /\ poll'.pass = poll.pass /\ poll'.prunes = poll.prunes
        /\ UNCHANGED items /\ github'.open = github.open /\ state'.reviewed = state.reviewed
    BY <1>2, TurnReturnsDoes
  <2> QED
    BY <2>1 DEF JobItems, JobPrs, Tracked
<1>3. ASSUME NEW job \in poll.jobs, PrepFails(job) PROVE JobItems'
  <2>1. /\ poll'.jobs \subseteq poll.jobs /\ poll'.pass = poll.pass
        /\ poll'.prunes = poll.prunes /\ UNCHANGED <<github, items, state>>
    BY <1>3, PrepFailsDoes DEF Lookless
  <2> QED
    BY <2>1, FewerJobs DEF JobItems, JobPrs, Tracked
<1>4. ASSUME NEW job \in poll.jobs, Dispatch(job) PROVE JobItems'
  <2>1. /\ poll'.jobs \subseteq poll.jobs /\ poll'.pass = poll.pass
        /\ poll'.prunes = poll.prunes /\ UNCHANGED items /\ github'.open = github.open
        /\ job \in Jobs
    BY <1>4, DispatchDoes
  <2>2. Tracked \subseteq Tracked'
    <3>1. job.head # Unseen
      BY DEF Base, Steps
    <3>2. CASE Reviews
      <4>1. \A p \in Prs : state'.reviewed[p] = IF p = job.pr THEN job.head ELSE state.reviewed[p]
        BY <1>4, <3>2, DispatchDoes
      <4> QED
        BY <3>1, <4>1 DEF Tracked
    <3>3. CASE ~Reviews
      <4>1. state' = state
        BY <1>4, <3>3, DispatchDoes
      <4> QED
        BY <4>1 DEF Tracked
    <3> QED
      BY <3>2, <3>3
  <2>3. JobPrs' \subseteq JobPrs
    BY <2>1 DEF JobPrs
  <2> QED
    BY <2>1, <2>2, <2>3, FewerJobs DEF JobItems
<1> QED
  BY <1>1, <1>2, <1>3, <1>4

LEMMA StepJobs == Base /\ JobItems /\ [Next]_vars => JobItems'
<1> SUFFICES ASSUME Base, JobItems, [Next]_vars PROVE JobItems'
  OBVIOUS
<1>1. Shapes /\ Steps
  BY DEF Base
<1>2. CASE UNCHANGED vars
  BY <1>2 DEF vars, JobItems, JobPrs, Tracked
<1>3. CASE Boot \/ StartTick \/ EndTick \/ SearchFails \/ Kill
  BY <1>1, <1>3, BootDoes, StartTickDoes, EndTickDoes, BreakDoes, NoJobs
<1>4. CASE Search
  BY <1>1, <1>4, SearchDoes, NoJobs DEF Steps
<1>5. CASE EndPass
  BY <1>1, <1>5, EndPassDoes, NoJobs DEF Steps
<1> QED
  BY <1>2, <1>3, <1>4, <1>5, PeopleJobs, ReadJobs, TurnJobs DEF Next, Progress, Failures

LEMMA PeopleCursors == ASSUME Base, Cursors, People PROVE Cursors'
<1>1. state' = state /\ disk' = disk
  BY PeopleDo
<1>2. \A c \in {state.lastPoll, disk.lastPoll} :
         /\ c <= clock' /\ c \in history'.starts
         /\ \A i \in Items : items'[i].published # Unseen /\ items'[i].published <= c => Told(i)'
  BY PeopleClear, Dates DEF Cursors
<1> QED
  BY <1>1, <1>2 DEF Cursors, Clear

LEMMA StepCursors == Base /\ Lossless /\ [Next]_vars => Cursors'
<1> SUFFICES ASSUME Base, Lossless, [Next]_vars PROVE Cursors'
  OBVIOUS
<1>1. Shapes /\ Cursors
  BY DEF Base, Lossless
<1>2. CASE UNCHANGED vars
  BY <1>1, <1>2 DEF vars, Cursors, Clear, Told
<1>3. CASE People
  BY <1>1, <1>3, PeopleCursors
<1>4. CASE StartTick \/ Search \/ SearchFails \/ Kill \/ EndPass
  BY <1>1, <1>4, StartTickDoes, SearchDoes, BreakDoes, EndPassDoes, CursorsStay DEF Lookless
<1>5. CASE ReadDiffComments \/ \E p \in Prs : ReadPr(p) \/ ReadFails(p)
  BY <1>1, <1>5, ReadDiffDoes, ReadPrDoes, ReadFailsDoes, CursorsStay DEF Lookless
<1>6. CASE \E job \in poll.jobs : PrepFails(job)
  BY <1>1, <1>6, PrepFailsDoes, CursorsStay DEF Lookless
<1>7. CASE EndRead
  BY <1>1, <1>7, EndReadDoes, CursorsStay
<1>8. ASSUME NEW job \in poll.jobs, Dispatch(job) PROVE Cursors'
  <2>1. /\ UNCHANGED <<clock, items>> /\ history.handled \subseteq history'.handled
        /\ history'.excused = history.excused /\ history'.starts = history.starts
        /\ state'.lastPoll = state.lastPoll
        /\ disk'.lastPoll \in {state'.lastPoll, disk.lastPoll}
    BY <1>8, DispatchDoes
  <2> QED
    BY <1>1, <2>1, CursorsStay
<1>9. CASE TurnReturns
  <2>1. /\ UNCHANGED <<clock, items>> /\ history'.handled = history.handled
        /\ history'.excused = history.excused /\ history'.starts = history.starts
        /\ state'.lastPoll = state.lastPoll
        /\ disk'.lastPoll \in {state'.lastPoll, disk.lastPoll}
    BY <1>9, TurnReturnsDoes
  <2> QED
    BY <1>1, <2>1, CursorsStay
<1>10. CASE Boot
  <2>1. /\ UNCHANGED <<clock, items>> /\ history'.handled = history.handled
        /\ Reloaded \/ Restarted
    BY <1>10, BootDoes
  <2>2. CASE Reloaded
    <3>1. state'.lastPoll = disk.lastPoll
      BY <1>1, <2>2, RolledBackDoes DEF Shapes, Reloaded
    <3>2. /\ history'.excused = history.excused /\ history'.starts = history.starts
          /\ disk'.lastPoll \in {state'.lastPoll, disk.lastPoll}
      BY <2>2 DEF Reloaded
    <3> QED
      BY <1>1, <2>1, <3>1, <3>2, CursorsStay
  <2>3. CASE Restarted
    <3>1. /\ state'.lastPoll = clock /\ disk' = disk
          /\ history.excused \subseteq history'.excused
          /\ history'.starts = history.starts \cup {clock}
      BY <1>1, <2>3, StartingNowTyped DEF Restarted
    <3>2. ASSUME NEW i \in Items, items[i].published # Unseen PROVE Told(i)'
      <4>1. items[i].pr \in Prs /\ i \in Visible(items[i].pr)
        BY <1>1, <3>2 DEF Shapes, Notes, Visible
      <4>2. <<i, "fresh start">> \in history'.excused
        BY <2>3, <4>1 DEF Restarted
      <4> QED
        BY <4>2 DEF Told, Excuses
    <3>3. Clear(state.lastPoll)'
      BY <2>1, <3>1, <3>2, Dates DEF Clear
    <3>4. disk.lastPoll <= clock' /\ disk.lastPoll \in history'.starts
      BY <1>1, <2>1, <3>1 DEF Cursors, Clear
    <3>5. Clear(disk.lastPoll)'
      BY <2>1, <3>1, <3>2, <3>4 DEF Clear
    <3> QED
      BY <3>3, <3>5 DEF Cursors
  <2> QED
    BY <2>1, <2>2, <2>3
<1> QED
  BY <1>2, <1>3, <1>4, <1>5, <1>6, <1>7, <1>8, <1>9, <1>10, EndTickClear
  DEF Next, Progress, Failures

LEMMA StepOwes == Base /\ Lossless /\ [Next]_vars => Owes'
<1> SUFFICES ASSUME Base, Lossless, [Next]_vars PROVE Owes'
  OBVIOUS
<1>1. Shapes
  BY DEF Base
<1>2. CASE UNCHANGED vars
  <2>1. ASSUME NEW i \in Items PROVE Covered(i)' <=> Covered(i)
    BY <1>2 DEF vars, Covered, OwnCovered, AskedCovered, TrackedCovered, AllCovered,
       OwnSearched, RequestsSearched, TrackedSearched, AllSearched,
       Accounted, Reading, ToRead, Tracked, Skipped, JobPrs
  <2>2. (InTick' <=> InTick) /\ \A i \in Items : Pending(i)' <=> Pending(i)
    BY <1>2 DEF vars, InTick, Pending
  <2> QED
    BY <2>1, <2>2 DEF Lossless, Owes
<1>3. CASE Boot \/ EndTick \/ SearchFails \/ Kill
  BY <1>1, <1>3, BootDoes, EndTickDoes, BreakDoes, NoTickOwes
<1> QED
  BY <1>2, <1>3, PeopleOwe, StartTickOwes, SearchOwes, ReadDiffOwes, EndReadOwes,
     TurnReturnsOwes, EndPassOwes, ReadPrOwes, DispatchOwes, ReadFailsOwes, PrepFailsOwes
  DEF Next, Progress, Failures

LEMMA InitLossless == Init => Lossless
<1> SUFFICES ASSUME Init PROVE Lossless
  OBVIOUS
<1>1. clock = 1 /\ state.lastPoll = 1 /\ disk.lastPoll = 1 /\ 1 \in history.starts
  BY DEF Init, StartingNow
<1>2. \A i \in Items : items[i].published = Unseen
  BY DEF Init
<1>3. poll.stage = "idle" /\ poll.jobs = {} /\ poll.prunes = {}
  BY IdleTyped DEF Init
<1> QED
  BY <1>1, <1>2, <1>3 DEF Lossless, Cursors, Clear, JobItems, JobPrs, Owes, InTick

LEMMA StepLossless == Base /\ Lossless /\ [Next]_vars => Lossless'
BY StepCursors, StepJobs, StepOwes DEF Lossless

(* An item that fell behind the cursor was in a turn, or its PR was left   *)
(* out of a tick for a reason that NothingLost names: it is a review of a  *)
(* tracked PR, or the document that held the cursor could not be read.     *)
THEOREM NothingLostAlways == Spec => []NothingLost
<1>1. Base /\ Lossless /\ [Next]_vars => Lossless'
  BY StepLossless
<1>2. Base /\ Lossless => NothingLost
  <2> SUFFICES ASSUME Base, Lossless, NEW i \in Items, Behind(i) PROVE Told(i)
    BY DEF NothingLost, Told
  <2>1. /\ Cursor \in {state.lastPoll, disk.lastPoll} /\ Cursor \in Nat
        /\ items[i].published \in 1 .. Cursor
    BY Dates DEF Behind, Cursor
  <2> QED
    BY <2>1 DEF Lossless, Cursors, Clear, Unseen
<1> QED
  BY BaseHolds, InitLossless, <1>1, <1>2, PTL DEF Spec

-----------------------------------------------------------------------------
(* No turn repeats what the document says is done.                          *)

(* A diff comment is drafted before it is published. *)
Dated ==
    \A i \in Items : /\ items[i].drafted <= clock
                     /\ items[i].kind = "inline" /\ items[i].published # Unseen =>
                           items[i].drafted # Unseen /\ items[i].drafted <= items[i].published

(* Recorded heads, those of jobs and GitHub's, in this order. *)
Below(s) == /\ \A p \in Prs : s.reviewed[p] <= github.head[p]
            /\ \A f \in s.inFlight : f.prev <= github.head[f.pr]
Between(p, head) == /\ state.reviewed[p] <= head /\ disk.reviewed[p] <= head
                    /\ head <= github.head[p]
Headed ==
    /\ Below(state) /\ Below(disk)
    /\ \A job \in poll.jobs : Between(job.pr, job.head)
    /\ poll.stage = "read diff" => Between(poll.look.pr, poll.look.head)

(* The document lags behind the memory, except where a boot could not store *)
(* its rollback or read the document, or a closed PR was pruned in memory   *)
(* only.                                                                    *)
Fits(p) == \/ disk.reviewed[p] <= state.reviewed[p]
           \/ \E f \in disk.inFlight : f.pr = p
           \/ p \in history.forgotten
Behindhand ==
    poll.stage # "down" =>
        /\ disk.lastPoll <= state.lastPoll
        /\ InTick => state.lastPoll <= poll.start
        /\ \A p \in Prs : Fits(p) \/ (p \notin github.open /\ state.reviewed[p] = Unseen)
        /\ poll.prunes \cap github.open = {}
        /\ poll.pass = "requests" =>
              /\ poll.stage # "read diff"
              /\ poll.stage = "read" => \A p \in poll.todo : Fits(p)
              /\ \A p \in JobPrs : Fits(p)

(* Each job has a reason. *)
Reason(job) == \/ \E i \in job.items : items[i].published > state.lastPoll
               \/ Reviews /\ job.head # state.reviewed[job.pr]
Reasons == \A job \in poll.jobs : Reason(job)

LEMMA HeadNat ==
    ASSUME Base
    PROVE  /\ \A p \in Prs : /\ github.head[p] \in Nat \ {0}
                             /\ state.reviewed[p] \in Nat /\ disk.reviewed[p] \in Nat
           /\ \A job \in Jobs : job.head \in Nat /\ job.pr \in Prs /\ job.items \subseteq Items
           /\ \A f \in state.inFlight \cup disk.inFlight : f.prev \in Nat /\ f.pr \in Prs
           /\ poll.look.head \in Nat /\ poll.jobs \subseteq Jobs
<1>1. \A h \in Heads : h \in Nat
  BY Bounds DEF Heads
<1>2. /\ state.reviewed \in [Prs -> Heads] /\ disk.reviewed \in [Prs -> Heads]
      /\ \A f \in state.inFlight \cup disk.inFlight : f.prev \in Heads /\ f.pr \in Prs
  BY DEF Base, Shapes, PollState, Heads
<1>3. \A p \in Prs : github.head[p] \in 1 .. MaxEvents + 1
  BY DEF Base, Shapes, Hub
<1>4. \A job \in Jobs : job.head \in Heads /\ job.pr \in Prs /\ job.items \subseteq Items
  BY DEF Jobs, Heads
<1>5. poll.look.head \in Heads /\ poll.jobs \subseteq Jobs
  BY DEF Base, Shapes, Polls, Looks
<1> QED
  BY <1>1, <1>2, <1>3, <1>4, <1>5, Bounds

-----------------------------------------------------------------------------

LEMMA StepDated == Base /\ Dated /\ [Next]_vars => Dated'
<1> SUFFICES ASSUME Base, Dated, [Next]_vars PROVE Dated'
  OBVIOUS
<1>1. Shapes
  BY DEF Base
<1>2. CASE UNCHANGED <<clock, items>>
  BY <1>2 DEF Dated
<1>3. \A i \in Items : items[i].drafted \in Nat /\ items[i].published \in Nat
  <2>1. \A i \in Items : items[i].drafted \in 0 .. MaxClock /\ items[i].published \in 0 .. MaxClock
    BY <1>1 DEF Shapes, Notes
  <2> QED
    BY <2>1, Bounds
<1>4. clock \in Nat /\ items \in Notes
  BY <1>1, Bounds DEF Shapes
<1>5. CASE SecondPasses
  BY <1>3, <1>4, <1>5 DEF SecondPasses, Dated
<1>6. ASSUME NEW i \in Items, DraftItem(i) PROVE Dated'
  <2>1. /\ items' = [items EXCEPT ![i] = [items[i] EXCEPT !.drafted = clock]] /\ clock' = clock
        /\ items[i].kind = "inline" /\ items[i].drafted = Unseen
    BY <1>6 DEF DraftItem
  <2>2. items[i].published = Unseen
    BY <2>1 DEF Dated
  <2> QED
    BY <1>3, <1>4, <2>1, <2>2 DEF Dated, Notes
<1>7. ASSUME NEW i \in Items, PublishItem(i) PROVE Dated'
  <2>1. /\ clock' = clock
        /\ items[i].kind = "inline" => items[i].drafted # Unseen
        /\ items' = [items EXCEPT ![i] = [items[i] EXCEPT !.published = clock,
                       !.drafted = IF items[i].kind = "inline" THEN items[i].drafted ELSE clock]]
    BY <1>4, <1>7 DEF PublishItem, Notes
  <2>2. \A j \in Items \ {i} : items'[j] = items[j]
    BY <2>1
  <2>3. /\ items'[i].published = clock /\ items'[i].kind = items[i].kind
        /\ items'[i].drafted = IF items[i].kind = "inline" THEN items[i].drafted ELSE clock
    BY <1>4, <2>1 DEF Notes
  <2> QED
    BY <1>3, <1>4, <2>1, <2>2, <2>3 DEF Dated
<1>8. CASE \E p \in Prs : PushCommits(p) \/ RequestReview(p) \/ ClosePr(p)
  BY <1>2, <1>8 DEF PushCommits, RequestReview, ClosePr
<1>9. CASE People
  BY <1>5, <1>6, <1>7, <1>8, <1>9 DEF People
<1>10. CASE Progress \/ Failures
  BY <1>1, <1>2, <1>10, BootDoes, StartTickDoes, SearchDoes, ReadDiffDoes, EndReadDoes,
     TurnReturnsDoes, EndPassDoes, EndTickDoes, ReadPrDoes, DispatchDoes, BreakDoes,
     ReadFailsDoes, PrepFailsDoes DEF Progress, Failures, Lookless
<1>11. CASE UNCHANGED vars
  BY <1>2, <1>11 DEF vars
<1> QED
  BY <1>9, <1>10, <1>11 DEF Next

(* Recorded heads stay below GitHub's. *)
LEMMA BelowStays ==
    ASSUME NEW s, Below(s), Base, s \in {state, disk},
           \A p \in Prs : github'.head[p] \in Nat /\ github.head[p] <= github'.head[p]
    PROVE  /\ \A p \in Prs : s.reviewed[p] <= github'.head[p]
           /\ \A f \in s.inFlight : f.prev <= github'.head[f.pr]
BY HeadNat DEF Below

LEMMA SameHeaded ==
    ASSUME Base, Headed, UNCHANGED <<state, disk>>, github'.head = github.head,
           poll'.jobs \subseteq poll.jobs, poll'.stage # "read diff"
    PROVE  Headed'
BY DEF Headed, Between, Below

LEMMA PeopleHeaded == ASSUME Base, Headed, People PROVE Headed'
<1>1. UNCHANGED <<state, disk, poll>> /\ HubGrows
  BY PeopleDo
<1>2. \A p \in Prs : /\ github'.head[p] \in Nat /\ github.head[p] \in Nat
                     /\ github.head[p] <= github'.head[p]
  BY <1>1, Bounds, HeadNat DEF HubGrows, Hub
<1>3. Below(state)' /\ Below(disk)'
  BY <1>1, <1>2, BelowStays DEF Headed, Below
<1>4. \A job \in poll.jobs : job.pr \in Prs /\ job.head \in Nat
  BY HeadNat
<1>5. poll.stage = "read diff" => poll.look.pr \in Prs /\ poll.look.head \in Nat
  BY HeadNat DEF Base, Steps
<1>t. \A a, b, c \in Nat : a <= b /\ b <= c => a <= c
  OBVIOUS
<1>6. ASSUME NEW job \in poll.jobs
      PROVE  Between(job.pr, job.head)'
  <2>1. Between(job.pr, job.head)
    BY DEF Headed
  <2>2. /\ job.head \in Nat /\ github.head[job.pr] \in Nat /\ github'.head[job.pr] \in Nat
        /\ github.head[job.pr] <= github'.head[job.pr]
    BY <1>2, <1>4
  <2> QED
    BY <1>1, <1>t, <2>1, <2>2 DEF Between
<1>7. poll.stage = "read diff" => Between(poll.look.pr, poll.look.head)'
  <2> SUFFICES ASSUME poll.stage = "read diff" PROVE Between(poll.look.pr, poll.look.head)'
    OBVIOUS
  <2>1. Between(poll.look.pr, poll.look.head)
    BY DEF Headed
  <2>2. /\ poll.look.head \in Nat /\ github.head[poll.look.pr] \in Nat
        /\ github'.head[poll.look.pr] \in Nat
        /\ github.head[poll.look.pr] <= github'.head[poll.look.pr]
    BY <1>2, <1>5
  <2> QED
    BY <1>1, <1>t, <2>1, <2>2 DEF Between
<1> QED
  BY <1>1, <1>3, <1>6, <1>7 DEF Headed

LEMMA ReadHeaded ==
    ASSUME Base, Headed, ReadDiffComments \/ \E p \in Prs : ReadPr(p) \/ ReadFails(p)
    PROVE  Headed'
<1>1. CASE ReadDiffComments
  <2> DEFINE decided == Decided(poll.pass, poll.look, Fresh(poll.pass, poll.look.pr, poll.look.items))
  <2>1. /\ poll.stage = "read diff" /\ poll'.stage = "read" /\ poll'.jobs = poll.jobs \cup decided
        /\ \A job \in decided : job.pr = poll.look.pr /\ job.head = poll.look.head
        /\ UNCHANGED <<github, state, disk>>
    BY <1>1, ReadDiffDoes DEF Lookless
  <2> HIDE DEF decided
  <2> QED
    BY <2>1 DEF Headed, Between, Below
<1>2. ASSUME NEW p \in Prs, ReadPr(p) PROVE Headed'
  <2>1. UNCHANGED <<github, state, disk>>
    BY <1>2, ReadPrDoes DEF Lookless
  <2>a. \A n \in Nat : n <= n
    OBVIOUS
  <2>2. Between(p, github.head[p])
    <3>1. github.head[p] \in Nat
      BY <1>2, HeadNat
    <3>2. state.reviewed[p] <= github.head[p] /\ disk.reviewed[p] <= github.head[p]
      BY <1>2 DEF Headed, Below
    <3> QED
      BY <2>a, <3>1, <3>2 DEF Between
  <2>3. CASE poll'.stage = "read" /\ poll'.jobs = poll.jobs
    BY <2>1, <2>3, SameHeaded
  <2>4. CASE /\ poll'.stage = "read"
             /\ \E job \in Jobs : /\ job.pr = p /\ job.head = github.head[p]
                                  /\ poll'.jobs = poll.jobs \cup {job}
    BY <2>1, <2>2, <2>4 DEF Headed, Between, Below
  <2>5. CASE /\ poll'.look.pr = p /\ poll'.look.head = github.head[p] /\ poll'.jobs = poll.jobs
    BY <2>1, <2>2, <2>5 DEF Headed, Between, Below
  <2> QED
    BY <1>2, <2>3, <2>4, <2>5, ReadPrDoes
<1>3. ASSUME NEW p \in Prs, ReadFails(p) PROVE Headed'
  BY <1>3, ReadFailsDoes, SameHeaded DEF Lookless
<1> QED
  BY <1>1, <1>2, <1>3

LEMMA EndReadHeaded == ASSUME Base, Headed, EndRead PROVE Headed'
<1>1. /\ github' = github /\ poll'.stage = "dispatch" /\ poll'.jobs = poll.jobs
      /\ state'.inFlight = state.inFlight
      /\ \A p \in Prs : state'.reviewed[p] =
                           IF p \in poll.prunes THEN Unseen ELSE state.reviewed[p]
      /\ disk' = state' \/ disk' = disk
  BY EndReadDoes
<1>2. \A p \in Prs : 0 <= github.head[p]
  BY HeadNat
<1>3. \A job \in poll.jobs : job.pr \in Prs /\ 0 <= job.head
  BY HeadNat
<1>4. Below(state)'
  BY <1>1, <1>2 DEF Headed, Below, Unseen
<1>5. Below(disk)'
  BY <1>1, <1>4 DEF Headed, Below
<1> QED
  <2>1. ASSUME NEW job \in poll.jobs PROVE Between(job.pr, job.head)'
    BY <1>1, <1>3 DEF Headed, Between, Unseen
  <2> QED
    BY <1>1, <1>4, <1>5, <2>1 DEF Headed

LEMMA DispatchHeaded ==
    ASSUME Base, Headed, NEW job \in poll.jobs, Dispatch(job) PROVE Headed'
<1>1. /\ github' = github /\ poll'.stage = "turn" /\ poll'.jobs = poll.jobs \ {job}
  BY DispatchDoes
<1>2. CASE ~Reviews
  <2>1. UNCHANGED <<state, disk>>
    BY <1>2, DispatchDoes
  <2> QED
    BY <1>1, <2>1, SameHeaded
<1>3. CASE Reviews
  <2>1. /\ \A p \in Prs : state'.reviewed[p] =
                             IF p = job.pr THEN job.head ELSE state.reviewed[p]
        /\ state'.inFlight = {[pr |-> job.pr, prev |-> state.reviewed[job.pr]]}
        /\ disk' = state' \/ disk' = disk
    BY <1>3, DispatchDoes
  <2>2. job.pr \in Prs /\ \A j \in poll.jobs : j.pr \in Prs
    BY HeadNat
  <2>a. \A p \in Prs : state'.reviewed[p] <= github.head[p]
    BY <2>1, <2>2 DEF Headed, Between, Below
  <2>b. state.reviewed[job.pr] <= github.head[job.pr]
    BY <2>2 DEF Headed, Below
  <2>c. \A f \in state'.inFlight : f.pr = job.pr /\ f.prev = state.reviewed[job.pr]
    BY <2>1
  <2>3. Below(state)'
    BY <1>1, <2>a, <2>b, <2>c DEF Below
  <2>4. Below(disk)'
    BY <1>1, <2>1, <2>3 DEF Headed, Below
  <2>5. \A j \in poll'.jobs : j.pr # job.pr
    BY <1>1 DEF Base, Steps
  <2> QED
    <3>1. ASSUME NEW j \in poll'.jobs PROVE Between(j.pr, j.head)'
      BY <1>1, <2>1, <2>2, <2>5 DEF Headed, Between
    <3> QED
      BY <1>1, <2>3, <2>4, <3>1 DEF Headed
<1> QED
  BY <1>2, <1>3

LEMMA RestHeaded ==
    ASSUME Base, Headed, TurnReturns \/ EndTick \/ Boot PROVE Headed'
<1>1. CASE TurnReturns
  <2>1. /\ github'.head = github.head /\ poll'.stage = "dispatch" /\ poll'.jobs = poll.jobs
        /\ state'.inFlight \subseteq state.inFlight /\ state'.reviewed = state.reviewed
        /\ disk' = state' \/ disk' = disk
    BY <1>1, TurnReturnsDoes
  <2>2. Below(state)'
    BY <2>1 DEF Headed, Below
  <2> QED
    BY <2>1, <2>2 DEF Headed, Between, Below
<1>2. CASE EndTick
  <2>1. /\ github' = github /\ poll'.stage = "idle" /\ poll'.jobs = {}
        /\ state'.inFlight = state.inFlight /\ state'.reviewed = state.reviewed
        /\ disk' = state' \/ disk' = disk
    BY <1>2, EndTickDoes
  <2>2. Below(state)'
    BY <2>1 DEF Headed, Below
  <2> QED
    BY <2>1, <2>2 DEF Headed, Below
<1>3. CASE Boot
  <2>1. github' = github /\ poll'.stage = "idle" /\ poll'.jobs = {} /\ (Reloaded \/ Restarted)
    BY <1>3, BootDoes
  <2>2. disk \in PollState
    BY DEF Base, Shapes
  <2>3. Below(disk)
    BY DEF Headed
  <2>4. Below(state)'
    <3>1. CASE Reloaded
      <4>1. \A p \in Prs : RolledBack(disk).reviewed[p] <= github.head[p]
        BY <2>2, <2>3, RolledBackDoes DEF Below
      <4> QED
        BY <2>1, <2>2, <3>1, <4>1, RolledBackDoes DEF Below, Reloaded
    <3>2. CASE Restarted
      <4>1. \A p \in Prs : 0 <= github.head[p]
        BY HeadNat
      <4>2. state'.inFlight = {} /\ \A p \in Prs : state'.reviewed[p] = 0
        BY <3>2, StartingNowTyped DEF Base, Restarted, Unseen
      <4> QED
        BY <2>1, <4>1, <4>2 DEF Below
    <3> QED
      BY <2>1, <3>1, <3>2
  <2>5. disk' = state' \/ disk' = disk
    BY <2>1 DEF Reloaded, Restarted
  <2> QED
    BY <2>1, <2>3, <2>4, <2>5 DEF Headed, Below
<1> QED
  BY <1>1, <1>2, <1>3

LEMMA StepHeaded == Base /\ Headed /\ [Next]_vars => Headed'
<1> SUFFICES ASSUME Base, Headed, [Next]_vars PROVE Headed'
  OBVIOUS
<1>1. Shapes
  BY DEF Base
<1>2. CASE UNCHANGED vars
  BY <1>2 DEF vars, Headed, Between, Below
<1>3. CASE StartTick \/ Search \/ SearchFails \/ Kill \/ EndPass
  BY <1>1, <1>3, StartTickDoes, SearchDoes, BreakDoes, EndPassDoes, SameHeaded DEF Lookless
<1>4. CASE \E job \in poll.jobs : PrepFails(job)
  BY <1>4, PrepFailsDoes, SameHeaded DEF Lookless
<1> QED
  BY <1>2, <1>3, <1>4, PeopleHeaded, ReadHeaded, EndReadHeaded, DispatchHeaded, RestHeaded
  DEF Next, Progress, Failures

-----------------------------------------------------------------------------
(* The document lags behind the memory. *)

LEMMA Orders ==
    /\ \A n \in Nat : n <= n
    /\ \A a, b, c \in Nat : a <= b /\ b <= c => a <= c
OBVIOUS

LEMMA EqualFits ==
    ASSUME state' \in PollState, disk' = state', NEW p \in Prs PROVE Fits(p)'
<1>1. state'.reviewed[p] \in 0 .. MaxEvents + 1
  BY DEF PollState
<1> QED
  BY <1>1, Bounds DEF Fits

LEMMA SameFits ==
    ASSUME NEW p \in Prs, Fits(p), state'.reviewed[p] = state.reviewed[p], disk' = disk,
           p \in history.forgotten => p \in history'.forgotten
    PROVE  Fits(p)'
BY DEF Fits

LEMMA LastPolls ==
    ASSUME Base, Lossless
    PROVE  state.lastPoll \in Nat /\ disk.lastPoll \in Nat /\ clock \in Nat
           /\ state.lastPoll <= clock /\ poll.start \in Nat
<1>1. state.lastPoll \in Nat /\ disk.lastPoll \in Nat /\ clock \in Nat /\ poll.start \in Nat
  BY Bounds, Dates DEF Base, Shapes, Polls
<1> QED
  BY <1>1 DEF Lossless, Cursors, Clear

LEMMA PeopleBehindhand ==
    ASSUME Base, Behindhand, People PROVE Behindhand'
<1>1. UNCHANGED <<state, disk, poll, history>> /\ github'.open \subseteq github.open
  BY PeopleDo DEF HubGrows
<1>2. \A p \in Prs : Fits(p)' <=> Fits(p)
  BY <1>1 DEF Fits
<1>3. JobPrs' = JobPrs /\ InTick' = InTick
  BY <1>1 DEF JobPrs, InTick
<1>4. JobPrs \subseteq Prs /\ poll.todo \subseteq Prs
  BY HeadNat DEF JobPrs, Base, Shapes, Polls
<1> QED
  BY <1>1, <1>2, <1>3, <1>4 DEF Behindhand

(* Steps that leave memory, document and GitHub alone. *)
LEMMA LooklessBehindhand ==
    ASSUME Base, Behindhand, Lookless, poll.stage # "down",
           history'.forgotten = history.forgotten,
           InTick' => state.lastPoll <= poll'.start,
           poll'.prunes \cap github.open = {},
           poll'.pass = "requests" =>
              /\ poll'.stage # "read diff"
              /\ poll'.stage = "read" => \A p \in poll'.todo : Fits(p)
              /\ \A p \in JobPrs' : Fits(p),
           poll'.pass = "requests" => poll'.todo \subseteq Prs /\ JobPrs' \subseteq Prs
    PROVE  Behindhand'
<1>1. \A p \in Prs : Fits(p)' <=> Fits(p)
  BY DEF Fits, Lookless
<1> QED
  BY <1>1 DEF Behindhand, Lookless

LEMMA QuietBehindhand ==
    ASSUME Base, Lossless, Behindhand, StartTick \/ SearchFails \/ EndPass PROVE Behindhand'
<1>1. CASE StartTick
  <2>1. /\ Lookless /\ history' = history
        /\ poll.stage = "idle" /\ poll'.pass = "own" /\ poll'.start = clock
        /\ poll'.prunes = {}
    BY <1>1, StartTickDoes DEF Base
  <2> QED
    BY <2>1, LastPolls, LooklessBehindhand
<1>2. CASE SearchFails
  <2>2. poll.stage = "search" /\ poll'.stage = "idle"
    BY <1>2, IdleTyped DEF SearchFails
  <2>1. /\ Lookless /\ poll'.pass = "own" /\ poll'.prunes = {}
        /\ history'.forgotten = history.forgotten
    BY <1>2, <2>2, BreakDoes DEF Base
  <2> QED
    BY <2>1, <2>2, LooklessBehindhand DEF InTick
<1>3. CASE EndPass
  <2>1. /\ Lookless /\ history' = history
        /\ poll.stage = "dispatch" /\ poll'.start = poll.start
        /\ poll'.stage = "search" /\ poll'.prunes = poll.prunes
        /\ poll'.jobs = {} /\ poll'.todo = poll.todo
    BY <1>3, EndPassDoes
  <2>2. JobPrs' = {} /\ poll.todo \subseteq Prs
    BY <2>1 DEF JobPrs, Base, Shapes, Polls
  <2>3. /\ state.lastPoll <= poll.start
        /\ poll'.prunes \cap github.open = {}
    BY <2>1 DEF Behindhand, InTick
  <2> QED
    BY <2>1, <2>2, <2>3, LooklessBehindhand
<1> QED
  BY <1>1, <1>2, <1>3

LEMMA SearchBehindhand == ASSUME Base, Behindhand, Search PROVE Behindhand'
<1>1. /\ Lookless /\ history'.forgotten = history.forgotten
      /\ poll.stage = "search" /\ poll'.stage = "read"
      /\ poll'.todo = Found(poll.pass) /\ poll'.pass = poll.pass /\ poll'.start = poll.start
      /\ poll'.jobs = poll.jobs /\ poll'.prunes = poll.prunes
  BY SearchDoes DEF Base
<1>2. JobPrs' = {} /\ poll'.prunes = {}
  BY <1>1 DEF JobPrs, Base, Steps
<1>3. state.lastPoll <= poll.start /\ \A p \in Prs \cap github.open : Fits(p)
  BY <1>1 DEF Behindhand, InTick
<1>4. poll.pass = "requests" => poll'.todo \subseteq Prs \cap github.open
  BY <1>1 DEF Found, Base, Shapes, Hub
<1> QED
  BY <1>1, <1>2, <1>3, <1>4, LooklessBehindhand

LEMMA ReadBehindhand ==
    ASSUME Base, Behindhand, ReadDiffComments \/ \E p \in Prs : ReadPr(p) \/ ReadFails(p)
    PROVE  Behindhand'
<1>t. poll.todo \subseteq Prs /\ JobPrs \subseteq Prs
  BY HeadNat DEF JobPrs, Base, Shapes, Polls
<1>1. CASE ReadDiffComments
  <2>1. /\ Lookless /\ history'.forgotten = history.forgotten
        /\ poll.stage = "read diff" /\ poll'.pass = poll.pass
        /\ poll'.start = poll.start /\ poll'.prunes = poll.prunes
    BY <1>1, ReadDiffDoes
  <2>2. /\ poll.pass # "requests" /\ state.lastPoll <= poll.start
        /\ poll.prunes \cap github.open = {}
    BY <2>1 DEF Behindhand, InTick
  <2> QED
    BY <2>1, <2>2, LooklessBehindhand
<1>2. ASSUME NEW p \in Prs, ReadPr(p) PROVE Behindhand'
  <2>1. /\ Lookless /\ history'.forgotten = history.forgotten
        /\ poll.stage = "read" /\ p \in poll.todo /\ poll'.todo = poll.todo \ {p}
        /\ poll'.pass = poll.pass /\ poll'.start = poll.start
    BY <1>2, ReadPrDoes
  <2>2. /\ state.lastPoll <= poll.start /\ poll.prunes \cap github.open = {}
        /\ poll.pass = "requests" => \A q \in poll.todo \cup JobPrs : Fits(q)
    BY <2>1 DEF Behindhand, InTick
  <2>3. CASE poll.pass = "requests"
    <3>1. poll'.stage = "read" /\ poll'.prunes = poll.prunes
      BY <1>2, <2>3, ReadPrDoes
    <3>2. JobPrs' \subseteq JobPrs \cup {p}
      <4>1. poll'.jobs = poll.jobs \/ \E job \in Jobs : job.pr = p /\ poll'.jobs = poll.jobs \cup {job}
        BY <1>2, <2>3, ReadPrDoes
      <4> QED
        BY <4>1 DEF JobPrs
    <3> QED
      BY <1>t, <2>1, <2>2, <2>3, <3>1, <3>2, LooklessBehindhand
  <2>4. CASE poll.pass # "requests"
    <3>1. poll'.prunes = poll.prunes \/ (p \notin github.open /\ poll'.prunes = poll.prunes \cup {p})
      BY <1>2, <2>4, ReadPrDoes
    <3> QED
      BY <2>1, <2>2, <2>4, <3>1, LooklessBehindhand
  <2> QED
    BY <2>3, <2>4
<1>3. ASSUME NEW p \in Prs, ReadFails(p) PROVE Behindhand'
  <2>1. /\ Lookless /\ history'.forgotten = history.forgotten
        /\ poll.stage \in {"read", "read diff"} /\ poll'.stage = "read"
        /\ poll'.todo = poll.todo \ {p}
        /\ poll'.jobs = poll.jobs /\ poll'.prunes = poll.prunes
        /\ poll'.pass = poll.pass /\ poll'.start = poll.start
    BY <1>3, ReadFailsDoes
  <2>2. /\ state.lastPoll <= poll.start /\ poll.prunes \cap github.open = {}
        /\ poll.pass = "requests" => \A q \in poll.todo \cup JobPrs : Fits(q)
    BY <2>1 DEF Behindhand, InTick
  <2>3. JobPrs' = JobPrs
    BY <2>1 DEF JobPrs
  <2> QED
    BY <1>t, <2>1, <2>2, <2>3, LooklessBehindhand
<1> QED
  BY <1>1, <1>2, <1>3

LEMMA EndReadBehindhand == ASSUME Base, Lossless, Behindhand, EndRead PROVE Behindhand'
<1>1. /\ github' = github /\ poll.stage = "read" /\ poll'.stage = "dispatch"
      /\ poll'.prunes = {} /\ poll'.jobs = poll.jobs
      /\ poll'.pass = poll.pass /\ poll'.start = poll.start
      /\ state' \in PollState /\ state'.lastPoll = state.lastPoll
      /\ \A p \in Prs : state'.reviewed[p] =
                           IF p \in poll.prunes THEN Unseen ELSE state.reviewed[p]
      /\ disk' = state' \/ disk' = disk
      /\ history'.forgotten = history.forgotten
  BY EndReadDoes
<1>2. /\ disk.lastPoll <= state.lastPoll /\ state.lastPoll <= poll.start
      /\ poll.prunes \cap github.open = {}
      /\ \A p \in Prs : Fits(p) \/ (p \notin github.open /\ state.reviewed[p] = Unseen)
      /\ poll.pass = "requests" => \A p \in JobPrs : Fits(p)
  BY <1>1 DEF Behindhand, InTick
<1>3. disk'.lastPoll <= state'.lastPoll
  BY <1>1, <1>2, LastPolls, Orders
<1>4. \A p \in Prs : Fits(p)' \/ (p \notin github.open /\ state'.reviewed[p] = Unseen)
  <2> SUFFICES ASSUME NEW p \in Prs
               PROVE  Fits(p)' \/ (p \notin github.open /\ state'.reviewed[p] = Unseen)
    OBVIOUS
  <2>1. CASE disk' = state'
    BY <1>1, <2>1, EqualFits
  <2>2. CASE disk' = disk /\ p \in poll.prunes
    BY <1>1, <1>2, <2>2
  <2>3. CASE disk' = disk /\ p \notin poll.prunes
    BY <1>1, <1>2, <2>3, SameFits
  <2> QED
    BY <1>1, <2>1, <2>2, <2>3
<1>5. poll.pass = "requests" => \A p \in JobPrs' : Fits(p)'
  <2> SUFFICES ASSUME poll.pass = "requests", NEW p \in JobPrs PROVE Fits(p)'
    BY <1>1 DEF JobPrs
  <2>1. p \in Prs /\ Fits(p)
    BY <1>2, HeadNat DEF JobPrs
  <2>2. state'.reviewed[p] = state.reviewed[p]
    BY <1>1, <2>1 DEF Lossless, JobItems
  <2> QED
    BY <1>1, <2>1, <2>2, EqualFits, SameFits
<1> QED
  BY <1>1, <1>2, <1>3, <1>4, <1>5 DEF Behindhand, InTick

LEMMA DispatchBehindhand ==
    ASSUME Base, Lossless, Headed, Behindhand, NEW job \in poll.jobs, Dispatch(job)
    PROVE  Behindhand'
<1>1. /\ github' = github /\ poll.stage = "dispatch" /\ poll'.stage = "turn"
      /\ poll'.jobs = poll.jobs \ {job} /\ poll'.prunes = poll.prunes
      /\ poll'.pass = poll.pass /\ poll'.start = poll.start
      /\ state' \in PollState /\ state'.lastPoll = state.lastPoll
      /\ \/ UNCHANGED <<state, disk>> /\ history'.forgotten = history.forgotten
         \/ /\ \A p \in Prs : state'.reviewed[p] =
                                 IF p = job.pr THEN job.head ELSE state.reviewed[p]
            /\ disk' = state' \/ disk' = disk
            /\ history'.forgotten = history.forgotten \ {job.pr}
  BY DispatchDoes
<1>2. /\ disk.lastPoll <= state.lastPoll /\ state.lastPoll <= poll.start
      /\ poll.prunes \cap github.open = {}
      /\ \A p \in Prs : Fits(p) \/ (p \notin github.open /\ state.reviewed[p] = Unseen)
      /\ poll.pass = "requests" => \A p \in JobPrs : Fits(p)
  BY <1>1 DEF Behindhand, InTick
<1>3. disk'.lastPoll <= state'.lastPoll
  BY <1>1, <1>2, LastPolls, Orders
<1>4. ASSUME NEW p \in Prs, Fits(p) PROVE Fits(p)'
  <2>1. CASE UNCHANGED <<state, disk>> /\ history'.forgotten = history.forgotten
    BY <1>4, <2>1, SameFits
  <2>2. CASE disk' = state'
    BY <1>1, <2>2, EqualFits
  <2>3. CASE /\ disk' = disk /\ p # job.pr /\ state'.reviewed[p] = state.reviewed[p]
             /\ history'.forgotten = history.forgotten \ {job.pr}
    BY <1>1, <1>4, <2>3, SameFits
  <2>4. CASE disk' = disk /\ p = job.pr /\ state'.reviewed[p] = job.head
    <3>1. disk.reviewed[p] <= job.head
      BY <2>4 DEF Headed, Between
    <3> QED
      BY <2>4, <3>1 DEF Fits
  <2> QED
    BY <1>1, <2>1, <2>2, <2>3, <2>4
<1>5. \A p \in Prs : Fits(p)' \/ (p \notin github.open /\ state'.reviewed[p] = Unseen)
  <2> SUFFICES ASSUME NEW p \in Prs, ~Fits(p)
               PROVE  Fits(p)' \/ (p \notin github.open /\ state'.reviewed[p] = Unseen)
    BY <1>4
  <2>1. p \notin github.open /\ state.reviewed[p] = Unseen
    BY <1>2
  <2>2. CASE UNCHANGED <<state, disk>> /\ history'.forgotten = history.forgotten
    BY <2>1, <2>2
  <2>3. CASE ~Reviews
    BY <2>1, <2>3, DispatchDoes
  <2>4. CASE Reviews
    <3>1. p # job.pr
      <4>1. CASE poll.pass = "requests"
        BY <1>2, <4>1 DEF JobPrs
      <4>2. CASE poll.pass = "tracked"
        BY <2>1, <4>2 DEF Lossless, JobItems, JobPrs, Tracked
      <4> QED
        BY <2>4, <4>1, <4>2 DEF Reviews
    <3> QED
      BY <1>1, <2>1, <3>1
  <2> QED
    BY <2>3, <2>4
<1>6. poll.pass = "requests" => \A p \in JobPrs' : Fits(p)'
  <2>1. JobPrs' \subseteq JobPrs /\ JobPrs \subseteq Prs
    BY <1>1, HeadNat DEF JobPrs
  <2> QED
    BY <1>2, <1>4, <2>1
<1> QED
  BY <1>1, <1>2, <1>3, <1>5, <1>6 DEF Behindhand, InTick

LEMMA RestBehindhand ==
    ASSUME Base, Lossless, Behindhand,
           TurnReturns \/ EndTick \/ Boot \/ \E job \in poll.jobs : PrepFails(job)
    PROVE  Behindhand'
<1>1. CASE TurnReturns
  <2>1. /\ github'.open = github.open /\ poll.stage = "turn" /\ poll'.stage = "dispatch"
        /\ poll'.jobs = poll.jobs /\ poll'.prunes = poll.prunes
        /\ poll'.pass = poll.pass /\ poll'.start = poll.start
        /\ state' \in PollState /\ state'.lastPoll = state.lastPoll
        /\ state'.reviewed = state.reviewed
        /\ disk' = state' \/ disk' = disk
        /\ history'.forgotten = history.forgotten
    BY <1>1, TurnReturnsDoes
  <2>2. /\ disk.lastPoll <= state.lastPoll /\ state.lastPoll <= poll.start
        /\ poll.prunes \cap github.open = {}
        /\ \A p \in Prs : Fits(p) \/ (p \notin github.open /\ state.reviewed[p] = Unseen)
        /\ poll.pass = "requests" => \A p \in JobPrs : Fits(p)
    BY <2>1 DEF Behindhand, InTick
  <2>3. disk'.lastPoll <= state'.lastPoll
    BY <2>1, <2>2, LastPolls, Orders
  <2>4. \A p \in Prs : Fits(p) => Fits(p)'
    BY <2>1, EqualFits, SameFits
  <2>5. JobPrs' = JobPrs /\ JobPrs \subseteq Prs
    BY <2>1, HeadNat DEF JobPrs
  <2> QED
    BY <2>1, <2>2, <2>3, <2>4, <2>5 DEF Behindhand, InTick
<1>2. CASE EndTick
  <2>1. /\ github' = github /\ poll.stage = "dispatch" /\ poll'.stage = "idle"
        /\ poll'.prunes = {} /\ poll'.pass = "own"
        /\ state' \in PollState /\ state'.lastPoll = poll.start
        /\ state'.reviewed = state.reviewed
        /\ disk' = state' \/ disk' = disk
        /\ history'.forgotten = history.forgotten
    BY <1>2, EndTickDoes
  <2>2. /\ disk.lastPoll <= state.lastPoll /\ state.lastPoll <= poll.start
        /\ \A p \in Prs : Fits(p) \/ (p \notin github.open /\ state.reviewed[p] = Unseen)
    BY <2>1 DEF Behindhand, InTick
  <2>3. disk'.lastPoll <= state'.lastPoll
    BY <2>1, <2>2, LastPolls, Orders
  <2>4. \A p \in Prs : Fits(p) => Fits(p)'
    BY <2>1, EqualFits, SameFits
  <2> QED
    BY <2>1, <2>2, <2>3, <2>4 DEF Behindhand, InTick
<1>3. CASE Boot
  <2>1. /\ github' = github /\ poll'.stage = "idle" /\ poll'.prunes = {} /\ poll'.pass = "own"
        /\ Reloaded \/ Restarted
    BY <1>3, BootDoes
  <2>2. disk \in PollState
    BY DEF Base, Shapes
  <2>3. CASE Reloaded
    <3>3. state' \in PollState /\ state'.lastPoll = disk.lastPoll
      BY <2>2, <2>3, RolledBackDoes DEF Reloaded
    <3>4. disk'.lastPoll <= state'.lastPoll
      BY <2>3, <3>3, LastPolls, Orders DEF Reloaded
    <3>5. ASSUME NEW p \in Prs PROVE Fits(p)'
      <4>1. CASE disk' = state'
        BY <3>3, <4>1, EqualFits
      <4>2. CASE disk' = disk /\ \E f \in disk.inFlight : f.pr = p
        BY <4>2 DEF Fits
      <4>3. CASE disk' = disk /\ ~\E f \in disk.inFlight : f.pr = p
        <5>1. state'.reviewed[p] = disk.reviewed[p] /\ disk.reviewed[p] \in Nat
          BY <2>2, <2>3, <4>3, RolledBackDoes, HeadNat DEF Reloaded
        <5> QED
          BY <4>3, <5>1, Orders DEF Fits
      <4> QED
        BY <2>3, <4>1, <4>2, <4>3 DEF Reloaded
    <3> QED
      BY <2>1, <3>4, <3>5 DEF Behindhand, InTick
  <2>4. CASE Restarted
    <3>1. /\ state'.lastPoll = clock /\ \A p \in Prs : state'.reviewed[p] = 0
          /\ disk' = disk /\ history'.forgotten = {p \in Prs : disk.reviewed[p] # 0}
      BY <2>4, StartingNowTyped DEF Base, Restarted, Unseen
    <3>2. disk'.lastPoll <= state'.lastPoll
      BY <3>1 DEF Lossless, Cursors, Clear
    <3>3. ASSUME NEW p \in Prs PROVE Fits(p)'
      BY <3>1 DEF Fits
    <3> QED
      BY <2>1, <3>2, <3>3 DEF Behindhand, InTick
  <2> QED
    BY <2>1, <2>3, <2>4
<1>4. ASSUME NEW job \in poll.jobs, PrepFails(job) PROVE Behindhand'
  <2>1. /\ Lookless /\ history'.forgotten = history.forgotten
        /\ poll.stage = "dispatch" /\ poll'.stage = "dispatch"
        /\ poll'.jobs = poll.jobs \ {job} /\ poll'.prunes = poll.prunes
        /\ poll'.pass = poll.pass /\ poll'.start = poll.start /\ poll'.todo = poll.todo
    BY <1>4, PrepFailsDoes
  <2>2. /\ state.lastPoll <= poll.start /\ poll.prunes \cap github.open = {}
        /\ poll.pass = "requests" => \A p \in JobPrs : Fits(p)
    BY <2>1 DEF Behindhand, InTick
  <2>3. JobPrs' \subseteq JobPrs /\ JobPrs \subseteq Prs /\ poll.todo \subseteq Prs
    BY <2>1, HeadNat DEF JobPrs, Base, Shapes, Polls
  <2> QED
    BY <2>1, <2>2, <2>3, LooklessBehindhand
<1> QED
  BY <1>1, <1>2, <1>3, <1>4

LEMMA StepBehindhand == Base /\ Lossless /\ Headed /\ Behindhand /\ [Next]_vars => Behindhand'
<1> SUFFICES ASSUME Base, Lossless, Headed, Behindhand, [Next]_vars PROVE Behindhand'
  OBVIOUS
<1>1. CASE UNCHANGED vars
  BY <1>1 DEF vars, Behindhand, InTick, JobPrs, Fits
<1>2. CASE Kill
  <2>1. poll'.stage = "down"
    <3>1. "down" \in Stages /\ poll' = [Idle EXCEPT !.stage = "down"]
      BY <1>2 DEF Kill, Stages
    <3> QED
      BY <3>1, IdleTyped, StageTyped
  <2> QED
    BY <2>1 DEF Behindhand
<1> QED
  BY <1>1, <1>2, PeopleBehindhand, QuietBehindhand, SearchBehindhand, ReadBehindhand,
     EndReadBehindhand, DispatchBehindhand, RestBehindhand
  DEF Next, Progress, Failures

-----------------------------------------------------------------------------
(* Each job has a reason. *)

LEMMA NoReasons == ASSUME poll'.jobs = {} PROVE Reasons'
BY DEF Reasons

LEMMA FewerReasons ==
    ASSUME Base, JobItems, Reasons, NotesGrow, poll'.jobs \subseteq poll.jobs,
           poll'.pass = poll.pass, state'.lastPoll = state.lastPoll,
           \A job \in poll'.jobs : state'.reviewed[job.pr] = state.reviewed[job.pr]
    PROVE  Reasons'
<1> SUFFICES ASSUME NEW job \in poll'.jobs PROVE Reason(job)'
  BY DEF Reasons
<1>1. Reason(job)
  BY DEF Reasons
<1>2. CASE \E i \in job.items : items[i].published > state.lastPoll
  <2>1. PICK i \in job.items : items[i].published > state.lastPoll
    BY <1>2
  <2>2. items'[i].published = items[i].published
    BY DEF JobItems, NotesGrow
  <2> QED
    BY <2>1, <2>2 DEF Reason
<1>3. CASE Reviews /\ job.head # state.reviewed[job.pr]
  BY <1>3 DEF Reason, Reviews
<1> QED
  BY <1>1, <1>2, <1>3 DEF Reason

(* A diff comment counts from its own stamp at the earliest. *)
LEMMA FreshIsNew ==
    ASSUME Base, Dated, NEW pass, NEW p, NEW seen, NEW i \in Fresh(pass, p, seen)
    PROVE  items[i].published > state.lastPoll
<1>1. /\ i \in Items /\ items[i].published # Unseen
      /\ items[i].kind = "inline" \/ i \in seen
      /\ EffectiveTime(i, seen) > state.lastPoll
  BY DEF Fresh, Listed, Visible
<1>2. items[i].published \in Nat /\ state.lastPoll \in Nat
  BY <1>1, Dates
<1>3. items[i].drafted \in Nat
  <2>1. items[i].drafted \in 0 .. MaxClock
    BY <1>1 DEF Base, Shapes, Notes
  <2> QED
    BY <2>1, Bounds
<1>4. CASE items[i].kind = "inline" /\ i \notin seen
  <2>1. items[i].drafted > state.lastPoll
    BY <1>1, <1>4 DEF EffectiveTime
  <2>2. items[i].drafted <= items[i].published
    BY <1>1, <1>4 DEF Dated
  <2> QED
    BY <1>2, <1>3, <2>1, <2>2
<1>5. CASE ~(items[i].kind = "inline" /\ i \notin seen)
  BY <1>1, <1>5 DEF EffectiveTime
<1> QED
  BY <1>4, <1>5

LEMMA ReadDiffReasons ==
    ASSUME Base, Lossless, Dated, Behindhand, Reasons, ReadDiffComments PROVE Reasons'
<1> DEFINE fresh == Fresh(poll.pass, poll.look.pr, poll.look.items)
           decided == Decided(poll.pass, poll.look, fresh)
<1>1. /\ Lookless /\ poll.stage = "read diff" /\ poll'.jobs = poll.jobs \cup decided
      /\ \A job \in decided : /\ job.pr = poll.look.pr /\ job.head = poll.look.head
                              /\ job.items = fresh
      /\ poll'.pass = poll.pass
  BY ReadDiffDoes
<1>2. poll.pass # "requests" /\ poll.pass \in Passes
  BY <1>1 DEF Behindhand, Base, Shapes, Polls
<1>3. decided # {} =>
        \/ fresh # {}
        \/ poll.pass = "tracked" /\ poll.look.head # state.reviewed[poll.look.pr]
  <2>1. CASE poll.pass = "tracked"
    BY <2>1 DEF Decided
  <2>2. CASE poll.pass \in {"own", "contributed"}
    BY <2>2 DEF Decided
  <2> QED
    BY <1>2, <2>1, <2>2 DEF Passes
<1>4. \A i \in fresh : items[i].published > state.lastPoll
  BY FreshIsNew
<1> HIDE DEF decided, fresh
<1>5. \A job \in decided : Reason(job)
  BY <1>1, <1>3, <1>4 DEF Reason, Reviews
<1>6. \A job : Reason(job)' <=> Reason(job)
  BY <1>1 DEF Lookless, Reason, Reviews
<1> QED
  BY <1>1, <1>5, <1>6 DEF Reasons

LEMMA ReadPrReasons ==
    ASSUME Base, Reasons, NEW p \in Prs, ReadPr(p) PROVE Reasons'
<1>1. Lookless /\ poll'.pass = poll.pass
  BY ReadPrDoes
<1>2. \A job : Reason(job)' <=> Reason(job)
  BY <1>1 DEF Lookless, Reason, Reviews
<1>3. CASE poll'.jobs = poll.jobs
  BY <1>2, <1>3 DEF Reasons
<1>4. ASSUME poll.pass = "requests", p \notin Tracked,
             NEW job \in Jobs, job.pr = p, job.head = github.head[p],
             poll'.jobs = poll.jobs \cup {job}
      PROVE  Reasons'
  <2>1. job.head # 0 /\ state.reviewed[p] = 0
    BY <1>4, HeadNat DEF Tracked, Unseen
  <2>2. Reason(job)
    BY <1>4, <2>1 DEF Reason, Reviews
  <2> QED
    BY <1>2, <1>4, <2>2 DEF Reasons
<1> QED
  BY <1>3, <1>4, ReadPrDoes

LEMMA StepReasons ==
    Base /\ Lossless /\ Dated /\ Behindhand /\ Reasons /\ [Next]_vars => Reasons'
<1> SUFFICES ASSUME Base, Lossless, Dated, Behindhand, Reasons, [Next]_vars PROVE Reasons'
  OBVIOUS
<1>1. Shapes /\ Steps /\ JobItems
  BY DEF Base, Lossless
<1>2. CASE UNCHANGED vars
  BY <1>2 DEF vars, Reasons, Reason, Reviews
<1>3. CASE People
  BY <1>1, <1>3, PeopleDo, FewerReasons
<1>4. CASE Boot \/ StartTick \/ Search \/ EndPass \/ EndTick \/ SearchFails \/ Kill
  BY <1>1, <1>4, BootDoes, StartTickDoes, SearchDoes, EndPassDoes, EndTickDoes, BreakDoes,
     NoReasons DEF Steps
<1>5. CASE EndRead
  <2>1. /\ UNCHANGED items /\ poll.stage = "read" /\ poll'.jobs = poll.jobs
        /\ poll'.pass = poll.pass /\ state'.lastPoll = state.lastPoll
        /\ \A p \in Prs : state'.reviewed[p] =
                             IF p \in poll.prunes THEN Unseen ELSE state.reviewed[p]
    BY <1>5, EndReadDoes
  <2>2. \A job \in poll.jobs : job.pr \in Prs /\ job.pr \notin poll.prunes
    BY <1>1, <2>1, HeadNat DEF Steps, JobPrs
  <2> QED
    BY <1>1, <2>1, <2>2, NotesStay, FewerReasons
<1>6. ASSUME NEW job \in poll.jobs, Dispatch(job) PROVE Reasons'
  <2>1. /\ UNCHANGED items /\ poll'.jobs = poll.jobs \ {job} /\ poll'.pass = poll.pass
        /\ state'.lastPoll = state.lastPoll
    BY <1>6, DispatchDoes
  <2>2. \A p \in Prs \ {job.pr} : state'.reviewed[p] = state.reviewed[p]
    BY <1>6, DispatchDoes
  <2>3. \A j \in poll'.jobs : j.pr \in Prs \ {job.pr}
    BY <1>1, <2>1, HeadNat DEF Steps
  <2> QED
    BY <1>1, <2>1, <2>2, <2>3, NotesStay, FewerReasons
<1>7. CASE TurnReturns
  BY <1>1, <1>7, TurnReturnsDoes, NotesStay, FewerReasons
<1>8. ASSUME NEW p \in Prs, ReadFails(p) PROVE Reasons'
  BY <1>1, <1>8, ReadFailsDoes, NotesStay, FewerReasons DEF Lookless
<1>9. ASSUME NEW job \in poll.jobs, PrepFails(job) PROVE Reasons'
  BY <1>1, <1>9, PrepFailsDoes, NotesStay, FewerReasons DEF Lookless
<1> QED
  BY <1>2, <1>3, <1>4, <1>5, <1>6, <1>7, <1>8, <1>9, ReadDiffReasons, ReadPrReasons
  DEF Next, Progress, Failures

-----------------------------------------------------------------------------

LEMMA InitFresh == Init => Dated /\ Headed /\ Behindhand /\ Reasons
<1> SUFFICES ASSUME Init PROVE Dated /\ Headed /\ Behindhand /\ Reasons
  OBVIOUS
<1>1. /\ \A p \in Prs : state.reviewed[p] = 0 /\ github.head[p] = 1
      /\ state.inFlight = {} /\ state.lastPoll = 1 /\ disk = state /\ clock = 1
      /\ \A i \in Items : items[i].drafted = 0 /\ items[i].published = 0
  BY DEF Init, StartingNow, Unseen
<1>2. /\ poll.stage = "idle" /\ poll.jobs = {} /\ poll.prunes = {} /\ poll.pass = "own"
  BY IdleTyped DEF Init
<1>3. Dated
  BY <1>1 DEF Dated, Unseen
<1>4. Headed
  BY <1>1, <1>2 DEF Headed, Below
<1>5. Behindhand
  BY <1>1, <1>2 DEF Behindhand, InTick, Fits
<1>6. Reasons
  BY <1>2 DEF Reasons
<1> QED
  BY <1>3, <1>4, <1>5, <1>6

(* A turn that begins brings something that the document does not hold as   *)
(* done.                                                                    *)
LEMMA NothingTwice ==
    ASSUME Base, Lossless, Headed, Behindhand, Reasons, NEW job \in poll.jobs, Dispatch(job)
    PROVE  \/ \E i \in job.items : items[i].published > disk.lastPoll
           \/ job.pr \in history.forgotten
           \/ /\ poll.pass \in {"requests", "tracked"}
              /\ \/ disk.reviewed[job.pr] # job.head
                 \/ \E f \in disk.inFlight : f.pr = job.pr
<1>1. Reason(job) /\ poll.stage = "dispatch" /\ job.pr \in Prs
  BY DispatchDoes, HeadNat DEF Reasons
<1>2. CASE \E i \in job.items : items[i].published > state.lastPoll
  <2>1. PICK i \in job.items : items[i].published > state.lastPoll
    BY <1>2
  <2>2. items[i].published \in Nat
    BY Dates DEF Lossless, JobItems
  <2>3. disk.lastPoll <= state.lastPoll
    BY <1>1 DEF Behindhand
  <2>4. items[i].published > disk.lastPoll
    BY <2>1, <2>2, <2>3, LastPolls
  <2> QED
    BY <2>4
<1>3. CASE Reviews /\ job.head # state.reviewed[job.pr]
  <2>1. Fits(job.pr)
    <3>1. CASE poll.pass = "requests"
      BY <1>1, <3>1 DEF Behindhand, JobPrs
    <3>2. CASE poll.pass = "tracked"
      BY <1>1, <3>2 DEF Behindhand, Lossless, JobItems, JobPrs, Tracked
    <3> QED
      BY <1>3, <3>1, <3>2 DEF Reviews
  <2>2. state.reviewed[job.pr] <= job.head
    BY DEF Headed, Between
  <2>3. disk.reviewed[job.pr] <= state.reviewed[job.pr] => disk.reviewed[job.pr] # job.head
    <3>1. /\ disk.reviewed[job.pr] \in Nat /\ state.reviewed[job.pr] \in Nat
          /\ job.head \in Nat
      BY <1>1, HeadNat
    <3> QED
      BY <1>3, <2>2, <3>1
  <2> QED
    BY <1>3, <2>1, <2>3 DEF Fits, Reviews
<1> QED
  BY <1>1, <1>2, <1>3 DEF Reason

(* No turn repeats what the document says is done: it brings an item newer  *)
(* than the document's cursor, or a head that the document does not hold as *)
(* reviewed; or the document could not be read and held that PR as tracked. *)
THEOREM NotAgainAlways == Spec => NotAgain
<1> DEFINE IInv == Base /\ Lossless /\ Dated /\ Headed /\ Behindhand /\ Reasons
<1>1. Init => IInv
  BY InitBase, InitLossless, InitFresh
<1>2. IInv /\ [Next]_vars => IInv'
  BY StepBase, StepLossless, StepDated, StepHeaded, StepBehindhand, StepReasons
<1>3. IInv /\ [Next]_vars =>
        [\A job \in poll.jobs :
           Dispatch(job) =>
             \/ \E i \in job.items : items[i].published > disk.lastPoll
             \/ job.pr \in history.forgotten
             \/ /\ poll.pass \in {"requests", "tracked"}
                /\ \/ disk.reviewed[job.pr] # job.head
                   \/ \E f \in disk.inFlight : f.pr = job.pr]_vars
  BY NothingTwice
<1> HIDE DEF IInv
<1> QED
  BY <1>1, <1>2, <1>3, PTL DEF Spec, NotAgain
=============================================================================
