-------------------------- MODULE EventPollerProofs --------------------------
(***************************************************************************)
(* Proofs about the ticket pollers (EventPoller), for any number of        *)
(* tickets, comments, changes, failures and kills.                         *)
(***************************************************************************)
EXTENDS EventPoller, FiniteSetTheorems, TLAPS

Stages == {"down", "idle", "search", "read", "dispatch", "turn", "post"}

Cards == [authored : BOOLEAN, assigned : BOOLEAN, open : BOOLEAN,
          planned : BOOLEAN, updated : 1 .. MaxClock]
Board == [Tickets -> Cards]
Notes == [Comments -> [ticket : Tickets, at : 0 .. MaxClock]]
Polls == [stage : Stages, search : 1 .. 4, start : 0 .. MaxClock,
          todo : SUBSET Views, views : SUBSET Views, jobs : SUBSET Jobs,
          next : SUBSET PollState, turn : SUBSET Jobs, attempts : 0 .. PostRetries]
Histories == [handled : SUBSET Comments, inScope : SUBSET Tickets,
              excused : SUBSET Comments, gaps : SUBSET (1 .. MaxClock),
              done : [work : SUBSET Tickets, said : SUBSET Comments],
              saved : [work : SUBSET Tickets, said : SUBSET Comments],
              events : 0 .. MaxEvents, faults : 0 .. MaxFaults]

Shapes ==
    /\ source \in {"issues", "linear"} /\ clock \in 1 .. MaxClock
    /\ tickets \in Board /\ comments \in Notes
    /\ state \in PollState /\ (disk = {} \/ \E s \in PollState : disk = {s})
    /\ poll \in Polls /\ history \in Histories

(* What a tick works on, stage by stage: a ticket has one view, seen in    *)
(* this tick, and a turn that may find a plan is on announced work.        *)
Steps ==
    /\ poll.stage = "search" => poll.todo = {}
    /\ poll.stage \notin {"down", "idle"} => poll.start # Unseen
    /\ poll.stage \notin {"search", "read"} => poll.views = {} /\ poll.todo = {}
    /\ poll.stage \notin {"dispatch", "turn", "post"} => poll.jobs = {} /\ poll.next = {}
    /\ \A v \in poll.todo \cup poll.views : v.ticket \in history.inScope
    /\ poll.todo \cap poll.views = {}
    /\ \A a, b \in poll.todo \cup poll.views : a.ticket = b.ticket => a = b
    /\ poll.stage \in {"turn", "post"} <=> poll.turn # {}
    /\ \A job \in poll.jobs \cup poll.turn :
          job.kind = "plan" => \A s \in poll.next : job.ticket \in s.announced

(* decide_events promises this of the state it returns. *)
Sorted(s) == s.plans \subseteq s.announced /\ s.announced \cap s.embedded = {}
States == \A s \in disk \cup poll.next \cup {state} : Sorted(s)

(* Times that were read from the clock are no later than it is. *)
Dated ==
    /\ poll.start <= clock
    /\ \A k \in Tickets : tickets[k].updated <= clock
    /\ \A c \in Comments : comments[c].at <= tickets[comments[c].ticket].updated
    /\ state.lastPoll <= clock
    /\ \A s \in disk : s.lastPoll <= state.lastPoll
    /\ \A s \in poll.next : /\ poll.start <= s.lastPoll /\ s.lastPoll <= clock
                            /\ state.lastPoll <= s.lastPoll

Base == Shapes /\ Steps /\ Dated

-----------------------------------------------------------------------------
(* Helpers *)

LEMMA Bounds ==
    /\ MaxClock \in Nat \ {0} /\ MaxEvents \in Nat /\ MaxFaults \in Nat
    /\ PostRetries \in Nat /\ Comments \subseteq Nat
BY EventPollerAssumption

LEMMA IdleTyped ==
    /\ Idle \in Polls
    /\ Idle.stage = "idle" /\ Idle.jobs = {} /\ Idle.turn = {} /\ Idle.next = {}
    /\ Idle.todo = {} /\ Idle.views = {} /\ Idle.start = Unseen /\ Idle.search = 1
<1>1. "idle" \in Stages /\ 0 \in 0 .. MaxClock /\ 0 \in 0 .. PostRetries /\ 1 \in 1 .. 4
  BY Bounds DEF Stages
<1> QED
  BY <1>1 DEF Idle, Polls, Unseen

LEMMA StartingTyped ==
    ASSUME NEW now \in 1 .. MaxClock
    PROVE  /\ StartingNow(now) \in PollState /\ StartingNow(now).lastPoll = now
           /\ StartingNow(now).announced = {} /\ Sorted(StartingNow(now))
BY DEF StartingNow, PollState, Sorted

LEMMA ModeTyped ==
    ASSUME NEW n \in 1 .. 4 PROVE ModeOf(n) \in Modes
<1>1. n = 1 \/ n = 2 \/ n = 3 \/ n = 4
  OBVIOUS
<1> QED
  BY <1>1 DEF ModeOf, Modes

LEMMA ViewTyped ==
    ASSUME tickets \in Board, NEW k \in Tickets, NEW mode \in Modes, NEW cs \in SUBSET Comments
    PROVE  /\ View(k, mode, cs) \in Views
           /\ View(k, mode, cs).ticket = k /\ View(k, mode, cs).mode = mode
           /\ View(k, mode, cs).comments = cs
<1>1. tickets[k].planned \in BOOLEAN
  BY DEF Board, Cards
<1> QED
  BY <1>1 DEF View, Views

LEMMA VisibleTyped == ASSUME NEW k PROVE Visible(k) \in SUBSET Comments
BY DEF Visible

LEMMA RoleTyped == ASSUME NEW n \in 1 .. 4 PROVE Role(n) \in SUBSET Tickets
<1>1. n = 1 \/ n = 2 \/ n = 3 \/ n = 4
  OBVIOUS
<1> QED
  BY <1>1 DEF Role

LEMMA FaultCounted ==
    ASSUME history \in Histories, Fault
    PROVE  history.faults + 1 \in 0 .. MaxFaults
BY Bounds DEF Fault, Histories

(* Records keep their type and their other fields when one changes. *)
LEMMA BookTyped ==
    ASSUME NEW h \in Histories
    PROVE  /\ \A n \in 0 .. MaxFaults :
                LET g == [h EXCEPT !.faults = n]
                IN  /\ g \in Histories /\ g.handled = h.handled /\ g.excused = h.excused
                    /\ g.gaps = h.gaps /\ g.inScope = h.inScope
                    /\ g.done = h.done /\ g.saved = h.saved
           /\ \A ks \in SUBSET Tickets :
                LET g == [h EXCEPT !.inScope = ks]
                IN  /\ g \in Histories /\ g.handled = h.handled /\ g.excused = h.excused
                    /\ g.gaps = h.gaps /\ g.inScope = ks /\ g.faults = h.faults
                    /\ g.done = h.done /\ g.saved = h.saved
BY DEF Histories

(* A save writes the document or counts a failure. *)
LEMMA Saved ==
    ASSUME history \in Histories, NEW s, NEW h \in Histories, h.faults = history.faults, Save(s, h)
    PROVE  /\ \/ disk' = {s} /\ history'.saved = h.done
              \/ disk' = disk /\ history'.saved = h.saved
           /\ history' \in Histories /\ history'.done = h.done
           /\ history'.handled = h.handled /\ history'.excused = h.excused
           /\ history'.gaps = h.gaps /\ history'.inScope = h.inScope
<1>1. CASE disk' = {s} /\ history' = [h EXCEPT !.saved = h.done]
  BY <1>1 DEF Histories
<1>2. CASE Fault /\ disk' = disk /\ history' = [h EXCEPT !.faults = @ + 1]
  <2>1. history' = [h EXCEPT !.faults = h.faults + 1]
    BY <1>2
  <2>2. h.faults + 1 \in 0 .. MaxFaults
    BY <1>2, FaultCounted
  <2> QED
    BY <1>2, <2>1, <2>2, BookTyped
<1> QED
  BY <1>1, <1>2 DEF Save

LEMMA NewTyped ==
    ASSUME NEW v \in Views PROVE NewComments(v) \subseteq v.comments /\ v.comments \subseteq Comments
BY DEF NewComments, Views

(* Every turn of a view is on its ticket, carries what was read there and  *)
(* has a reason: an announcement that is owed or a new comment.  No two    *)
(* share a comment, at most one announces, and every new comment is in one.*)
LEMMA TurnsOf ==
    ASSUME NEW v \in Views
    PROVE  /\ Turns(v) \in SUBSET Jobs
           /\ \A job \in Turns(v) :
                 /\ job.ticket = v.ticket /\ job.comments \subseteq v.comments
                 /\ job.kind = "plan" => v.mode = "work"
                 /\ Announces(job) => job.ticket \notin state.announced
                 /\ ~Announces(job) => \E c \in job.comments : c \in NewComments(v)
           /\ \A a, b \in Turns(v) :
                 a # b => a.comments \cap b.comments = {} /\ ~Announces(a)
           /\ \A c \in NewComments(v) : \E job \in Turns(v) : c \in job.comments
<1>1. NewComments(v) \subseteq v.comments /\ v.comments \in SUBSET Comments
  BY NewTyped
<1>2. CASE v.mode = "work" /\ v.ticket \notin state.announced
  <2> DEFINE kind == IF v.planned THEN "plan" ELSE "execution"
             job == Job(v, v.comments, kind, TRUE)
  <2>1. Turns(v) = {job}
    BY <1>2 DEF Turns, Announcement
  <2>2. /\ job \in Jobs /\ job.ticket = v.ticket /\ job.mode = v.mode
        /\ job.comments = v.comments
    <3>1. kind \in {"plan", "execution", "discussion"}
      OBVIOUS
    <3> HIDE DEF kind
    <3> QED
      BY <1>1, <3>1 DEF Job, Jobs, Views
  <2>4. job.whole
    BY DEF Job
  <2> HIDE DEF job
  <2>3. Announces(job)
    BY <1>2, <2>2, <2>4 DEF Announces
  <2> QED
    BY <1>1, <1>2, <2>1, <2>2, <2>3
<1>3. ASSUME NEW kind \in {"execution", "discussion"}, Turns(v) = FollowUps(v, kind)
      PROVE  /\ Turns(v) \in SUBSET Jobs
             /\ \A job \in Turns(v) :
                   /\ job.ticket = v.ticket /\ job.comments \subseteq v.comments
                   /\ job.kind = kind /\ ~Announces(job)
                   /\ \E c \in job.comments : c \in NewComments(v)
             /\ \A a, b \in Turns(v) : a # b => a.comments \cap b.comments = {}
             /\ \A c \in NewComments(v) : \E job \in Turns(v) : c \in job.comments
  <2>0. /\ \A c \in NewComments(v) : {c} \in SUBSET Comments
        /\ kind \in {"plan", "execution", "discussion"}
    BY <1>1
  <2>1. \A c \in NewComments(v) :
          /\ Job(v, {c}, kind, FALSE) \in Jobs
          /\ Job(v, {c}, kind, FALSE).ticket = v.ticket
          /\ Job(v, {c}, kind, FALSE).kind = kind
          /\ Job(v, {c}, kind, FALSE).comments = {c}
          /\ ~Job(v, {c}, kind, FALSE).whole
    BY <2>0 DEF Job, Jobs, Views
  <2>2. Turns(v) = {Job(v, {c}, kind, FALSE) : c \in NewComments(v)}
    BY <1>3 DEF FollowUps
  <2>3. /\ Turns(v) \in SUBSET Jobs
        /\ \A job \in Turns(v) :
              \E c \in NewComments(v) : /\ job = Job(v, {c}, kind, FALSE)
                                        /\ job.ticket = v.ticket /\ job.kind = kind
                                        /\ job.comments = {c} /\ ~job.whole
        /\ \A c \in NewComments(v) : \E job \in Turns(v) : c \in job.comments
    BY <2>1, <2>2
  <2>4. \A job \in Turns(v) : ~Announces(job)
    BY <2>3 DEF Announces
  <2>5. \A a, b \in Turns(v) : a # b => a.comments \cap b.comments = {}
    BY <2>3
  <2>6. \A job \in Turns(v) : /\ job.ticket = v.ticket /\ job.comments \subseteq v.comments
                              /\ job.kind = kind /\ \E c \in job.comments : c \in NewComments(v)
    BY <1>1, <2>3
  <2> QED
    BY <2>3, <2>4, <2>5, <2>6
<1>4. CASE v.mode = "work" /\ v.ticket \in state.announced
  <2>1. Turns(v) = FollowUps(v, "execution")
    BY <1>4 DEF Turns
  <2> QED
    BY <1>3, <2>1
<1>5. CASE v.mode # "work" /\ NewComments(v) = {}
  <2>1. Turns(v) = {}
    BY <1>5 DEF Turns
  <2> QED
    BY <1>5, <2>1
<1>6. CASE v.mode # "work" /\ NewComments(v) # {} /\ v.ticket \in state.embedded
  <2>1. Turns(v) = FollowUps(v, "discussion")
    BY <1>6 DEF Turns
  <2> QED
    BY <1>3, <2>1
<1>7. CASE v.mode # "work" /\ NewComments(v) # {} /\ v.ticket \notin state.embedded
  <2> DEFINE job == Job(v, v.comments, "discussion", TRUE)
  <2>1. Turns(v) = {job}
    BY <1>7 DEF Turns, Discussion
  <2>2. /\ job \in Jobs /\ job.ticket = v.ticket /\ job.kind = "discussion"
        /\ job.mode = v.mode /\ job.comments = v.comments
    <3>1. "discussion" \in {"plan", "execution", "discussion"}
      OBVIOUS
    <3> QED
      BY <1>1, <3>1 DEF Job, Jobs, Views
  <2> HIDE DEF job
  <2>3. ~Announces(job)
    BY <1>7, <2>2 DEF Announces
  <2> QED
    BY <1>1, <1>7, <2>1, <2>2, <2>3
<1> QED
  BY <1>2, <1>4, <1>5, <1>6, <1>7

LEMMA NextStateTyped ==
    ASSUME NEW views \in SUBSET Views, state \in PollState, clock \in 1 .. MaxClock
    PROVE  /\ NextState(views) \in PollState /\ NextState(views).lastPoll = clock
           /\ NextState(views).announced = WorkTickets(views)
           /\ NextState(views).plans \subseteq WorkTickets(views)
           /\ \A k \in NextState(views).embedded :
                 \E v \in views : v.ticket = k /\ v.mode # "work"
<1> DEFINE talked == {v.ticket : v \in {w \in views :
                        w.mode # "work" /\ (NewComments(w) # {}
                                            \/ w.ticket \in state.embedded)}}
<1>1. WorkTickets(views) \in SUBSET Tickets
  BY DEF WorkTickets, Views
<1>2. talked \in SUBSET Tickets /\ \A k \in talked : \E v \in views : v.ticket = k /\ v.mode # "work"
  BY DEF Views
<1>3. NextState(views) = [lastPoll |-> clock, announced |-> WorkTickets(views),
                          plans |-> state.plans \cap WorkTickets(views), embedded |-> talked]
  BY DEF NextState
<1> HIDE DEF talked
<1> QED
  BY <1>1, <1>2, <1>3 DEF PollState

-----------------------------------------------------------------------------
(* What each action does, field by field. *)

Still == UNCHANGED <<source, clock, tickets, comments>>

(* The tick's work survives: what it is about to read, has seen and will do. *)
SameHistory ==
    /\ history' \in Histories /\ history'.handled = history.handled
    /\ history'.excused = history.excused /\ history'.gaps = history.gaps

SameDone == history'.done = history.done /\ history'.saved = history.saved

LEMMA PeopleDo ==
    ASSUME Shapes, People
    PROVE  /\ UNCHANGED <<source, state, disk, poll>>
           /\ clock' \in 1 .. MaxClock /\ clock <= clock'
           /\ tickets' \in Board /\ comments' \in Notes
           /\ SameHistory /\ SameDone /\ history'.inScope = history.inScope
           /\ clock' # clock => UNCHANGED <<tickets, comments>>
           /\ \A k \in Tickets : tickets'[k].updated \in {tickets[k].updated, clock}
           /\ \A c \in Comments :
                 /\ comments'[c].ticket = comments[c].ticket
                 /\ \/ comments'[c].at = comments[c].at
                    \/ /\ comments[c].at = Unseen /\ comments'[c].at = clock
                       /\ tickets'[comments[c].ticket].updated = clock
<1>0. /\ clock \in 1 .. MaxClock /\ clock \in 0 .. MaxClock /\ tickets \in Board
      /\ comments \in Notes /\ history \in Histories
  BY Bounds DEF Shapes
<1>1. CASE SecondPasses
  <2>1. clock' \in 1 .. MaxClock /\ clock <= clock' /\ clock' # clock
    BY <1>0, <1>1, Bounds DEF SecondPasses
  <2> QED
    BY <1>0, <1>1, <2>1 DEF SecondPasses, PollerSame, SameHistory, SameDone
<1>2. CASE \E c \in Comments : WriteComment(c)
  <2>1. PICK c \in Comments : WriteComment(c)
    BY <1>2
  <2> DEFINE k == comments[c].ticket
  <2>2. k \in Tickets
    BY <1>0 DEF Notes
  <2>3. /\ comments[c].at = Unseen
        /\ comments' = [comments EXCEPT ![c].at = clock]
        /\ tickets' = [tickets EXCEPT ![k].updated = clock]
        /\ UNCHANGED <<clock, history, source, state, disk, poll>>
    BY <2>1 DEF WriteComment, PollerSame
  <2> HIDE DEF k
  <2>4. tickets' \in Board
        /\ \A j \in Tickets : tickets'[j].updated = IF j = k THEN clock ELSE tickets[j].updated
    BY <1>0, <2>2, <2>3 DEF Board, Cards
  <2>5. comments' \in Notes
        /\ \A d \in Comments : /\ comments'[d].ticket = comments[d].ticket
                               /\ comments'[d].at = IF d = c THEN clock ELSE comments[d].at
    BY <1>0, <2>3 DEF Notes
  <2> QED
    BY <1>0, <2>2, <2>3, <2>4, <2>5 DEF k, SameHistory, SameDone
<1>3. CASE \E k \in Tickets : Reassign(k) \/ Close(k)
  <2>1. PICK k \in Tickets : Reassign(k) \/ Close(k)
    BY <1>3
  <2>2. \E card \in Cards : card.updated = clock /\ tickets' = [tickets EXCEPT ![k] = card]
    <3>1. tickets[k] \in Cards
      BY <1>0 DEF Board
    <3>2. CASE Reassign(k)
      <4> DEFINE card == [tickets[k] EXCEPT !.assigned = ~tickets[k].assigned, !.updated = clock]
      <4>1. card \in Cards /\ card.updated = clock
        BY <1>0, <3>1 DEF Cards
      <4> QED
        BY <3>2, <4>1 DEF Reassign, Edit
    <3>3. CASE Close(k)
      <4> DEFINE card == [tickets[k] EXCEPT !.open = FALSE, !.updated = clock]
      <4>1. card \in Cards /\ card.updated = clock
        BY <1>0, <3>1 DEF Cards
      <4> QED
        BY <3>3, <4>1 DEF Close, Edit
    <3> QED
      BY <2>1, <3>2, <3>3
  <2>3. /\ history.events < MaxEvents
        /\ history' = [history EXCEPT !.events = history.events + 1]
        /\ UNCHANGED <<clock, comments, source, state, disk, poll>>
    BY <2>1 DEF Reassign, Close, Edit, PollerSame
  <2>4. tickets' \in Board
        /\ \A j \in Tickets : tickets'[j].updated \in {tickets[j].updated, clock}
    BY <1>0, <2>2 DEF Board
  <2>5. history.events + 1 \in 0 .. MaxEvents
    BY <1>0, <2>3, Bounds DEF Histories
  <2>6. SameHistory /\ SameDone /\ history'.inScope = history.inScope
    BY <1>0, <2>3, <2>5 DEF Histories, SameHistory, SameDone
  <2> QED
    BY <1>0, <2>3, <2>4, <2>6
<1> QED
  BY <1>1, <1>2, <1>3 DEF People

LEMMA BootDoes ==
    ASSUME Shapes, Boot
    PROVE  /\ Still /\ UNCHANGED disk /\ poll' = Idle /\ poll.stage = "down"
           /\ \/ /\ state' = StartingNow(clock)
                 /\ history' \in Histories /\ history'.gaps = 1 .. clock
                 /\ history'.handled = history.handled
                 /\ history'.excused = history.excused
                 /\ history'.inScope = history.inScope
                 /\ history'.saved = history.saved
                 /\ history'.done.said = history.done.said /\ history'.done.work = {}
              \/ disk = {state'} /\ UNCHANGED history
<1>1. Still /\ UNCHANGED disk /\ poll' = Idle /\ poll.stage = "down"
  BY DEF Boot, Still, TrackerSame
<1>2. PICK s \in disk \cup {StartingNow(clock)} :
          /\ state' = s
          /\ history' = IF s \in disk THEN history
                        ELSE [history EXCEPT !.gaps = 1 .. clock, !.done.work = {}]
  BY DEF Boot
<1>3. CASE s \in disk
  BY <1>1, <1>2, <1>3 DEF Shapes
<1>4. CASE s \notin disk
  <2>1. 1 .. clock \in SUBSET (1 .. MaxClock)
    BY Bounds DEF Shapes
  <2>2. history \in Histories
    BY DEF Shapes
  <2>3. history' = [history EXCEPT !.gaps = 1 .. clock,
                                   !.done = [history.done EXCEPT !.work = {}]]
    BY <1>2, <1>4, <2>2 DEF Histories
  <2>4. [history.done EXCEPT !.work = {}] \in [work : SUBSET Tickets, said : SUBSET Comments]
    BY <2>2 DEF Histories
  <2>5. [history.done EXCEPT !.work = {}].said = history.done.said
        /\ [history.done EXCEPT !.work = {}].work = {}
    BY <2>2 DEF Histories
  <2> DEFINE left == [history.done EXCEPT !.work = {}]
  <2> HIDE DEF left
  <2>6. /\ history' \in Histories /\ history'.gaps = 1 .. clock
        /\ history'.handled = history.handled /\ history'.excused = history.excused
        /\ history'.inScope = history.inScope /\ history'.saved = history.saved
        /\ history'.done = left
    BY <2>1, <2>2, <2>3, <2>4 DEF Histories, left
  <2>7. state' = StartingNow(clock)
    BY <1>2, <1>4
  <2> QED
    BY <1>1, <2>5, <2>6, <2>7 DEF left
<1> QED
  BY <1>3, <1>4

LEMMA StartTickDoes ==
    ASSUME Shapes, StartTick
    PROVE  /\ Still /\ UNCHANGED <<state, disk>> /\ SameHistory /\ SameDone
           /\ history'.inScope = {}
           /\ poll.stage = "idle" /\ poll' \in Polls
           /\ poll'.stage = "search" /\ poll'.search = 1 /\ poll'.start = clock
           /\ poll'.todo = {} /\ poll'.views = {} /\ poll'.jobs = {} /\ poll'.next = {}
           /\ poll'.turn = {}
<1>1. /\ poll' = [Idle EXCEPT !.stage = "search", !.start = clock]
      /\ history' = [history EXCEPT !.inScope = {}]
      /\ Still /\ UNCHANGED <<state, disk>> /\ poll.stage = "idle"
  BY DEF StartTick, Still, TrackerSame
<1>2. "search" \in Stages /\ clock \in 0 .. MaxClock /\ history \in Histories
  BY Bounds DEF Shapes, Stages
<1>3. SameHistory /\ SameDone /\ history'.inScope = {}
  BY <1>1, <1>2, BookTyped DEF SameHistory, SameDone
<1>4. /\ poll' \in Polls
      /\ poll'.stage = "search" /\ poll'.search = Idle.search /\ poll'.start = clock
      /\ poll'.todo = Idle.todo /\ poll'.views = Idle.views /\ poll'.jobs = Idle.jobs
      /\ poll'.next = Idle.next /\ poll'.turn = Idle.turn
  BY <1>1, <1>2, IdleTyped DEF Polls
<1> QED
  BY <1>1, <1>3, <1>4, IdleTyped

LEMMA FoundTyped == ASSUME NEW n \in 1 .. 4 PROVE Found(n) \in SUBSET Role(n)
BY DEF Found

LEMMA SearchDoes ==
    ASSUME Shapes, Search
    PROVE  LET mode == ModeOf(poll.search)
               found == Found(poll.search)
           IN  /\ Still /\ UNCHANGED <<state, disk>> /\ SameHistory /\ SameDone
               /\ history'.inScope = history.inScope \cup Role(poll.search)
               /\ poll.stage = "search" /\ poll' \in Polls /\ poll'.stage = "read"
               /\ poll'.search = poll.search /\ poll'.start = poll.start
               /\ poll'.jobs = poll.jobs /\ poll'.next = poll.next /\ poll'.turn = poll.turn
               /\ poll.views \subseteq poll'.views
               /\ \A v \in poll'.todo : /\ v.ticket \in found /\ v = View(v.ticket, mode, {})
                                        /\ WantsComments(v.ticket, mode)
               /\ \A v \in poll'.views :
                     \/ v \in poll.views
                     \/ /\ v.ticket \in found /\ v = View(v.ticket, mode, {})
                        /\ ~WantsComments(v.ticket, mode)
               /\ \A k \in found : WantsComments(k, mode) => \E v \in poll'.todo : v.ticket = k
<1> DEFINE mode == ModeOf(poll.search)
           found == Found(poll.search)
           read == {k \in found : WantsComments(k, mode)}
           todo == {View(k, mode, {}) : k \in read}
           seen == {View(k, mode, {}) : k \in found \ read}
           scope == history.inScope \cup Role(poll.search)
<1>1. /\ poll' = [poll EXCEPT !.stage = "read", !.todo = todo, !.views = poll.views \cup seen]
      /\ history' = [history EXCEPT !.inScope = scope]
      /\ Still /\ UNCHANGED <<state, disk>> /\ poll.stage = "search"
  BY DEF Search, Still, TrackerSame
<1>2. /\ poll \in Polls /\ poll.search \in 1 .. 4 /\ history \in Histories
      /\ tickets \in Board /\ "read" \in Stages
  BY DEF Shapes, Polls, Stages
<1>3. mode \in Modes /\ found \in SUBSET Tickets /\ Role(poll.search) \in SUBSET Tickets
  BY <1>2, ModeTyped, FoundTyped, RoleTyped
<1>4. scope \in SUBSET Tickets
  BY <1>2, <1>3 DEF Histories
<1> HIDE DEF mode, found, scope
<1>5. SameHistory /\ SameDone /\ history'.inScope = scope
  BY <1>1, <1>2, <1>4, BookTyped DEF SameHistory, SameDone
<1>6. \A k \in found : View(k, mode, {}) \in Views /\ View(k, mode, {}).ticket = k
  BY <1>2, <1>3, ViewTyped
<1>7. /\ todo \in SUBSET Views /\ seen \in SUBSET Views
      /\ \A v \in todo : /\ v.ticket \in found /\ v = View(v.ticket, mode, {})
                         /\ WantsComments(v.ticket, mode)
      /\ \A v \in seen : /\ v.ticket \in found /\ v = View(v.ticket, mode, {})
                         /\ ~WantsComments(v.ticket, mode)
      /\ \A k \in found : WantsComments(k, mode) => \E v \in todo : v.ticket = k
  BY <1>6
<1> HIDE DEF todo, seen, read
<1>8. /\ poll' \in Polls /\ poll'.stage = "read"
      /\ poll'.search = poll.search /\ poll'.start = poll.start
      /\ poll'.jobs = poll.jobs /\ poll'.next = poll.next /\ poll'.turn = poll.turn
      /\ poll'.todo = todo /\ poll'.views = poll.views \cup seen
  BY <1>1, <1>2, <1>7 DEF Polls
<1>9. /\ \A v \in poll'.todo : /\ v.ticket \in found /\ v = View(v.ticket, mode, {})
                               /\ WantsComments(v.ticket, mode)
      /\ \A v \in poll'.views :
            \/ v \in poll.views
            \/ /\ v.ticket \in found /\ v = View(v.ticket, mode, {})
               /\ ~WantsComments(v.ticket, mode)
  BY <1>7, <1>8
<1>10. poll.views \subseteq poll'.views
  BY <1>8
<1>11. \A k \in found : WantsComments(k, mode) => \E v \in poll'.todo : v.ticket = k
  BY <1>7, <1>8
<1> QED
  BY <1>1, <1>5, <1>8, <1>9, <1>10, <1>11 DEF mode, found, scope

LEMMA ReadCommentsDoes ==
    ASSUME Shapes, NEW v \in poll.todo, ReadComments(v)
    PROVE  /\ Still /\ UNCHANGED <<state, disk, history>>
           /\ poll.stage = "read" /\ v \in Views /\ poll' \in Polls /\ poll'.stage = "read"
           /\ poll'.search = poll.search /\ poll'.start = poll.start
           /\ poll'.jobs = poll.jobs /\ poll'.next = poll.next /\ poll'.turn = poll.turn
           /\ poll'.todo = poll.todo \ {v}
           /\ \E w \in Views : /\ poll'.views = poll.views \cup {w}
                               /\ w.ticket = v.ticket /\ w.comments = Visible(v.ticket)
<1> DEFINE w == [v EXCEPT !.comments = Visible(v.ticket)]
<1>1. /\ poll' = [poll EXCEPT !.todo = poll.todo \ {v}, !.views = poll.views \cup {w}]
      /\ Still /\ UNCHANGED <<state, disk, history>> /\ poll.stage = "read"
  BY DEF ReadComments, Still, TrackerSame
<1>2. poll \in Polls /\ v \in Views
  BY DEF Shapes, Polls
<1>3. w \in Views /\ w.ticket = v.ticket /\ w.comments = Visible(v.ticket)
  BY <1>2, VisibleTyped DEF Views
<1> HIDE DEF w
<1>4. /\ poll' \in Polls /\ poll'.stage = poll.stage
      /\ poll'.search = poll.search /\ poll'.start = poll.start
      /\ poll'.jobs = poll.jobs /\ poll'.next = poll.next /\ poll'.turn = poll.turn
      /\ poll'.todo = poll.todo \ {v} /\ poll'.views = poll.views \cup {w}
  BY <1>1, <1>2, <1>3 DEF Polls
<1> QED
  BY <1>1, <1>2, <1>3, <1>4

LEMMA NextSearchDoes ==
    ASSUME Shapes, NextSearch
    PROVE  /\ Still /\ UNCHANGED <<state, disk, history>>
           /\ poll.stage = "read" /\ poll.todo = {}
           /\ poll' \in Polls /\ poll'.stage = "search" /\ poll'.start = poll.start
           /\ poll'.jobs = poll.jobs /\ poll'.next = poll.next /\ poll'.turn = poll.turn
           /\ poll'.todo = {} /\ poll'.views = poll.views
<1>1. /\ poll' = [poll EXCEPT !.stage = "search", !.search = poll.search + 1]
      /\ Still /\ UNCHANGED <<state, disk, history>>
      /\ poll.stage = "read" /\ poll.todo = {} /\ poll.search < 4
  BY DEF NextSearch, Still, TrackerSame
<1>2. poll \in Polls /\ poll.search \in 1 .. 4 /\ "search" \in Stages
  BY DEF Shapes, Polls, Stages
<1>3. poll.search + 1 \in 1 .. 4
  BY <1>1, <1>2
<1> QED
  BY <1>1, <1>2, <1>3 DEF Polls

LEMMA FetchAssignedDoes ==
    ASSUME Shapes, FetchAssigned
    PROVE  /\ Still /\ UNCHANGED <<state, disk>> /\ SameHistory /\ SameDone
           /\ history'.inScope = Role(1)
           /\ poll.stage = "search" /\ poll' \in Polls /\ poll'.stage = "read"
           /\ poll'.start = poll.start
           /\ poll'.jobs = poll.jobs /\ poll'.next = poll.next /\ poll'.turn = poll.turn
           /\ poll'.todo = poll.todo
           /\ poll'.views = {View(k, "work", Visible(k)) : k \in Role(1)}
           /\ \A k \in Role(1) : /\ View(k, "work", Visible(k)).ticket = k
                                 /\ View(k, "work", Visible(k)).comments = Visible(k)
<1> DEFINE views == {View(k, "work", Visible(k)) : k \in Role(1)}
<1>1. /\ poll' = [poll EXCEPT !.stage = "read", !.search = 4, !.views = views]
      /\ history' = [history EXCEPT !.inScope = Role(1)]
      /\ Still /\ UNCHANGED <<state, disk>> /\ poll.stage = "search"
  BY DEF FetchAssigned, Still, TrackerSame
<1>2. /\ poll \in Polls /\ history \in Histories /\ tickets \in Board
      /\ "read" \in Stages /\ 4 \in 1 .. 4 /\ 1 \in 1 .. 4 /\ "work" \in Modes
  BY DEF Shapes, Stages, Modes
<1>3. Role(1) \in SUBSET Tickets
  BY <1>2, RoleTyped
<1>4. \A k \in Role(1) : /\ View(k, "work", Visible(k)) \in Views
                         /\ View(k, "work", Visible(k)).ticket = k
                         /\ View(k, "work", Visible(k)).comments = Visible(k)
  BY <1>2, <1>3, ViewTyped, VisibleTyped
<1>5. views \in SUBSET Views
  BY <1>4
<1> HIDE DEF views
<1>6. SameHistory /\ SameDone /\ history'.inScope = Role(1)
  BY <1>1, <1>2, <1>3, BookTyped DEF SameHistory, SameDone
<1>7. /\ poll' \in Polls /\ poll'.stage = "read" /\ poll'.start = poll.start
      /\ poll'.jobs = poll.jobs /\ poll'.next = poll.next /\ poll'.turn = poll.turn
      /\ poll'.todo = poll.todo /\ poll'.views = views
  BY <1>1, <1>2, <1>5 DEF Polls
<1> QED
  BY <1>1, <1>4, <1>6, <1>7 DEF views

(* The tick ends early, or the daemon does. *)
LEMMA BreakDoes ==
    ASSUME Shapes, FetchFails \/ Kill
    PROVE  /\ Still /\ UNCHANGED <<state, disk>> /\ SameHistory
           /\ poll' \in Polls /\ poll'.stage \in {"idle", "down"}
           /\ poll'.todo = {} /\ poll'.views = {} /\ poll'.jobs = {} /\ poll'.next = {}
           /\ poll'.turn = {} /\ poll'.start = Unseen
           /\ history'.saved = history.saved
           /\ \/ /\ poll'.stage = "idle" /\ history'.done = history.done
                 /\ poll.stage \in {"search", "read"}
              \/ poll'.stage = "down" /\ history'.done = history.saved
<1>0. poll \in Polls /\ history \in Histories /\ "down" \in Stages
  BY DEF Shapes, Stages
<1>1. CASE FetchFails
  <2>1. /\ poll' = Idle /\ history' = [history EXCEPT !.faults = history.faults + 1]
        /\ Still /\ UNCHANGED <<state, disk>> /\ Fault /\ poll.stage \in {"search", "read"}
    BY <1>1 DEF FetchFails, Still, TrackerSame
  <2>2. history.faults + 1 \in 0 .. MaxFaults
    BY <1>0, <2>1, FaultCounted
  <2>3. SameHistory /\ SameDone
    BY <1>0, <2>1, <2>2, BookTyped DEF SameHistory, SameDone
  <2> QED
    BY <2>1, <2>3, IdleTyped DEF SameDone
<1>2. CASE Kill
  <2>1. /\ poll' = [Idle EXCEPT !.stage = "down"]
        /\ history' = [history EXCEPT !.inScope = {}, !.done = history.saved,
                                      !.faults = history.faults + 1]
        /\ Still /\ UNCHANGED <<state, disk>> /\ Fault
    BY <1>2 DEF Kill, Still, TrackerSame
  <2>2. history.faults + 1 \in 0 .. MaxFaults
    BY <1>0, <2>1, FaultCounted
  <2>3. SameHistory /\ history'.saved = history.saved /\ history'.done = history.saved
    BY <1>0, <2>1, <2>2 DEF Histories, SameHistory
  <2>4. /\ poll' \in Polls /\ poll'.stage = "down"
        /\ poll'.todo = Idle.todo /\ poll'.views = Idle.views /\ poll'.jobs = Idle.jobs
        /\ poll'.next = Idle.next /\ poll'.turn = Idle.turn /\ poll'.start = Idle.start
    BY <1>0, <2>1, IdleTyped DEF Polls
  <2> QED
    BY <2>1, <2>3, <2>4, IdleTyped
<1> QED
  BY <1>1, <1>2

LEMMA DecideDoes ==
    ASSUME Shapes, Decide
    PROVE  LET next == NextState(poll.views)
           IN  /\ Still /\ UNCHANGED <<state, disk, history>>
               /\ poll.stage = "read" /\ poll.todo = {}
               /\ poll' \in Polls /\ poll'.stage = "dispatch" /\ poll'.start = poll.start
               /\ poll'.todo = {} /\ poll'.views = {} /\ poll'.turn = poll.turn
               /\ poll'.jobs = UNION {Turns(v) : v \in poll.views}
               /\ poll'.next = {next} /\ next \in PollState
<1> DEFINE next == NextState(poll.views)
           jobs == UNION {Turns(v) : v \in poll.views}
<1>1. /\ poll' = [poll EXCEPT !.stage = "dispatch", !.views = {}, !.jobs = jobs, !.next = {next}]
      /\ Still /\ UNCHANGED <<state, disk, history>>
      /\ poll.stage = "read" /\ poll.todo = {}
  BY DEF Decide, Still, TrackerSame
<1>2. poll \in Polls /\ poll.views \in SUBSET Views /\ "dispatch" \in Stages
  BY DEF Shapes, Polls, Stages
<1>3. next \in PollState
  BY <1>2, NextStateTyped DEF Shapes
<1>4. jobs \in SUBSET Jobs
  <2>1. \A v \in poll.views : Turns(v) \in SUBSET Jobs
    BY <1>2, TurnsOf
  <2> QED
    BY <2>1
<1> HIDE DEF jobs, next
<1>5. /\ poll' \in Polls /\ poll'.stage = "dispatch" /\ poll'.start = poll.start
      /\ poll'.todo = poll.todo /\ poll'.views = {} /\ poll'.turn = poll.turn
      /\ poll'.jobs = jobs /\ poll'.next = {next}
  BY <1>1, <1>2, <1>3, <1>4 DEF Polls
<1> QED
  BY <1>1, <1>3, <1>5 DEF jobs, next

LEMMA DispatchDoes ==
    ASSUME Shapes, NEW job \in poll.jobs, Dispatch(job)
    PROVE  /\ Still /\ UNCHANGED <<state, disk>>
           /\ job \in Jobs /\ poll.stage = "dispatch"
           /\ poll' \in Polls /\ poll'.stage = "turn" /\ poll'.start = poll.start
           /\ poll'.jobs = poll.jobs \ {job} /\ poll'.turn = {job} /\ poll'.next = poll.next
           /\ poll'.todo = poll.todo /\ poll'.views = poll.views
           /\ history' \in Histories
           /\ history'.handled = history.handled \cup job.comments
           /\ history'.excused = history.excused /\ history'.gaps = history.gaps
           /\ history'.inScope = history.inScope
           /\ history'.saved = history.saved
           /\ history'.done.work = history.done.work \cup {k \in {job.ticket} : Announces(job)}
           /\ history'.done.said = history.done.said \cup job.comments
<1> DEFINE work == history.done.work \cup {k \in {job.ticket} : Announces(job)}
           said == history.done.said \cup job.comments
<1>1. /\ poll' = [poll EXCEPT !.stage = "turn", !.jobs = poll.jobs \ {job}, !.turn = {job}]
      /\ history' = [history EXCEPT !.handled = history.handled \cup job.comments,
                                    !.done.work = work, !.done.said = said]
      /\ Still /\ UNCHANGED <<state, disk>> /\ poll.stage = "dispatch"
  BY DEF Dispatch, Still, TrackerSame, Shapes, Histories
<1>2. poll \in Polls /\ history \in Histories /\ "turn" \in Stages /\ job \in Jobs
  BY DEF Shapes, Polls, Stages
<1>3. /\ job.comments \in SUBSET Comments /\ work \in SUBSET Tickets
      /\ said \in SUBSET Comments
  BY <1>2 DEF Jobs, Histories
<1> HIDE DEF work, said
<1>4. /\ history' \in Histories
      /\ history'.handled = history.handled \cup job.comments
      /\ history'.excused = history.excused /\ history'.gaps = history.gaps
      /\ history'.inScope = history.inScope /\ history'.saved = history.saved
      /\ history'.done.work = work /\ history'.done.said = said
  <2>1. history' = [history EXCEPT !.handled = history.handled \cup job.comments,
                                   !.done = [history.done EXCEPT !.work = work, !.said = said]]
    BY <1>1, <1>2 DEF Histories
  <2>2. LET d == [history.done EXCEPT !.work = work, !.said = said]
        IN  /\ d \in [work : SUBSET Tickets, said : SUBSET Comments]
            /\ d.work = work /\ d.said = said
    BY <1>2, <1>3 DEF Histories
  <2> QED
    BY <1>2, <1>3, <2>1, <2>2 DEF Histories
<1>5. /\ poll' \in Polls /\ poll'.stage = "turn" /\ poll'.start = poll.start
      /\ poll'.jobs = poll.jobs \ {job} /\ poll'.turn = {job} /\ poll'.next = poll.next
      /\ poll'.todo = poll.todo /\ poll'.views = poll.views
  BY <1>1, <1>2 DEF Polls
<1> QED
  BY <1>1, <1>2, <1>4, <1>5 DEF work, said

LEMMA TurnReturnsDoes ==
    ASSUME Shapes, TurnReturns
    PROVE  /\ Still /\ UNCHANGED <<state, disk, history>>
           /\ poll.stage = "turn" /\ poll' \in Polls /\ poll'.stage = "post"
           /\ poll'.start = poll.start /\ poll'.jobs = poll.jobs /\ poll'.turn = poll.turn
           /\ poll'.next = poll.next /\ poll'.todo = poll.todo /\ poll'.views = poll.views
<1>1. /\ poll' = [poll EXCEPT !.stage = "post", !.attempts = 0]
      /\ Still /\ UNCHANGED <<state, disk, history>> /\ poll.stage = "turn"
  BY DEF TurnReturns, Still, TrackerSame
<1>2. poll \in Polls /\ "post" \in Stages /\ 0 \in 0 .. PostRetries
  BY Bounds DEF Shapes, Stages
<1> QED
  BY <1>1, <1>2 DEF Polls

LEMMA PostedTyped ==
    ASSUME Shapes
    PROVE  /\ Posted \in Polls /\ Posted.stage = "dispatch" /\ Posted.start = poll.start
           /\ Posted.jobs = poll.jobs /\ Posted.turn = {} /\ Posted.next = poll.next
           /\ Posted.todo = poll.todo /\ Posted.views = poll.views
<1>1. poll \in Polls /\ "dispatch" \in Stages /\ 0 \in 0 .. PostRetries
  BY Bounds DEF Shapes, Stages
<1> QED
  BY <1>1 DEF Posted, Polls

(* A reply touches its ticket; a plan that was posted is remembered. *)
LEMMA PostDoes ==
    ASSUME Shapes, Post \/ PostFails
    PROVE  /\ UNCHANGED <<source, clock, comments, state, disk>>
           /\ SameHistory /\ SameDone /\ history'.inScope = history.inScope
           /\ tickets' \in Board
           /\ \A k \in Tickets : tickets'[k].updated \in {tickets[k].updated, clock}
           /\ poll.stage = "post" /\ poll' \in Polls
           /\ \/ poll'.stage = "dispatch" /\ poll'.turn = {}
              \/ poll'.stage = "post" /\ poll'.turn = poll.turn
           /\ poll'.start = poll.start /\ poll'.jobs = poll.jobs
           /\ poll'.todo = poll.todo /\ poll'.views = poll.views
           /\ \A s \in poll'.next :
                 \/ s \in poll.next
                 \/ \E old \in poll.next, job \in poll.turn :
                       /\ job.kind = "plan"
                       /\ s.lastPoll = old.lastPoll /\ s.announced = old.announced
                       /\ s.embedded = old.embedded
                       /\ s.plans = old.plans \cup {job.ticket}
           /\ \A old \in poll.next : \E s \in poll'.next : s.announced = old.announced
           /\ \A s \in poll'.next : \E old \in poll.next :
                 s.announced = old.announced /\ s.lastPoll = old.lastPoll
<1>0. /\ poll \in Polls /\ history \in Histories /\ tickets \in Board
      /\ clock \in 1 .. MaxClock /\ poll.next \in SUBSET PollState
  BY DEF Shapes, Polls
<1>1. CASE Post
  <2>1. PICK job \in poll.turn :
          /\ tickets' = [tickets EXCEPT ![job.ticket].updated = clock]
          /\ poll' = [Posted EXCEPT
                        !.next = IF job.kind = "plan"
                                 THEN {[s EXCEPT !.plans = @ \cup {job.ticket}] : s \in @}
                                 ELSE @]
    BY <1>1 DEF Post
  <2>2. /\ UNCHANGED <<source, clock, comments, state, disk, history>> /\ poll.stage = "post"
    BY <1>1 DEF Post
  <2>3. job.ticket \in Tickets
    BY <1>0 DEF Polls, Jobs
  <2>4. /\ tickets' \in Board
        /\ \A k \in Tickets : tickets'[k].updated \in {tickets[k].updated, clock}
    BY <1>0, <2>1, <2>3 DEF Board, Cards
  <2> DEFINE grown == {[s EXCEPT !.plans = s.plans \cup {job.ticket}] : s \in poll.next}
             next == IF job.kind = "plan" THEN grown ELSE poll.next
  <2>5. poll' = [Posted EXCEPT !.next = next]
    BY <2>1, PostedTyped
  <2>6. \A s \in poll.next :
          LET g == [s EXCEPT !.plans = s.plans \cup {job.ticket}]
          IN  /\ g \in PollState /\ g.plans = s.plans \cup {job.ticket}
              /\ g.lastPoll = s.lastPoll /\ g.announced = s.announced /\ g.embedded = s.embedded
    BY <1>0, <2>3 DEF PollState
  <2>7. /\ next \in SUBSET PollState
        /\ \A s \in next :
             \/ s \in poll.next
             \/ \E old \in poll.next :
                   /\ job.kind = "plan"
                   /\ s.lastPoll = old.lastPoll /\ s.announced = old.announced
                   /\ s.embedded = old.embedded
                   /\ s.plans = old.plans \cup {job.ticket}
        /\ \A old \in poll.next : \E s \in next : s.announced = old.announced
    BY <1>0, <2>6
  <2> HIDE DEF next
  <2>8. /\ poll' \in Polls /\ poll'.next = next
        /\ poll'.stage = Posted.stage /\ poll'.turn = Posted.turn
        /\ poll'.start = Posted.start /\ poll'.jobs = Posted.jobs
        /\ poll'.todo = Posted.todo /\ poll'.views = Posted.views
    BY <2>5, <2>7, PostedTyped DEF Polls
  <2> QED
    BY <1>0, <2>2, <2>4, <2>7, <2>8, PostedTyped DEF SameHistory, SameDone
<1>2. CASE PostFails
  <2>1. PICK landed, transient \in BOOLEAN :
          /\ tickets' = IF landed
                        THEN [k \in Tickets |->
                                IF \E job \in poll.turn : job.ticket = k
                                THEN [tickets[k] EXCEPT !.updated = clock]
                                ELSE tickets[k]]
                        ELSE tickets
          /\ poll' = IF transient /\ poll.attempts < PostRetries
                     THEN [poll EXCEPT !.attempts = @ + 1]
                     ELSE Posted
    BY <1>2 DEF PostFails
  <2>2. /\ UNCHANGED <<source, clock, comments, state, disk>> /\ poll.stage = "post" /\ Fault
        /\ history' = [history EXCEPT !.faults = history.faults + 1]
    BY <1>2 DEF PostFails
  <2>3. \A k \in Tickets : /\ tickets[k] \in Cards /\ [tickets[k] EXCEPT !.updated = clock] \in Cards
                           /\ [tickets[k] EXCEPT !.updated = clock].updated = clock
    BY <1>0 DEF Board, Cards
  <2>4. /\ tickets' \in Board
        /\ \A k \in Tickets : tickets'[k].updated \in {tickets[k].updated, clock}
    <3>1. CASE landed
      <4>1. \A k \in Tickets : tickets'[k] \in {tickets[k], [tickets[k] EXCEPT !.updated = clock]}
        BY <2>1, <3>1
      <4>2. tickets' = [k \in Tickets |-> tickets'[k]]
        BY <2>1, <3>1
      <4>3. \A k \in Tickets : tickets'[k] \in Cards /\ tickets'[k].updated \in {tickets[k].updated, clock}
        BY <2>3, <4>1
      <4> QED
        BY <4>2, <4>3 DEF Board
    <3>2. CASE ~landed
      BY <1>0, <2>1, <3>2
    <3> QED
      BY <3>1, <3>2
  <2>5. history.faults + 1 \in 0 .. MaxFaults
    BY <1>0, <2>2, FaultCounted
  <2>6. SameHistory /\ SameDone /\ history'.inScope = history.inScope
    BY <1>0, <2>2, <2>5, BookTyped DEF SameHistory, SameDone
  <2>7. CASE transient /\ poll.attempts < PostRetries
    <3>1. poll' = [poll EXCEPT !.attempts = poll.attempts + 1]
      BY <2>1, <2>7
    <3>2. poll.attempts + 1 \in 0 .. PostRetries
      BY <1>0, <2>7, Bounds DEF Polls
    <3>3. /\ poll' \in Polls /\ poll'.next = poll.next
          /\ poll'.stage = poll.stage /\ poll'.turn = poll.turn
          /\ poll'.start = poll.start /\ poll'.jobs = poll.jobs
          /\ poll'.todo = poll.todo /\ poll'.views = poll.views
      BY <1>0, <3>1, <3>2 DEF Polls
    <3> QED
      BY <2>2, <2>4, <2>6, <3>3
  <2>8. CASE ~(transient /\ poll.attempts < PostRetries)
    <3>1. poll' = Posted
      BY <2>1, <2>8
    <3> QED
      BY <2>2, <2>4, <2>6, <3>1, PostedTyped
  <2> QED
    BY <2>7, <2>8
<1> QED
  BY <1>1, <1>2

LEMMA EndTickDoes ==
    ASSUME Base, EndTick
    PROVE  /\ Still /\ poll.stage = "dispatch" /\ poll.jobs = {} /\ poll' = Idle
           /\ state' \in poll.next /\ state' \in PollState
           /\ \/ disk' = {state'} /\ history'.saved = history'.done
              \/ disk' = disk /\ history'.saved = history.saved
           /\ history' \in Histories /\ history'.handled = history.handled
           /\ history'.done.work \subseteq state'.announced
           /\ history'.done.said = history.done.said
           /\ history'.gaps = history.gaps \cup (poll.start .. state'.lastPoll)
           /\ history'.excused = history.excused \cup
                 {c \in Comments : /\ comments[c].ticket \notin history.inScope
                                   /\ comments[c].at \in 1 .. state'.lastPoll}
<1> DEFINE excused(s) == history.excused \cup
               {c \in Comments : /\ comments[c].ticket \notin history.inScope
                                 /\ comments[c].at \in 1 .. s.lastPoll}
           done(s) == [history.done EXCEPT !.work = history.done.work \cap s.announced]
           h(s) == [history EXCEPT !.excused = excused(s),
                                   !.gaps = history.gaps \cup (poll.start .. s.lastPoll),
                                   !.done = done(s), !.inScope = {}]
<1>1. PICK s \in poll.next : state' = s /\ Save(s, h(s))
  BY DEF EndTick, Base, Shapes, Histories
<1>2. Still /\ poll.stage = "dispatch" /\ poll.jobs = {} /\ poll' = Idle
  BY DEF EndTick, Still, TrackerSame
<1>3. s \in PollState /\ history \in Histories /\ poll \in Polls
  BY DEF Base, Shapes, Polls
<1>4. poll.start .. s.lastPoll \in SUBSET (1 .. MaxClock)
  <2>1. poll.start \in 1 .. MaxClock /\ s.lastPoll \in 1 .. MaxClock
    BY <1>2, <1>3, Bounds DEF Base, Steps, Polls, PollState, Unseen
  <2> QED
    BY <2>1, Bounds
<1>5. excused(s) \in SUBSET Comments
  BY <1>3 DEF Histories
<1>8. /\ done(s) \in [work : SUBSET Tickets, said : SUBSET Comments]
      /\ done(s).said = history.done.said /\ done(s).work \subseteq s.announced
  BY <1>3 DEF Histories
<1> HIDE DEF excused, done
<1>6. /\ h(s) \in Histories /\ h(s).handled = history.handled
      /\ h(s).gaps = history.gaps \cup (poll.start .. s.lastPoll)
      /\ h(s).excused = excused(s) /\ h(s).faults = history.faults
      /\ h(s).done = done(s) /\ h(s).saved = history.saved
  BY <1>3, <1>4, <1>5, <1>8 DEF Histories
<1> HIDE DEF h
<1>7. /\ \/ disk' = {s} /\ history'.saved = h(s).done
         \/ disk' = disk /\ history'.saved = h(s).saved
      /\ history' \in Histories /\ history'.done = h(s).done
      /\ history'.handled = h(s).handled /\ history'.excused = h(s).excused
      /\ history'.gaps = h(s).gaps
  BY <1>1, <1>3, <1>6, Saved
<1> QED
  BY <1>1, <1>2, <1>3, <1>6, <1>7, <1>8 DEF excused

-----------------------------------------------------------------------------
(* Every action keeps the types and what a tick has in hand. *)

LEMMA Cases ==
    ASSUME [Next]_vars
    PROVE  \/ People \/ Boot \/ StartTick \/ Search \/ FetchAssigned \/ NextSearch \/ Decide
           \/ (\E v \in poll.todo : ReadComments(v))
           \/ (\E job \in poll.jobs : Dispatch(job))
           \/ TurnReturns \/ (Post \/ PostFails) \/ EndTick \/ (FetchFails \/ Kill)
           \/ UNCHANGED vars
BY DEF Next, Progress, Failures

LEMMA StepShapes == Base /\ [Next]_vars => Shapes'
<1> SUFFICES ASSUME Base, [Next]_vars PROVE Shapes'
  OBVIOUS
<1>0. /\ Shapes /\ source \in {"issues", "linear"} /\ clock \in 1 .. MaxClock
      /\ tickets \in Board /\ comments \in Notes /\ history \in Histories
      /\ state \in PollState /\ (disk = {} \/ \E s \in PollState : disk = {s})
  BY DEF Base, Shapes
<1>1. ASSUME Still, disk' = disk, state' = state, poll' \in Polls, history' \in Histories
      PROVE  Shapes'
  BY <1>0, <1>1 DEF Still, Shapes
<1>2. CASE People
  BY <1>0, <1>2, PeopleDo DEF Shapes, SameHistory
<1>3. CASE Boot
  <2>1. state' \in PollState
    BY <1>0, <1>3, BootDoes, StartingTyped
  <2> QED
    BY <1>0, <1>3, <2>1, BootDoes, IdleTyped DEF Shapes, Still
<1>4. CASE StartTick
  BY <1>0, <1>1, <1>4, StartTickDoes DEF SameHistory
<1>5. CASE Search
  BY <1>0, <1>1, <1>5, SearchDoes DEF SameHistory
<1>6. CASE FetchAssigned
  BY <1>0, <1>1, <1>6, FetchAssignedDoes DEF SameHistory
<1>7. CASE NextSearch
  BY <1>0, <1>1, <1>7, NextSearchDoes
<1>8. CASE Decide
  BY <1>0, <1>1, <1>8, DecideDoes
<1>9. CASE \E v \in poll.todo : ReadComments(v)
  BY <1>0, <1>1, <1>9, ReadCommentsDoes
<1>10. CASE \E job \in poll.jobs : Dispatch(job)
  BY <1>0, <1>1, <1>10, DispatchDoes
<1>11. CASE TurnReturns
  BY <1>0, <1>1, <1>11, TurnReturnsDoes
<1>12. CASE Post \/ PostFails
  BY <1>0, <1>12, PostDoes DEF Shapes, SameHistory
<1>13. CASE EndTick
  BY <1>0, <1>13, EndTickDoes, IdleTyped DEF Shapes, Still
<1>14. CASE FetchFails \/ Kill
  BY <1>0, <1>1, <1>14, BreakDoes DEF SameHistory
<1>15. CASE UNCHANGED vars
  BY <1>15 DEF Base, Shapes, vars
<1> QED
  BY <1>2, <1>3, <1>4, <1>5, <1>6, <1>7, <1>8, <1>9, <1>10, <1>11, <1>12, <1>13, <1>14,
     <1>15, Cases

(* Idle and down: nothing in hand. *)
LEMMA EmptySteps ==
    ASSUME poll'.stage \in {"idle", "down"},
           poll'.todo = {}, poll'.views = {}, poll'.jobs = {}, poll'.next = {}, poll'.turn = {}
    PROVE  Steps'
BY DEF Steps

LEMMA SearchSteps == ASSUME Base, Search PROVE Steps'
<1> DEFINE mode == ModeOf(poll.search)
<1>1. Shapes /\ Steps /\ poll.search \in 1 .. 4 /\ poll.start # Unseen
  <2>1. poll.stage = "search" /\ Shapes /\ Steps
    BY SearchDoes DEF Base
  <2> QED
    BY <2>1 DEF Shapes, Polls, Steps
<1>2. \A k \in Found(poll.search) : k \in Role(poll.search) /\ k \notin {v.ticket : v \in poll.views}
  BY DEF Found
<1>3. \A v \in poll'.todo \cup poll'.views :
         v \in poll.views \/ (v.ticket \in Found(poll.search) /\ v = View(v.ticket, mode, {}))
  BY <1>1, SearchDoes
<1>8. poll'.todo \cap poll'.views = {}
  <2>1. /\ \A v \in poll'.todo : v.ticket \in Found(poll.search) /\ WantsComments(v.ticket, mode)
        /\ \A v \in poll'.views : v \in poll.views \/ ~WantsComments(v.ticket, mode)
    BY <1>1, SearchDoes
  <2> QED
    BY <1>2, <2>1
<1>4. /\ history'.inScope = history.inScope \cup Role(poll.search)
      /\ poll'.stage = "read" /\ poll.stage = "search" /\ poll'.start = poll.start
      /\ poll'.jobs = poll.jobs /\ poll'.next = poll.next /\ poll'.turn = poll.turn
  BY <1>1, SearchDoes
<1> HIDE DEF mode
<1>5. \A v \in poll'.todo \cup poll'.views : v.ticket \in history'.inScope
  BY <1>1, <1>2, <1>3, <1>4 DEF Steps
<1>6. ASSUME NEW a \in poll'.todo \cup poll'.views, NEW b \in poll'.todo \cup poll'.views,
             a.ticket = b.ticket
      PROVE  a = b
  <2>1. CASE a \in poll.views /\ b \in poll.views
    BY <1>1, <1>6, <2>1 DEF Steps
  <2>2. CASE a \notin poll.views /\ b \notin poll.views
    BY <1>3, <1>6, <2>2
  <2>3. CASE a \in poll.views /\ b \notin poll.views
    BY <1>2, <1>3, <1>6, <2>3
  <2>4. CASE a \notin poll.views /\ b \in poll.views
    BY <1>2, <1>3, <1>6, <2>4
  <2> QED
    BY <2>1, <2>2, <2>3, <2>4
<1>7. poll.jobs = {} /\ poll.next = {} /\ poll.turn = {}
  BY <1>1, <1>4 DEF Steps
<1> QED
  BY <1>1, <1>4, <1>5, <1>6, <1>7, <1>8 DEF Steps

LEMMA ReadSteps == ASSUME Base, NEW v \in poll.todo, ReadComments(v) PROVE Steps'
<1>1. Shapes /\ Steps /\ poll.stage = "read"
  BY ReadCommentsDoes DEF Base
<1>2. PICK w \in Views : poll'.views = poll.views \cup {w} /\ w.ticket = v.ticket
  BY <1>1, ReadCommentsDoes
<1>3. /\ poll'.stage = "read" /\ poll'.start = poll.start
      /\ poll'.jobs = poll.jobs /\ poll'.next = poll.next /\ poll'.turn = poll.turn
      /\ poll'.todo = poll.todo \ {v} /\ history' = history
  BY <1>1, ReadCommentsDoes
<1>4. \A a \in poll.todo \cup poll.views : a.ticket = v.ticket => a = v
  BY <1>1 DEF Steps
<1>5. \A a \in poll'.todo \cup poll'.views : a.ticket \in history'.inScope
  BY <1>1, <1>2, <1>3 DEF Steps
<1>6. ASSUME NEW a \in poll'.todo \cup poll'.views, NEW b \in poll'.todo \cup poll'.views,
             a.ticket = b.ticket
      PROVE  a = b
  <2>1. v \notin poll'.todo
    BY <1>3
  <2>2. CASE v \notin poll.views
    <3>1. \A x \in poll'.todo \cup poll'.views :
             x = w \/ (x \in poll.todo \cup poll.views /\ x.ticket # v.ticket)
      BY <1>2, <1>3, <1>4, <2>2
    <3> QED
      BY <1>1, <1>2, <1>6, <3>1 DEF Steps
  <2>3. CASE v \in poll.views
    <3>1. FALSE
      BY <2>3, <1>1 DEF Steps
    <3> QED
      BY <3>1
  <2> QED
    BY <2>2, <2>3
<1>7. poll.jobs = {} /\ poll.next = {} /\ poll.turn = {} /\ poll.start # Unseen
  BY <1>1 DEF Steps
<1>8. poll'.todo \cap poll'.views = {}
  BY <1>1, <1>2, <1>3, <1>4 DEF Steps
<1> QED
  BY <1>3, <1>5, <1>6, <1>7, <1>8 DEF Steps

LEMMA FetchAssignedSteps == ASSUME Base, FetchAssigned PROVE Steps'
<1>1. /\ history'.inScope = Role(1) /\ poll.stage = "search" /\ poll'.stage = "read"
      /\ poll'.start = poll.start /\ poll'.todo = poll.todo
      /\ poll'.jobs = poll.jobs /\ poll'.next = poll.next /\ poll'.turn = poll.turn
      /\ poll'.views = {View(k, "work", Visible(k)) : k \in Role(1)}
      /\ \A k \in Role(1) : View(k, "work", Visible(k)).ticket = k
  BY FetchAssignedDoes DEF Base
<1>2. /\ poll.start # Unseen /\ poll.todo = {} /\ poll.jobs = {} /\ poll.next = {}
      /\ poll.turn = {}
  BY <1>1 DEF Base, Steps
<1>3. \A v \in poll'.views : v.ticket \in Role(1) /\ v = View(v.ticket, "work", Visible(v.ticket))
  BY <1>1
<1> QED
  BY <1>1, <1>2, <1>3 DEF Steps

LEMMA DecideSteps == ASSUME Base, Decide PROVE Steps'
<1> DEFINE next == NextState(poll.views)
           jobs == UNION {Turns(v) : v \in poll.views}
<1>1. /\ poll.stage = "read" /\ poll'.stage = "dispatch" /\ poll'.start = poll.start
      /\ poll'.todo = {} /\ poll'.views = {} /\ poll'.turn = poll.turn
      /\ poll'.jobs = jobs /\ poll'.next = {next}
  BY DecideDoes DEF Base
<1>2. poll.start # Unseen /\ poll.turn = {} /\ poll.views \in SUBSET Views
  BY <1>1 DEF Base, Shapes, Steps, Polls
<1>3. next.announced = WorkTickets(poll.views)
  BY <1>2, NextStateTyped DEF Base, Shapes
<1>4. ASSUME NEW job \in jobs, job.kind = "plan" PROVE job.ticket \in next.announced
  <2>1. PICK v \in poll.views : job \in Turns(v)
    OBVIOUS
  <2>2. v.mode = "work" /\ job.ticket = v.ticket
    BY <1>2, <1>4, <2>1, TurnsOf
  <2> QED
    BY <1>3, <2>2 DEF WorkTickets
<1> HIDE DEF next, jobs
<1> QED
  BY <1>1, <1>2, <1>4 DEF Steps

LEMMA TurnSteps ==
    ASSUME Base, \/ \E job \in poll.jobs : Dispatch(job)
                 \/ TurnReturns \/ Post \/ PostFails
    PROVE  Steps'
<1>0. Shapes /\ Steps
  BY DEF Base
<1>1. CASE \E job \in poll.jobs : Dispatch(job)
  <2>1. PICK job \in poll.jobs : Dispatch(job)
    BY <1>1
  <2>2. /\ poll.stage = "dispatch" /\ poll'.stage = "turn" /\ poll'.start = poll.start
        /\ poll'.jobs = poll.jobs \ {job} /\ poll'.turn = {job} /\ poll'.next = poll.next
        /\ poll'.todo = poll.todo /\ poll'.views = poll.views
        /\ history'.inScope = history.inScope
    BY <1>0, <2>1, DispatchDoes
  <2> QED
    BY <1>0, <2>2 DEF Steps
<1>2. CASE TurnReturns
  BY <1>0, <1>2, TurnReturnsDoes DEF Steps
<1>3. CASE Post \/ PostFails
  <2>1. /\ history'.inScope = history.inScope /\ poll.stage = "post"
        /\ \/ poll'.stage = "dispatch" /\ poll'.turn = {}
           \/ poll'.stage = "post" /\ poll'.turn = poll.turn
        /\ poll'.start = poll.start /\ poll'.jobs = poll.jobs
        /\ poll'.todo = poll.todo /\ poll'.views = poll.views
        /\ \A s \in poll'.next : \E old \in poll.next : s.announced = old.announced
    BY <1>0, <1>3, PostDoes
  <2>2. \A job \in poll'.jobs \cup poll'.turn :
           job.kind = "plan" => \A s \in poll'.next : job.ticket \in s.announced
    BY <1>0, <2>1 DEF Steps
  <2> QED
    BY <1>0, <2>1, <2>2 DEF Steps
<1> QED
  BY <1>1, <1>2, <1>3

LEMMA StepSteps == Base /\ [Next]_vars => Steps'
<1> SUFFICES ASSUME Base, [Next]_vars PROVE Steps'
  OBVIOUS
<1>0. Shapes /\ Steps
  BY DEF Base
<1>1. CASE People
  BY <1>0, <1>1, PeopleDo DEF Steps
<1>2. CASE Boot
  BY <1>0, <1>2, BootDoes, IdleTyped, EmptySteps
<1>3. CASE StartTick
  <2>1. clock # Unseen
    BY <1>0, Bounds DEF Shapes, Unseen
  <2> QED
    BY <1>0, <1>3, <2>1, StartTickDoes DEF Steps
<1>4. CASE NextSearch
  BY <1>0, <1>4, NextSearchDoes DEF Steps
<1>5. CASE EndTick
  BY <1>5, EndTickDoes, IdleTyped, EmptySteps
<1>6. CASE FetchFails \/ Kill
  BY <1>0, <1>6, BreakDoes, EmptySteps
<1>7. CASE UNCHANGED vars
  BY <1>0, <1>7 DEF Steps, vars
<1> QED
  BY <1>1, <1>2, <1>3, <1>4, <1>5, <1>6, <1>7, SearchSteps, ReadSteps, FetchAssignedSteps,
     DecideSteps, TurnSteps, Cases

-----------------------------------------------------------------------------
(* Times stay in order. *)

LEMMA Times ==
    ASSUME Shapes
    PROVE  /\ clock \in Nat /\ poll.start \in Nat /\ state.lastPoll \in Nat /\ 1 <= clock
           /\ \A k \in Tickets : tickets[k].updated \in Nat
           /\ \A c \in Comments : comments[c].at \in Nat /\ comments[c].ticket \in Tickets
           /\ \A s \in disk \cup poll.next : s.lastPoll \in Nat
<1>1. /\ clock \in 1 .. MaxClock /\ poll.start \in 0 .. MaxClock
      /\ state.lastPoll \in 1 .. MaxClock
      /\ \A k \in Tickets : tickets[k].updated \in 1 .. MaxClock
      /\ \A c \in Comments : comments[c].at \in 0 .. MaxClock /\ comments[c].ticket \in Tickets
  BY DEF Shapes, Polls, PollState, Board, Cards, Notes
<1>2. \A s \in disk \cup poll.next : s.lastPoll \in 1 .. MaxClock
  BY DEF Shapes, Polls, PollState
<1> QED
  BY <1>1, <1>2, Bounds

LEMMA Orders ==
    /\ \A a, b, c \in Nat : a <= b /\ b <= c => a <= c
    /\ \A a \in Nat : a <= a
OBVIOUS

(* The tracker as it was: only what the poller remembers has changed. *)
LEMMA StillDated ==
    ASSUME Dated, Still, poll'.start <= clock, state'.lastPoll <= clock,
           \A s \in disk' : s.lastPoll <= state'.lastPoll,
           \A s \in poll'.next : /\ poll'.start <= s.lastPoll /\ s.lastPoll <= clock
                                 /\ state'.lastPoll <= s.lastPoll
    PROVE  Dated'
BY DEF Dated, Still

LEMMA PeopleDated == ASSUME Base, Shapes', People PROVE Dated'
<1>0. Shapes /\ Dated
  BY DEF Base
<1>1. /\ UNCHANGED <<state, disk, poll>> /\ clock <= clock'
      /\ \A k \in Tickets : tickets'[k].updated \in {tickets[k].updated, clock}
      /\ \A c \in Comments :
            /\ comments'[c].ticket = comments[c].ticket
            /\ \/ comments'[c].at = comments[c].at
               \/ /\ comments'[c].at = clock
                  /\ tickets'[comments[c].ticket].updated = clock
  BY <1>0, PeopleDo
<1>2. clock \in Nat /\ clock' \in Nat
  BY <1>0, Times, Bounds DEF Shapes
<1>3. \A n \in Nat : n <= clock => n <= clock'
  BY <1>1, <1>2, Orders
<1>4. \A k \in Tickets : /\ tickets[k].updated \in Nat /\ tickets[k].updated <= clock
                         /\ tickets[k].updated <= tickets'[k].updated /\ tickets'[k].updated <= clock
                         /\ tickets'[k].updated \in Nat
  BY <1>0, <1>1, <1>2, Times, Orders DEF Dated
<1>5. \A c \in Comments : comments'[c].at <= tickets'[comments'[c].ticket].updated
  <2> TAKE c \in Comments
  <2>1. /\ comments[c].at \in Nat /\ comments[c].ticket \in Tickets
        /\ comments[c].at <= tickets[comments[c].ticket].updated
    BY <1>0, Times DEF Dated
  <2>2. CASE comments'[c].at = comments[c].at
    BY <1>1, <1>4, <2>1, <2>2, Orders
  <2>3. CASE /\ comments'[c].at = clock
             /\ tickets'[comments[c].ticket].updated = clock
    BY <1>1, <1>2, <2>3, Orders
  <2> QED
    BY <1>1, <2>2, <2>3
<1>6. /\ poll.start <= clock' /\ state.lastPoll <= clock'
      /\ \A s \in poll.next : s.lastPoll <= clock'
  BY <1>0, <1>3, Times DEF Dated
<1>7. \A k \in Tickets : tickets'[k].updated <= clock'
  BY <1>3, <1>4
<1> QED
  BY <1>0, <1>1, <1>5, <1>6, <1>7 DEF Dated

LEMMA PostDated == ASSUME Base, Post \/ PostFails PROVE Dated'
<1>0. Shapes /\ Dated
  BY DEF Base
<1>1. /\ UNCHANGED <<clock, comments, state, disk>>
      /\ \A k \in Tickets : tickets'[k].updated \in {tickets[k].updated, clock}
      /\ poll'.start = poll.start
      /\ \A s \in poll'.next : \E old \in poll.next : s.lastPoll = old.lastPoll
  BY <1>0, PostDoes
<1>2. \A k \in Tickets : /\ tickets[k].updated \in Nat /\ tickets[k].updated <= clock
                         /\ tickets[k].updated <= tickets'[k].updated /\ tickets'[k].updated <= clock
                         /\ tickets'[k].updated \in Nat
  BY <1>0, <1>1, Times, Orders DEF Dated
<1>3. \A c \in Comments : comments[c].at <= tickets'[comments[c].ticket].updated
  BY <1>0, <1>2, Times, Orders DEF Dated
<1>4. \A s \in poll'.next : /\ poll.start <= s.lastPoll /\ s.lastPoll <= clock
                            /\ state.lastPoll <= s.lastPoll
  BY <1>0, <1>1 DEF Dated
<1> QED
  BY <1>0, <1>1, <1>2, <1>3, <1>4 DEF Dated

LEMMA StepDated == Base /\ [Next]_vars => Dated'
<1> SUFFICES ASSUME Base, [Next]_vars PROVE Dated'
  OBVIOUS
<1>0. Shapes /\ Dated /\ Steps /\ Shapes'
  BY StepShapes DEF Base
<1>1. ASSUME Still, disk' = disk, state' = state, poll'.start \in {poll.start, Unseen},
             poll'.next = poll.next \/ poll'.next = {}
      PROVE  Dated'
  <2>1. poll'.start <= clock
    BY <1>0, <1>1, Times DEF Dated, Unseen
  <2>2. poll'.next = {} \/ poll'.start = poll.start \/ Unseen = poll'.start
    BY <1>1
  <2>3. \A s \in poll'.next : /\ poll'.start <= s.lastPoll /\ s.lastPoll <= clock
                              /\ state.lastPoll <= s.lastPoll
    BY <1>0, <1>1, <2>2, Times DEF Dated, Unseen
  <2> QED
    BY <1>0, <1>1, <2>1, <2>3, StillDated DEF Dated
<1>2. CASE Boot
  <2>1. /\ Still /\ disk' = disk /\ poll'.start = Unseen /\ poll'.next = {}
        /\ state' = StartingNow(clock) \/ disk = {state'}
    BY <1>0, <1>2, BootDoes, IdleTyped
  <2>2. CASE state' = StartingNow(clock)
    <3>1. state'.lastPoll = clock
      BY <1>0, <2>2, StartingTyped DEF Shapes
    <3>2. \A s \in disk : s.lastPoll <= clock
      BY <1>0, Times, Orders DEF Dated
    <3> QED
      BY <1>0, <2>1, <2>2, <3>1, <3>2, Times, Orders, StillDated DEF Unseen
  <2>3. CASE disk = {state'}
    <3>1. state'.lastPoll <= state.lastPoll /\ state'.lastPoll \in Nat
      BY <1>0, <2>3, Times DEF Dated
    <3>2. state'.lastPoll <= clock
      BY <1>0, <3>1, Times, Orders DEF Dated
    <3> QED
      BY <1>0, <2>1, <2>3, <3>1, <3>2, Times, Orders, StillDated DEF Unseen
  <2> QED
    BY <2>1, <2>2, <2>3
<1>3. CASE StartTick
  <2>1. /\ Still /\ UNCHANGED <<state, disk>> /\ poll'.start = clock /\ poll'.next = {}
    BY <1>0, <1>3, StartTickDoes
  <2> QED
    BY <1>0, <2>1, Times, Orders, StillDated DEF Dated
<1>4. CASE Search
  BY <1>0, <1>1, <1>4, SearchDoes
<1>5. CASE FetchAssigned
  BY <1>0, <1>1, <1>5, FetchAssignedDoes
<1>6. CASE NextSearch
  BY <1>0, <1>1, <1>6, NextSearchDoes
<1>7. CASE Decide
  <2>1. /\ Still /\ UNCHANGED <<state, disk>> /\ poll'.start = poll.start
        /\ poll'.next = {NextState(poll.views)} /\ poll.views \in SUBSET Views
    BY <1>0, <1>7, DecideDoes DEF Shapes, Polls
  <2>2. NextState(poll.views).lastPoll = clock
    BY <1>0, <2>1, NextStateTyped DEF Shapes
  <2> QED
    BY <1>0, <2>1, <2>2, Times, Orders, StillDated DEF Dated
<1>8. CASE \E v \in poll.todo : ReadComments(v)
  BY <1>0, <1>1, <1>8, ReadCommentsDoes
<1>9. CASE \E job \in poll.jobs : Dispatch(job)
  BY <1>0, <1>1, <1>9, DispatchDoes
<1>10. CASE TurnReturns
  BY <1>0, <1>1, <1>10, TurnReturnsDoes
<1>11. CASE EndTick
  <2>1. /\ Still /\ poll'.start = Unseen /\ poll'.next = {} /\ state' \in poll.next
        /\ disk' = {state'} \/ disk' = disk
    BY <1>11, EndTickDoes, IdleTyped
  <2>2. /\ state'.lastPoll \in Nat /\ state'.lastPoll <= clock
        /\ state.lastPoll <= state'.lastPoll
    BY <1>0, <2>1, Times DEF Dated
  <2>3. \A s \in disk' : s.lastPoll <= state'.lastPoll
    BY <1>0, <2>1, <2>2, Times, Orders DEF Dated
  <2> QED
    BY <1>0, <2>1, <2>2, <2>3, Times, StillDated DEF Unseen
<1>12. CASE FetchFails \/ Kill
  BY <1>0, <1>1, <1>12, BreakDoes
<1>13. CASE UNCHANGED vars
  BY <1>0, <1>13 DEF Dated, vars
<1> QED
  BY <1>0, <1>2, <1>3, <1>4, <1>5, <1>6, <1>7, <1>8, <1>9, <1>10, <1>11, <1>12, <1>13,
     PeopleDated, PostDated, Cases

LEMMA StepBase == Base /\ [Next]_vars => Base'
BY StepShapes, StepSteps, StepDated DEF Base

LEMMA InitBase == Init => Base
<1> SUFFICES ASSUME Init PROVE Base
  OBVIOUS
<1>1. 1 \in 1 .. MaxClock /\ 0 \in 0 .. MaxClock
  BY Bounds
<1>2. tickets \in Board /\ \A k \in Tickets : tickets[k].updated = 1
  <2>1. tickets \in [Tickets -> [authored : BOOLEAN, assigned : BOOLEAN,
                                 open : {TRUE}, planned : BOOLEAN, updated : {1}]]
    BY DEF Init
  <2>2. \A k \in Tickets : tickets[k] \in Cards /\ tickets[k].updated = 1
    BY <1>1, <2>1 DEF Cards
  <2> QED
    BY <2>1, <2>2 DEF Board
<1>3. comments \in Notes /\ \A c \in Comments : comments[c].at = 0
  <2>1. comments \in [Comments -> [ticket : Tickets, at : {Unseen}]]
    BY DEF Init
  <2> QED
    BY <1>1, <2>1 DEF Notes, Unseen
<1>4. /\ state \in PollState /\ state.lastPoll = 1
      /\ disk = {} \/ disk = {state}
  BY <1>1, StartingTyped DEF Init
<1>5. history \in Histories
  BY <1>1, Bounds DEF Init, Histories, NothingDone
<1>6. Shapes
  BY <1>1, <1>2, <1>3, <1>4, <1>5, IdleTyped DEF Init, Shapes
<1>7. poll = Idle /\ clock = 1
  BY DEF Init
<1>8. Steps
  BY <1>7, IdleTyped DEF Steps
<1>9. Dated
  BY <1>2, <1>3, <1>4, <1>7, <1>6, IdleTyped, Times DEF Dated, Unseen
<1> QED
  BY <1>6, <1>8, <1>9 DEF Base

-----------------------------------------------------------------------------
(* TypeOK *)

LEMMA DecidedSorted ==
    ASSUME Base, poll.stage = "read", poll.todo = {} PROVE Sorted(NextState(poll.views))
<1> DEFINE next == NextState(poll.views)
<1>1. /\ next.announced = WorkTickets(poll.views) /\ next.plans \subseteq WorkTickets(poll.views)
      /\ \A k \in next.embedded : \E v \in poll.views : v.ticket = k /\ v.mode # "work"
  BY NextStateTyped DEF Base, Shapes, Polls
<1> HIDE DEF next
<1>2. \A a, b \in poll.views : a.ticket = b.ticket => a = b
  BY DEF Base, Steps
<1>3. next.announced \cap next.embedded = {}
  BY <1>1, <1>2 DEF WorkTickets
<1> QED
  BY <1>1, <1>3 DEF Sorted, next

LEMMA StepStates == Base /\ States /\ [Next]_vars => States'
<1> SUFFICES ASSUME Base, States, [Next]_vars PROVE States'
  OBVIOUS
<1>0. Shapes
  BY DEF Base
<1>1. ASSUME disk' = disk, state' = state, poll'.next = poll.next \/ poll'.next = {} PROVE States'
  BY <1>1 DEF States, Sorted
<1>2. CASE People
  BY <1>0, <1>1, <1>2, PeopleDo
<1>3. CASE Boot
  <2>1. /\ disk' = disk /\ poll'.next = {}
        /\ state' = StartingNow(clock) \/ disk = {state'}
    BY <1>0, <1>3, BootDoes, IdleTyped
  <2>2. Sorted(StartingNow(clock))
    BY <1>0, StartingTyped DEF Shapes
  <2> QED
    BY <2>1, <2>2 DEF States, Sorted
<1>4. CASE StartTick
  BY <1>0, <1>1, <1>4, StartTickDoes
<1>5. CASE Search
  BY <1>0, <1>1, <1>5, SearchDoes
<1>6. CASE FetchAssigned
  BY <1>0, <1>1, <1>6, FetchAssignedDoes
<1>7. CASE NextSearch
  BY <1>0, <1>1, <1>7, NextSearchDoes
<1>8. CASE Decide
  <2>1. /\ UNCHANGED <<state, disk>> /\ poll.stage = "read" /\ poll.todo = {}
        /\ poll'.next = {NextState(poll.views)}
    BY <1>0, <1>8, DecideDoes
  <2> QED
    BY <2>1, DecidedSorted DEF States, Sorted
<1>9. CASE \E v \in poll.todo : ReadComments(v)
  BY <1>0, <1>1, <1>9, ReadCommentsDoes
<1>10. CASE \E job \in poll.jobs : Dispatch(job)
  BY <1>0, <1>1, <1>10, DispatchDoes
<1>11. CASE TurnReturns
  BY <1>0, <1>1, <1>11, TurnReturnsDoes
<1>12. CASE Post \/ PostFails
  <2>1. /\ UNCHANGED <<state, disk>>
        /\ \A s \in poll'.next :
              \/ s \in poll.next
              \/ \E old \in poll.next, job \in poll.turn :
                    /\ job.kind = "plan"
                    /\ s.announced = old.announced /\ s.embedded = old.embedded
                    /\ s.plans = old.plans \cup {job.ticket}
    BY <1>0, <1>12, PostDoes
  <2>2. \A old \in poll.next, job \in poll.turn :
           job.kind = "plan" => job.ticket \in old.announced
    BY DEF Base, Steps
  <2>3. \A s \in poll.next : Sorted(s)
    BY DEF States
  <2>4. \A s \in poll'.next : Sorted(s)
    BY <2>1, <2>2, <2>3 DEF Sorted
  <2> QED
    BY <2>1, <2>4 DEF States, Sorted
<1>13. CASE EndTick
  <2>1. /\ poll'.next = {} /\ state' \in poll.next /\ (disk' = {state'} \/ disk' = disk)
    BY <1>13, EndTickDoes, IdleTyped
  <2> QED
    BY <2>1 DEF States, Sorted
<1>14. CASE FetchFails \/ Kill
  BY <1>0, <1>1, <1>14, BreakDoes
<1>15. CASE UNCHANGED vars
  BY <1>1, <1>15 DEF vars
<1> QED
  BY <1>2, <1>3, <1>4, <1>5, <1>6, <1>7, <1>8, <1>9, <1>10, <1>11, <1>12, <1>13, <1>14,
     <1>15, Cases

LEMMA TypesHold == Base /\ States => TypeOK
<1> SUFFICES ASSUME Base, States PROVE TypeOK
  OBVIOUS
<1>0. Shapes /\ Dated /\ Steps
  BY DEF Base
<1>1. tickets \in [Tickets -> [authored : BOOLEAN, assigned : BOOLEAN, open : BOOLEAN,
                               planned : BOOLEAN, updated : 1 .. clock]]
  <2>1. tickets \in [Tickets -> Cards] /\ clock \in 1 .. MaxClock
        /\ \A k \in Tickets : tickets[k].updated <= clock
    BY <1>0 DEF Shapes, Board, Dated
  <2>2. \A k \in Tickets : tickets[k].updated \in 1 .. clock
    BY <2>1, Bounds DEF Cards
  <2>3. \A k \in Tickets : tickets[k] \in [authored : BOOLEAN, assigned : BOOLEAN, open : BOOLEAN,
                                           planned : BOOLEAN, updated : 1 .. clock]
    BY <2>1, <2>2 DEF Cards
  <2> QED
    BY <2>1, <2>3
<1>2. comments \in [Comments -> [ticket : Tickets, at : 0 .. clock]]
  <2>1. comments \in [Comments -> [ticket : Tickets, at : 0 .. MaxClock]]
    BY <1>0 DEF Shapes, Notes
  <2>2. \A c \in Comments : comments[c].at \in 0 .. clock
    <3> TAKE c \in Comments
    <3>1. /\ comments[c].at \in Nat /\ comments[c].ticket \in Tickets
          /\ comments[c].at <= tickets[comments[c].ticket].updated
          /\ tickets[comments[c].ticket].updated <= clock
          /\ tickets[comments[c].ticket].updated \in Nat /\ clock \in Nat
      BY <1>0, Times DEF Dated
    <3> QED
      BY <3>1
  <2>3. \A c \in Comments : comments[c] \in [ticket : Tickets, at : 0 .. clock]
    BY <2>1, <2>2
  <2> QED
    BY <2>1, <2>3
<1>3. disk \subseteq PollState /\ Cardinality(disk) <= 1
  <2>1. CASE disk = {}
    BY <2>1, FS_EmptySet
  <2>2. CASE \E s \in PollState : disk = {s}
    BY <2>2, FS_Singleton
  <2> QED
    BY <1>0, <2>1, <2>2 DEF Shapes
<1>4. poll.start \in 0 .. clock
  BY <1>0, Times DEF Dated
<1>5. \A s \in disk \cup poll.next \cup {state} :
         s.plans \subseteq s.announced /\ s.announced \cap s.embedded = {}
  BY DEF States, Sorted
<1>6. /\ poll.stage \in {"down", "idle", "search", "read", "dispatch", "turn", "post"}
      /\ poll.search \in 1 .. 4
      /\ poll.todo \subseteq Views /\ poll.views \subseteq Views
      /\ poll.jobs \subseteq Jobs /\ poll.turn \subseteq Jobs
      /\ poll.next \subseteq PollState /\ poll.attempts \in 0 .. PostRetries
  BY <1>0 DEF Shapes, Polls, Stages
<1>7. clock \in 1 .. MaxClock /\ source \in {"issues", "linear"} /\ state \in PollState
  BY <1>0 DEF Shapes
<1>8. (poll.stage \in {"turn", "post"}) <=> (poll.turn # {})
  BY <1>0 DEF Steps
<1> QED
  BY <1>1, <1>2, <1>3, <1>4, <1>5, <1>6, <1>7, <1>8 DEF TypeOK

(* Every state is of its type, the plans that are remembered are those of    *)
(* announced tickets, and none is both announced as work and in discussion. *)
THEOREM EventTypes == Spec => []TypeOK
<1>1. Init => Base /\ States
  <2>1. ASSUME Init PROVE States
    <3>1. /\ state = StartingNow(1) /\ disk \in {{}, {state}} /\ poll.next = {}
      BY <2>1, IdleTyped DEF Init
    <3>2. Sorted(StartingNow(1))
      BY StartingTyped, Bounds
    <3> QED
      BY <3>1, <3>2 DEF States
  <2> QED
    BY <2>1, InitBase
<1>2. Base /\ States /\ [Next]_vars => (Base /\ States)'
  BY StepBase, StepStates
<1>3. Base /\ States => TypeOK
  BY TypesHold
<1> QED
  BY <1>1, <1>2, <1>3, PTL DEF Spec

-----------------------------------------------------------------------------
(* NothingLost: what is behind a cursor is accounted for, and of what is    *)
(* older than the tick under way and newer than its cursor, nothing that a  *)
(* search was about slips through.                                          *)

Accounted(c) == \/ c \in history.handled \cup history.excused
                \/ comments[c].at \in history.gaps

ClearTo(t) == \A c \in Comments : comments[c].at \in 1 .. t => Accounted(c)

Cursors == \A s \in disk \cup {state} : ClearTo(s.lastPoll) /\ s.lastPoll \in history.gaps

Owed(c) == /\ comments[c].ticket \in history.inScope
           /\ state.lastPoll < comments[c].at /\ comments[c].at < poll.start

Fetched == poll.stage \in {"search", "read"} =>
    \A c \in Comments : Owed(c) => \/ \E v \in poll.todo : v.ticket = comments[c].ticket
                                   \/ \E v \in poll.views : c \in v.comments

Handed == poll.stage \in {"dispatch", "turn", "post"} =>
    \A c \in Comments : Owed(c) => \/ c \in history.handled
                                   \/ \E job \in poll.jobs : c \in job.comments

LEMMA CursorsStay ==
    ASSUME Cursors, comments' = comments,
           history.handled \subseteq history'.handled, history.excused \subseteq history'.excused,
           history.gaps \subseteq history'.gaps,
           \A s \in disk' \cup {state'} : s \in disk \cup {state}
    PROVE  Cursors'
BY DEF Cursors, ClearTo, Accounted

(* A comment written in the second of a cursor is in a gap. *)
LEMMA PeopleCursors == ASSUME Base, Cursors, People PROVE Cursors'
<1>1. /\ UNCHANGED <<state, disk>> /\ SameHistory
      /\ \A c \in Comments : comments'[c].at = comments[c].at \/ comments'[c].at = clock
  BY PeopleDo DEF Base
<1>2. \A s \in disk \cup {state} : s.lastPoll \in Nat /\ s.lastPoll <= clock /\ clock \in Nat
  BY Times, Orders DEF Base, Dated
<1>3. ASSUME NEW s \in disk \cup {state}, NEW c \in Comments, comments'[c].at \in 1 .. s.lastPoll
      PROVE  Accounted(c)'
  <2>1. CASE comments'[c].at = comments[c].at
    BY <1>1, <1>3, <2>1 DEF Cursors, ClearTo, Accounted, SameHistory
  <2>2. CASE comments'[c].at = clock
    <3>1. clock = s.lastPoll
      BY <1>2, <1>3, <2>2
    <3> QED
      BY <1>1, <2>2, <3>1 DEF Cursors, Accounted, SameHistory
  <2> QED
    BY <1>1, <2>1, <2>2
<1> QED
  BY <1>1, <1>3 DEF Cursors, ClearTo, SameHistory

LEMMA BootCursors == ASSUME Base, Cursors, Boot PROVE Cursors'
<1>0. Shapes /\ Dated
  BY DEF Base
<1>1. Still /\ disk' = disk
  BY <1>0, BootDoes
<1>2. CASE state' = StartingNow(clock) /\ history'.gaps = 1 .. clock
  <2>1. state'.lastPoll = clock
    BY <1>0, <1>2, StartingTyped DEF Shapes
  <2>3. \A s \in disk' \cup {state'} : s.lastPoll \in 1 .. clock
    <3>1. \A s \in disk : s.lastPoll \in 1 .. MaxClock /\ s.lastPoll <= clock
      BY <1>0, Times, Orders DEF Dated, Shapes, PollState
    <3> QED
      BY <1>0, <1>1, <2>1, <3>1, Times, Bounds
  <2>4. \A n \in 1 .. clock : 1 .. n \subseteq 1 .. clock
    BY <1>0, Times
  <2> QED
    BY <1>1, <1>2, <2>3, <2>4 DEF Cursors, ClearTo, Accounted
<1>3. CASE disk = {state'} /\ UNCHANGED history
  BY <1>1, <1>3, CursorsStay DEF Still
<1> QED
  BY <1>0, <1>2, <1>3, BootDoes

(* The tick's cursor: what is older than the tick was handled or excused,  *)
(* and the rest lies in the gap between its start and its decision.        *)
LEMMA EndTickCursors == ASSUME Base, Cursors, Handed, EndTick PROVE Cursors'
<1>0. Shapes /\ Dated
  BY DEF Base
<1>1. PICK next \in poll.next :
      /\ Still /\ poll.stage = "dispatch" /\ poll.jobs = {} /\ state' = next
      /\ disk' = {next} \/ disk' = disk
      /\ history'.handled = history.handled
      /\ history'.gaps = history.gaps \cup (poll.start .. next.lastPoll)
      /\ history'.excused = history.excused \cup
            {c \in Comments : /\ comments[c].ticket \notin history.inScope
                              /\ comments[c].at \in 1 .. next.lastPoll}
  BY EndTickDoes
<1>2. /\ poll.start \in Nat /\ next.lastPoll \in Nat /\ state.lastPoll \in Nat
      /\ poll.start <= next.lastPoll
  BY <1>0, <1>1, Times DEF Dated
<1>3. ASSUME NEW c \in Comments, comments[c].at \in 1 .. next.lastPoll PROVE Accounted(c)'
  <2>0. comments[c].at \in Nat /\ comments' = comments
    BY <1>0, <1>1, Times DEF Still
  <2>1. CASE comments[c].at <= state.lastPoll
    <3>1. comments[c].at \in 1 .. state.lastPoll
      BY <1>2, <1>3, <2>0, <2>1
    <3>2. Accounted(c)
      BY <3>1 DEF Cursors, ClearTo
    <3> QED
      BY <1>1, <2>0, <3>2 DEF Accounted
  <2>2. CASE comments[c].at >= poll.start
    <3>1. comments[c].at \in poll.start .. next.lastPoll
      BY <1>2, <1>3, <2>0, <2>2
    <3> QED
      BY <1>1, <2>0, <3>1 DEF Accounted
  <2>3. CASE comments[c].ticket \notin history.inScope
    BY <1>1, <1>3, <2>0, <2>3 DEF Accounted
  <2>4. CASE /\ comments[c].ticket \in history.inScope
             /\ ~(comments[c].at <= state.lastPoll) /\ ~(comments[c].at >= poll.start)
    <3>1. state.lastPoll < comments[c].at /\ comments[c].at < poll.start
      BY <1>2, <2>0, <2>4
    <3>2. c \in history.handled
      BY <1>1, <2>4, <3>1 DEF Owed, Handed
    <3> QED
      BY <1>1, <2>0, <3>2 DEF Accounted
  <2> QED
    BY <2>1, <2>2, <2>3, <2>4
<1>4. ClearTo(next.lastPoll)' /\ next.lastPoll \in history'.gaps
  <2>1. next.lastPoll \in poll.start .. next.lastPoll
    BY <1>2
  <2>2. comments' = comments
    BY <1>1 DEF Still
  <2> QED
    BY <1>1, <1>3, <2>1, <2>2 DEF ClearTo
<1>5. \A s \in disk : ClearTo(s.lastPoll)' /\ s.lastPoll \in history'.gaps
  BY <1>1 DEF Cursors, ClearTo, Accounted, Still
<1>6. \A s \in disk' \cup {state'} : s = next \/ s \in disk
  BY <1>1
<1> QED
  BY <1>4, <1>5, <1>6 DEF Cursors, ClearTo

LEMMA StepCursors == Base /\ Cursors /\ Handed /\ [Next]_vars => Cursors'
<1> SUFFICES ASSUME Base, Cursors, Handed, [Next]_vars PROVE Cursors'
  OBVIOUS
<1>0. Shapes
  BY DEF Base
<1>1. ASSUME comments' = comments, disk' = disk, state' = state, SameHistory PROVE Cursors'
  BY <1>1, CursorsStay DEF SameHistory
<1>2. ASSUME comments' = comments, disk' = disk, state' = state, history' = history PROVE Cursors'
  BY <1>2, CursorsStay
<1>3. CASE StartTick
  BY <1>0, <1>1, <1>3, StartTickDoes DEF Still
<1>4. CASE Search
  BY <1>0, <1>1, <1>4, SearchDoes DEF Still
<1>5. CASE FetchAssigned
  BY <1>0, <1>1, <1>5, FetchAssignedDoes DEF Still
<1>6. CASE NextSearch
  BY <1>0, <1>2, <1>6, NextSearchDoes DEF Still
<1>7. CASE Decide
  BY <1>0, <1>2, <1>7, DecideDoes DEF Still
<1>8. CASE \E v \in poll.todo : ReadComments(v)
  BY <1>0, <1>2, <1>8, ReadCommentsDoes DEF Still
<1>9. CASE \E job \in poll.jobs : Dispatch(job)
  BY <1>0, <1>9, DispatchDoes, CursorsStay DEF Still
<1>10. CASE TurnReturns
  BY <1>0, <1>2, <1>10, TurnReturnsDoes DEF Still
<1>11. CASE Post \/ PostFails
  BY <1>0, <1>1, <1>11, PostDoes
<1>12. CASE FetchFails \/ Kill
  BY <1>0, <1>1, <1>12, BreakDoes DEF Still
<1>13. CASE UNCHANGED vars
  BY <1>2, <1>13 DEF vars
<1> QED
  BY <1>3, <1>4, <1>5, <1>6, <1>7, <1>8, <1>9, <1>10, <1>11, <1>12, <1>13,
     PeopleCursors, BootCursors, EndTickCursors, Cases

(* A search finds every ticket it is about that has a new comment, unless  *)
(* the tick has its view already.                                          *)
LEMMA SearchFetched == ASSUME Base, Fetched, Search PROVE Fetched'
<1>0. Shapes /\ Steps /\ Dated /\ poll.search \in 1 .. 4
  BY DEF Base, Shapes, Polls
<1> DEFINE mode == ModeOf(poll.search)
<1>1. /\ Still /\ state' = state /\ history'.inScope = history.inScope \cup Role(poll.search)
      /\ poll.stage = "search" /\ poll'.start = poll.start
      /\ poll.views \subseteq poll'.views
      /\ \A k \in Found(poll.search) :
            WantsComments(k, mode) => \E v \in poll'.todo : v.ticket = k
  BY <1>0, SearchDoes
<1> HIDE DEF mode
<1>2. ASSUME NEW c \in Comments, Owed(c)'
      PROVE  \/ \E v \in poll'.todo : v.ticket = comments[c].ticket
             \/ \E v \in poll'.views : c \in v.comments
  <2> DEFINE k == comments[c].ticket
  <2>1. /\ comments' = comments
        /\ k \in history.inScope \cup Role(poll.search)
        /\ state.lastPoll < comments[c].at /\ comments[c].at < poll.start
    BY <1>1, <1>2 DEF Owed, Still
  <2>2. CASE k \in history.inScope
    <3>1. \E v \in poll.views : c \in v.comments
      BY <1>0, <1>1, <2>1, <2>2 DEF Owed, Fetched, Steps
    <3> QED
      BY <1>1, <3>1
  <2>3. CASE k \notin history.inScope
    <3>1. k \in Role(poll.search) /\ k \notin {v.ticket : v \in poll.views}
      BY <1>0, <2>1, <2>3 DEF Steps
    <3>2. Changed(k)
      <4>1. /\ comments[c].at <= tickets[k].updated /\ comments[c].at \in Nat
            /\ tickets[k].updated \in Nat /\ state.lastPoll \in Nat
        BY <1>0, Times DEF Dated
      <4>2. tickets[k].updated > state.lastPoll
        BY <2>1, <4>1
      <4> QED
        BY <4>2 DEF Changed
    <3>3. k \in Found(poll.search) /\ WantsComments(k, mode)
      BY <3>1, <3>2 DEF Found, WantsComments
    <3> QED
      BY <1>1, <3>3
  <2> QED
    BY <2>2, <2>3
<1> QED
  BY <1>1, <1>2 DEF Fetched, Still

LEMMA ReadFetched ==
    ASSUME Base, Fetched, NEW v \in poll.todo, ReadComments(v) PROVE Fetched'
<1>0. Shapes
  BY DEF Base
<1>1. PICK w \in Views : /\ poll'.views = poll.views \cup {w}
                         /\ w.comments = Visible(v.ticket)
  BY <1>0, ReadCommentsDoes
<1>2. /\ Still /\ UNCHANGED <<state, history>> /\ poll.stage = "read"
      /\ poll'.todo = poll.todo \ {v} /\ poll'.start = poll.start
  BY <1>0, ReadCommentsDoes
<1>3. ASSUME NEW c \in Comments, Owed(c)'
      PROVE  \/ \E u \in poll'.todo : u.ticket = comments[c].ticket
             \/ \E u \in poll'.views : c \in u.comments
  <2>1. Owed(c)
    BY <1>2, <1>3 DEF Owed, Still
  <2>2. CASE v.ticket = comments[c].ticket
    <3>1. comments[c].at # Unseen
      BY <1>0, <2>1, Times DEF Owed, Unseen
    <3>2. c \in w.comments
      BY <1>1, <2>2, <3>1 DEF Visible
    <3> QED
      BY <1>1, <3>2
  <2>3. CASE v.ticket # comments[c].ticket
    BY <1>1, <1>2, <2>1, <2>3 DEF Fetched
  <2> QED
    BY <2>2, <2>3
<1> QED
  BY <1>2, <1>3 DEF Fetched, Still

LEMMA FetchAssignedFetched == ASSUME Base, FetchAssigned PROVE Fetched'
<1>0. Shapes
  BY DEF Base
<1>1. /\ Still /\ state' = state /\ history'.inScope = Role(1) /\ poll'.start = poll.start
      /\ poll'.views = {View(k, "work", Visible(k)) : k \in Role(1)}
      /\ \A k \in Role(1) : View(k, "work", Visible(k)).comments = Visible(k)
  BY <1>0, FetchAssignedDoes
<1>2. ASSUME NEW c \in Comments, Owed(c)' PROVE \E v \in poll'.views : c \in v.comments
  <2>1. comments[c].ticket \in Role(1) /\ state.lastPoll < comments[c].at
    BY <1>1, <1>2 DEF Owed, Still
  <2>2. comments[c].at # Unseen
    BY <1>0, <2>1, Times DEF Unseen
  <2>3. c \in Visible(comments[c].ticket)
    BY <2>2 DEF Visible
  <2> QED
    BY <1>1, <2>1, <2>3
<1> QED
  BY <1>2 DEF Fetched

LEMMA DecideHanded == ASSUME Base, Fetched, Decide PROVE Handed'
<1>0. Shapes
  BY DEF Base
<1>1. /\ Still /\ UNCHANGED <<state, history>> /\ poll.stage = "read" /\ poll.todo = {}
      /\ poll'.start = poll.start /\ poll'.jobs = UNION {Turns(v) : v \in poll.views}
  BY <1>0, DecideDoes
<1>2. ASSUME NEW c \in Comments, Owed(c)' PROVE \E job \in poll'.jobs : c \in job.comments
  <2>1. Owed(c)
    BY <1>1, <1>2 DEF Owed, Still
  <2>2. PICK v \in poll.views : c \in v.comments
    BY <1>1, <2>1 DEF Fetched
  <2>3. v \in Views /\ comments[c].at > state.lastPoll
    BY <1>0, <2>1, Times DEF Shapes, Polls, Owed
  <2>4. c \in NewComments(v)
    BY <2>2, <2>3 DEF NewComments
  <2>5. \E job \in Turns(v) : c \in job.comments
    BY <2>3, <2>4, TurnsOf
  <2> QED
    BY <1>1, <2>5
<1> QED
  BY <1>2 DEF Handed

LEMMA TurnHanded ==
    ASSUME Base, Handed,
           \/ \E job \in poll.jobs : Dispatch(job)
           \/ TurnReturns \/ Post \/ PostFails
    PROVE  Handed'
<1>0. Shapes
  BY DEF Base
<1>1. /\ comments' = comments /\ state' = state /\ history'.inScope = history.inScope
      /\ poll'.start = poll.start /\ poll.stage \in {"dispatch", "turn", "post"}
      /\ history.handled \subseteq history'.handled
      /\ \A job \in poll.jobs : job \in poll'.jobs \/ job.comments \subseteq history'.handled
  <2>1. CASE \E job \in poll.jobs : Dispatch(job)
    BY <1>0, <2>1, DispatchDoes DEF Still
  <2>2. CASE TurnReturns
    BY <1>0, <2>2, TurnReturnsDoes DEF Still
  <2>3. CASE Post \/ PostFails
    BY <1>0, <2>3, PostDoes DEF SameHistory
  <2> QED
    BY <2>1, <2>2, <2>3
<1>2. \A c \in Comments : Owed(c)' => Owed(c)
  BY <1>1 DEF Owed
<1> QED
  BY <1>1, <1>2 DEF Handed

(* What is written during a tick is no older than the tick. *)
LEMMA PeopleOwed ==
    ASSUME Base, People, poll.stage \notin {"idle", "down"}, NEW c \in Comments, Owed(c)'
    PROVE  Owed(c) /\ comments'[c].ticket = comments[c].ticket
<1>1. /\ UNCHANGED <<state, poll>> /\ history'.inScope = history.inScope
      /\ comments'[c].ticket = comments[c].ticket
      /\ comments'[c].at = comments[c].at \/ comments'[c].at = clock
  BY PeopleDo DEF Base
<1>2. poll.start <= clock /\ poll.start \in Nat /\ clock \in Nat
  BY Times DEF Base, Dated
<1>3. comments'[c].at # clock
  BY <1>1, <1>2 DEF Owed
<1> QED
  BY <1>1, <1>3 DEF Owed

LEMMA StepOwed == Base /\ Fetched /\ Handed /\ [Next]_vars => (Fetched /\ Handed)'
<1> SUFFICES ASSUME Base, Fetched, Handed, [Next]_vars PROVE (Fetched /\ Handed)'
  OBVIOUS
<1>0. Shapes
  BY DEF Base
<1>1. ASSUME poll'.stage \in {"idle", "down"} PROVE (Fetched /\ Handed)'
  BY <1>1 DEF Fetched, Handed
<1>2. CASE People
  <2>1. UNCHANGED poll /\ history'.handled = history.handled
    BY <1>0, <1>2, PeopleDo DEF SameHistory
  <2>2. \A c \in Comments : poll.stage \notin {"idle", "down"} /\ Owed(c)' =>
           Owed(c) /\ comments'[c].ticket = comments[c].ticket
    BY <1>2, PeopleOwed
  <2>3. Fetched'
    BY <2>1, <2>2 DEF Fetched
  <2>4. Handed'
    BY <2>1, <2>2 DEF Handed
  <2> QED
    BY <2>3, <2>4
<1>3. CASE Boot
  BY <1>0, <1>1, <1>3, BootDoes, IdleTyped
<1>4. CASE StartTick
  BY <1>0, <1>4, StartTickDoes DEF Fetched, Handed, Owed
<1>5. CASE Search
  BY <1>0, <1>5, SearchDoes, SearchFetched DEF Handed
<1>6. CASE FetchAssigned
  BY <1>0, <1>6, FetchAssignedDoes, FetchAssignedFetched DEF Handed
<1>7. CASE NextSearch
  BY <1>0, <1>7, NextSearchDoes DEF Fetched, Handed, Owed, Still
<1>8. CASE Decide
  BY <1>0, <1>8, DecideDoes, DecideHanded DEF Fetched
<1>9. CASE \E v \in poll.todo : ReadComments(v)
  BY <1>0, <1>9, ReadCommentsDoes, ReadFetched DEF Handed
<1>10. CASE (\E job \in poll.jobs : Dispatch(job)) \/ TurnReturns \/ Post \/ PostFails
  <2>1. poll'.stage \in {"dispatch", "turn", "post"}
    BY <1>0, <1>10, DispatchDoes, TurnReturnsDoes, PostDoes
  <2> QED
    BY <1>10, <2>1, TurnHanded DEF Fetched
<1>11. CASE EndTick
  BY <1>1, <1>11, EndTickDoes, IdleTyped
<1>12. CASE FetchFails \/ Kill
  BY <1>0, <1>1, <1>12, BreakDoes
<1>13. CASE UNCHANGED vars
  BY <1>13 DEF Fetched, Handed, Owed, vars
<1> QED
  BY <1>2, <1>3, <1>4, <1>5, <1>6, <1>7, <1>8, <1>9, <1>10, <1>11, <1>12, <1>13, Cases

LEMMA InitCursors == Init => Cursors /\ Fetched /\ Handed
<1> SUFFICES ASSUME Init PROVE Cursors /\ Fetched /\ Handed
  OBVIOUS
<1>1. /\ state.lastPoll = 1 /\ disk \subseteq {state} /\ history.gaps = {1}
      /\ poll.stage = "idle" /\ poll.jobs = {}
  <2>1. state = StartingNow(1) /\ disk \in {{}, {state}} /\ poll = Idle /\ history.gaps = {1}
    BY DEF Init
  <2> QED
    BY <2>1, StartingTyped, Bounds, IdleTyped
<1>2. \A c \in Comments : comments[c].at = 0
  BY DEF Init, Unseen
<1> QED
  BY <1>1, <1>2 DEF Cursors, ClearTo, Fetched, Handed

(* A comment that fell behind the cursor was in a turn, unless no search of  *)
(* the tick was about its ticket, or it was written between the start of a   *)
(* tick and its decision.                                                    *)
THEOREM EventNothingLost == Spec => []NothingLost
<1> DEFINE IInv == Base /\ Cursors /\ Fetched /\ Handed
<1>1. Init => IInv
  BY InitBase, InitCursors
<1>2. IInv /\ [Next]_vars => IInv'
  BY StepBase, StepCursors, StepOwed
<1>3. IInv => NothingLost
  <2> SUFFICES ASSUME IInv, NEW c \in Comments, Behind(c) PROVE Accounted(c)
    BY DEF NothingLost, Accounted
  <2>1. Shapes
    BY DEF Base
  <2>2. CASE poll.stage # "down"
    BY <2>2 DEF Behind, Cursor, Cursors, ClearTo
  <2>3. CASE poll.stage = "down" /\ disk = {}
    <3>1. comments[c].at \in 1 .. 0
      BY <2>3 DEF Behind, Cursor, Unseen
    <3>2. FALSE
      BY <3>1
    <3> QED
      BY <3>2
  <2>4. CASE poll.stage = "down" /\ disk # {}
    <3>1. PICK s \in disk : disk = {s}
      BY <2>1, <2>4 DEF Shapes
    <3>2. comments[c].at \in 1 .. s.lastPoll
      BY <2>4, <3>1 DEF Behind, Cursor
    <3> QED
      BY <3>1, <3>2 DEF Cursors, ClearTo
  <2> QED
    BY <2>2, <2>3, <2>4
<1> HIDE DEF IInv
<1> QED
  BY <1>1, <1>2, <1>3, PTL DEF Spec

-----------------------------------------------------------------------------
(* NotAgain: what is done is covered by what the poller remembers.  Every  *)
(* comment that was handed to a turn is no newer than the cursor, or than  *)
(* the one that the tick will store, and every announcement that stands    *)
(* before a tick's turns is of an announced ticket; the document covers    *)
(* what was done when it was written in the same way.                      *)

Wrote(c) == comments[c].at # Unseen

Covered ==
    /\ \A c \in history.saved.said : Wrote(c) /\ \E s \in disk : comments[c].at <= s.lastPoll
    /\ \A k \in history.saved.work : \E s \in disk : k \in s.announced
    /\ poll.stage = "down" => history.done = history.saved
    /\ poll.stage \in {"idle", "search", "read"} =>
          /\ history.done.work \subseteq state.announced
          /\ \A c \in history.done.said : Wrote(c) /\ comments[c].at <= state.lastPoll
    /\ poll.stage \in {"dispatch", "turn", "post"} =>
          \A c \in history.done.said :
             Wrote(c) /\ \A s \in poll.next : comments[c].at <= s.lastPoll

(* A view carries comments that its ticket has. *)
Read ==
    \A v \in poll.todo \cup poll.views : \A c \in v.comments :
       comments[c].ticket = v.ticket /\ Wrote(c)

(* What a turn still to come has to say that no turn has said. *)
News(job) == IF Announces(job) THEN job.ticket \notin history.done.work
             ELSE ~(job.comments \subseteq history.done.said)

(* The turns still to come: each has news, and none takes another's. *)
Queued ==
    /\ \A job \in poll.jobs :
          /\ News(job)
          /\ \A c \in job.comments : Wrote(c) /\ \A s \in poll.next : comments[c].at <= s.lastPoll
    /\ \A a, b \in poll.jobs : a # b =>
          /\ a.comments \cap b.comments = {}
          /\ Announces(a) /\ Announces(b) => a.ticket # b.ticket

(* A comment is written once. *)
LEMMA PeopleWrote ==
    ASSUME Base, People, NEW c \in Comments, Wrote(c)
    PROVE  comments'[c] = comments[c]
<1>1. /\ comments \in Notes /\ comments' \in Notes
      /\ comments'[c].ticket = comments[c].ticket
      /\ comments'[c].at = comments[c].at
  BY PeopleDo DEF Base, Shapes, Wrote
<1> QED
  BY <1>1 DEF Notes

LEMMA KnownComments ==
    ASSUME Base
    PROVE  /\ history.done.said \subseteq Comments /\ history.saved.said \subseteq Comments
           /\ \A v \in poll.todo \cup poll.views : v.comments \subseteq Comments
           /\ \A job \in poll.jobs : job.comments \subseteq Comments
BY DEF Base, Shapes, Histories, Polls, Views, Jobs

LEMMA PeopleNews ==
    ASSUME Base, Covered, Read, Queued, People PROVE (Covered /\ Read /\ Queued)'
<1>1. UNCHANGED <<state, disk, poll>> /\ SameDone
  BY PeopleDo DEF Base
<1>2. \A c \in Comments : Wrote(c) => comments'[c] = comments[c]
  BY PeopleWrote
<1>3. Covered'
  BY <1>1, <1>2, KnownComments DEF Covered, Wrote, SameDone
<1>4. Read'
  BY <1>1, <1>2, KnownComments DEF Read, Wrote
<1>5. Queued'
  BY <1>1, <1>2, KnownComments DEF Queued, News, Announces, Wrote, SameDone
<1> QED
  BY <1>3, <1>4, <1>5

LEMMA BootNews ==
    ASSUME Base, Covered, Boot PROVE (Covered /\ Read /\ Queued)'
<1>0. Shapes /\ Dated
  BY DEF Base
<1>1. /\ Still /\ disk' = disk /\ poll.stage = "down" /\ poll'.stage = "idle"
      /\ poll'.todo = {} /\ poll'.views = {} /\ poll'.jobs = {}
  BY <1>0, BootDoes, IdleTyped
<1>2. history'.saved = history.saved
  BY <1>0, BootDoes
<1>3. history.done = history.saved
  BY <1>1 DEF Covered
<1>4. /\ history'.done.work \subseteq state'.announced
      /\ \A c \in history'.done.said : Wrote(c) /\ comments[c].at <= state'.lastPoll
  <2>1. CASE disk = {state'} /\ UNCHANGED history
    BY <1>3, <2>1 DEF Covered
  <2>2. CASE /\ state' = StartingNow(clock)
             /\ history'.done.said = history.done.said /\ history'.done.work = {}
    <3>1. state'.lastPoll = clock
      BY <1>0, <2>2, StartingTyped DEF Shapes
    <3>2. \A c \in Comments : comments[c].at <= clock
      <4> TAKE c \in Comments
      <4>1. /\ comments[c].at <= tickets[comments[c].ticket].updated
            /\ comments[c].ticket \in Tickets
            /\ tickets[comments[c].ticket].updated <= clock
        BY <1>0, Times DEF Dated
      <4> QED
        BY <1>0, <4>1, Times, Orders
    <3> QED
      BY <1>3, <2>2, <3>1, <3>2, KnownComments DEF Covered
  <2> QED
    BY <1>0, <2>1, <2>2, BootDoes
<1>5. Covered'
  BY <1>1, <1>2, <1>4 DEF Covered, Wrote, Still
<1> QED
  BY <1>1, <1>5 DEF Read, Queued

LEMMA FetchNews ==
    ASSUME Base, Covered, Read,
           \/ StartTick \/ Search \/ FetchAssigned \/ NextSearch
           \/ \E v \in poll.todo : ReadComments(v)
    PROVE  (Covered /\ Read /\ Queued)'
<1>0. Shapes /\ Steps
  BY DEF Base
<1>1. /\ Still /\ UNCHANGED <<state, disk>> /\ SameDone
      /\ poll.stage \in {"idle", "search", "read"} /\ poll'.stage \in {"search", "read"}
      /\ poll'.jobs = poll.jobs
  <2>1. CASE StartTick
    BY <1>0, <2>1, StartTickDoes DEF Steps
  <2>2. CASE Search
    BY <1>0, <2>2, SearchDoes
  <2>3. CASE FetchAssigned
    BY <1>0, <2>3, FetchAssignedDoes
  <2>4. CASE NextSearch
    BY <1>0, <2>4, NextSearchDoes DEF SameDone
  <2>5. CASE \E v \in poll.todo : ReadComments(v)
    BY <1>0, <2>5, ReadCommentsDoes DEF SameDone
  <2> QED
    BY <2>1, <2>2, <2>3, <2>4, <2>5
<1>2. Covered'
  BY <1>1 DEF Covered, Wrote, Still, SameDone
<1>3. Queued'
  BY <1>0, <1>1 DEF Steps, Queued
<1>4. \A k \in Tickets : \A c \in Visible(k) : comments[c].ticket = k /\ Wrote(c)
  BY DEF Visible, Wrote
<1>5. \A v \in poll'.todo \cup poll'.views :
         \/ v \in poll.todo \cup poll.views
         \/ v.comments = {}
         \/ v.ticket \in Tickets /\ v.comments = Visible(v.ticket)
  <2>1. CASE StartTick
    BY <1>0, <2>1, StartTickDoes
  <2>2. CASE Search
    <3>1. \A v \in poll'.todo \cup poll'.views :
             \/ v \in poll.views
             \/ v = View(v.ticket, ModeOf(poll.search), {})
      BY <1>0, <2>2, SearchDoes
    <3>2. \A k, mode : View(k, mode, {}).comments = {}
      BY DEF View
    <3> QED
      BY <3>1, <3>2
  <2>3. CASE FetchAssigned
    <3>1. /\ poll'.views = {View(k, "work", Visible(k)) : k \in Role(1)}
          /\ poll'.todo = poll.todo
          /\ \A k \in Role(1) : /\ View(k, "work", Visible(k)).ticket = k
                                /\ View(k, "work", Visible(k)).comments = Visible(k)
      BY <1>0, <2>3, FetchAssignedDoes
    <3>2. Role(1) \subseteq Tickets
      BY RoleTyped
    <3> QED
      BY <3>1, <3>2
  <2>4. CASE NextSearch
    BY <1>0, <2>4, NextSearchDoes
  <2>5. CASE \E v \in poll.todo : ReadComments(v)
    <3>1. PICK v \in poll.todo : ReadComments(v)
      BY <2>5
    <3>2. v \in Views /\ v.ticket \in Tickets
      BY <1>0 DEF Shapes, Polls, Views
    <3> QED
      BY <1>0, <3>1, <3>2, ReadCommentsDoes
  <2> QED
    BY <2>1, <2>2, <2>3, <2>4, <2>5
<1>6. Read'
  BY <1>1, <1>4, <1>5 DEF Read, Wrote, Still
<1> QED
  BY <1>2, <1>3, <1>6

LEMMA DecideNews ==
    ASSUME Base, Covered, Read, Decide PROVE (Covered /\ Read /\ Queued)'
<1> DEFINE next == NextState(poll.views)
<1>0. Shapes /\ Dated /\ poll.views \in SUBSET Views
  BY DEF Base, Shapes, Polls
<1>1. /\ Still /\ UNCHANGED <<state, disk, history>> /\ poll.stage = "read"
      /\ poll'.stage = "dispatch" /\ poll'.todo = {} /\ poll'.views = {}
      /\ poll'.jobs = UNION {Turns(v) : v \in poll.views} /\ poll'.next = {next}
  BY <1>0, DecideDoes
<1>2. next.lastPoll = clock
  BY <1>0, NextStateTyped DEF Shapes
<1> HIDE DEF next
<1>3. \A c \in Comments : /\ comments[c].at \in Nat /\ comments[c].at <= clock
  <2> TAKE c \in Comments
  <2>1. /\ comments[c].at <= tickets[comments[c].ticket].updated
        /\ comments[c].ticket \in Tickets
        /\ tickets[comments[c].ticket].updated <= clock
    BY <1>0, Times DEF Dated
  <2> QED
    BY <1>0, <2>1, Times, Orders
<1>4. /\ history.done.work \subseteq state.announced
      /\ \A c \in history.done.said : Wrote(c) /\ comments[c].at <= state.lastPoll
  BY <1>1 DEF Covered
<1>5. Covered'
  BY <1>1, <1>2, <1>3, <1>4, KnownComments DEF Covered, Wrote, Still
<1>6. ASSUME NEW v \in poll.views, NEW job \in Turns(v)
      PROVE  /\ job.ticket = v.ticket /\ job.comments \subseteq v.comments
             /\ News(job)
             /\ \A c \in job.comments : /\ Wrote(c) /\ comments[c].ticket = v.ticket
                                        /\ comments[c].at <= clock
  <2>1. /\ job.ticket = v.ticket /\ job.comments \subseteq v.comments /\ v \in Views
        /\ Announces(job) => job.ticket \notin state.announced
        /\ ~Announces(job) => \E c \in job.comments : c \in NewComments(v)
    BY <1>0, TurnsOf
  <2>2. \A c \in NewComments(v) : c \notin history.done.said
    <3>1. \A c \in NewComments(v) : c \in Comments /\ comments[c].at > state.lastPoll
      BY <2>1, NewTyped DEF NewComments
    <3>2. state.lastPoll \in Nat
      BY <1>0, Times
    <3> QED
      BY <1>3, <1>4, <3>1, <3>2
  <2>3. News(job)
    BY <1>4, <2>1, <2>2 DEF News
  <2>4. \A c \in job.comments : /\ c \in Comments /\ Wrote(c) /\ comments[c].ticket = v.ticket
    BY <2>1, KnownComments DEF Read
  <2> QED
    BY <1>3, <2>1, <2>3, <2>4
<1>7. \A job \in poll'.jobs :
        /\ News(job)' /\ \A c \in job.comments : /\ Wrote(c)'
                                                 /\ comments'[c].at <= next.lastPoll
  BY <1>1, <1>2, <1>6 DEF News, Announces, Wrote, Still
<1>8. ASSUME NEW a \in poll'.jobs, NEW b \in poll'.jobs, a # b
      PROVE  /\ a.comments \cap b.comments = {}
             /\ Announces(a) /\ Announces(b) => a.ticket # b.ticket
  <2>1. PICK v \in poll.views : a \in Turns(v)
    BY <1>1
  <2>2. PICK w \in poll.views : b \in Turns(w)
    BY <1>1
  <2>3. CASE v = w
    BY <1>0, <1>8, <2>1, <2>2, <2>3, TurnsOf
  <2>4. CASE v # w
    <3>1. v.ticket # w.ticket
      BY <2>4 DEF Base, Steps
    <3> QED
      BY <1>6, <2>1, <2>2, <3>1
  <2> QED
    BY <2>3, <2>4
<1>9. Queued'
  BY <1>1, <1>7, <1>8 DEF Queued, Announces
<1> QED
  BY <1>1, <1>5, <1>9 DEF Read

LEMMA DispatchNews ==
    ASSUME Base, Covered, Read, Queued, NEW job \in poll.jobs, Dispatch(job)
    PROVE  (Covered /\ Read /\ Queued)'
<1>1. /\ Still /\ UNCHANGED <<state, disk>> /\ poll.stage = "dispatch" /\ poll'.stage = "turn"
      /\ poll'.jobs = poll.jobs \ {job} /\ poll'.next = poll.next
      /\ poll'.todo = poll.todo /\ poll'.views = poll.views
      /\ history'.saved = history.saved
      /\ history'.done.work = history.done.work \cup {k \in {job.ticket} : Announces(job)}
      /\ history'.done.said = history.done.said \cup job.comments
  BY DispatchDoes DEF Base
<1>2. \A c \in job.comments : Wrote(c) /\ \A s \in poll.next : comments[c].at <= s.lastPoll
  BY DEF Queued
<1>3. Covered'
  BY <1>1, <1>2 DEF Covered, Wrote, Still
<1>4. ASSUME NEW other \in poll'.jobs PROVE News(other)'
  <2>1. /\ other \in poll.jobs /\ other # job /\ News(other)
        /\ other.comments \cap job.comments = {}
        /\ Announces(job) /\ Announces(other) => job.ticket # other.ticket
    BY <1>1 DEF Queued
  <2> QED
    BY <1>1, <2>1 DEF News, Announces
<1>5. Queued'
  BY <1>1, <1>4 DEF Queued, Announces, Wrote, Still
<1> QED
  BY <1>1, <1>3, <1>5 DEF Read, Wrote, Still

LEMMA TurnNews ==
    ASSUME Base, Covered, Read, Queued, TurnReturns \/ Post \/ PostFails
    PROVE  (Covered /\ Read /\ Queued)'
<1>0. Shapes
  BY DEF Base
<1>1. /\ UNCHANGED <<comments, state, disk>> /\ SameDone
      /\ poll.stage \in {"turn", "post"} /\ poll'.stage \in {"dispatch", "turn", "post"}
      /\ poll'.jobs = poll.jobs /\ poll'.todo = poll.todo /\ poll'.views = poll.views
      /\ \A s \in poll'.next : \E old \in poll.next : s.lastPoll = old.lastPoll
  <2>1. CASE TurnReturns
    BY <1>0, <2>1, TurnReturnsDoes DEF Still, SameDone
  <2>2. CASE Post \/ PostFails
    BY <1>0, <2>2, PostDoes
  <2> QED
    BY <2>1, <2>2
<1>2. Covered'
  BY <1>1 DEF Covered, Wrote, SameDone
<1>3. Queued'
  BY <1>1 DEF Queued, News, Announces, Wrote, SameDone
<1> QED
  BY <1>1, <1>2, <1>3 DEF Read, Wrote

LEMMA EndTickNews ==
    ASSUME Base, Covered, EndTick PROVE (Covered /\ Read /\ Queued)'
<1>1. /\ Still /\ poll.stage = "dispatch" /\ poll'.stage = "idle"
      /\ poll'.todo = {} /\ poll'.views = {} /\ poll'.jobs = {}
      /\ state' \in poll.next
      /\ \/ disk' = {state'} /\ history'.saved = history'.done
         \/ disk' = disk /\ history'.saved = history.saved
      /\ history'.done.work \subseteq state'.announced
      /\ history'.done.said = history.done.said
  BY EndTickDoes, IdleTyped
<1>2. \A c \in history'.done.said : Wrote(c) /\ comments[c].at <= state'.lastPoll
  BY <1>1 DEF Covered
<1>3. Covered'
  BY <1>1, <1>2 DEF Covered, Wrote, Still
<1> QED
  BY <1>1, <1>3 DEF Read, Queued

LEMMA BreakNews ==
    ASSUME Base, Covered, FetchFails \/ Kill PROVE (Covered /\ Read /\ Queued)'
<1>1. /\ Still /\ UNCHANGED <<state, disk>>
      /\ poll'.todo = {} /\ poll'.views = {} /\ poll'.jobs = {}
      /\ history'.saved = history.saved
      /\ \/ /\ poll'.stage = "idle" /\ history'.done = history.done
            /\ poll.stage \in {"search", "read"}
         \/ poll'.stage = "down" /\ history'.done = history.saved
  BY BreakDoes DEF Base
<1>2. Covered'
  BY <1>1 DEF Covered, Wrote, Still
<1> QED
  BY <1>1, <1>2 DEF Read, Queued

LEMMA StepNews == Base /\ Covered /\ Read /\ Queued /\ [Next]_vars => (Covered /\ Read /\ Queued)'
<1> SUFFICES ASSUME Base, Covered, Read, Queued, [Next]_vars PROVE (Covered /\ Read /\ Queued)'
  OBVIOUS
<1>1. CASE UNCHANGED vars
  BY <1>1 DEF Covered, Read, Queued, News, Announces, Wrote, vars
<1> QED
  BY <1>1, PeopleNews, BootNews, FetchNews, DecideNews, DispatchNews, TurnNews, EndTickNews,
     BreakNews, Cases

LEMMA InitNews == Init => Covered /\ Read /\ Queued
<1> SUFFICES ASSUME Init PROVE Covered /\ Read /\ Queued
  OBVIOUS
<1>1. /\ history.done.work = {} /\ history.done.said = {}
      /\ history.saved.work = {} /\ history.saved.said = {} /\ poll = Idle
  BY DEF Init, NothingDone
<1> QED
  BY <1>1, IdleTyped DEF Covered, Read, Queued

(* No turn repeats what a turn was already run for, whatever call or write   *)
(* failed and wherever the daemon was killed: none announces a ticket that   *)
(* was announced and has been found as work ever since, and any other brings *)
(* a comment that no turn brought before, of what the last successful write  *)
(* left done and what was done since (decide_events, save_json).             *)
THEOREM EventNotAgain == Spec => NotAgain
<1> DEFINE IInv == Base /\ Covered /\ Read /\ Queued
<1>1. Init => IInv
  BY InitBase, InitNews
<1>2. IInv /\ [Next]_vars => IInv'
  BY StepBase, StepNews
<1>3. IInv /\ [Next]_vars =>
        [\A job \in poll.jobs :
           Dispatch(job) =>
             IF Announces(job) THEN job.ticket \notin history.done.work
             ELSE ~(job.comments \subseteq history.done.said)]_vars
  BY DEF Queued, News
<1> HIDE DEF IInv
<1> QED
  BY <1>1, <1>2, <1>3, PTL DEF Spec, NotAgain
=============================================================================
