---------------------------- MODULE DutiesProofs ----------------------------
(***************************************************************************)
(* Theorems about Duties, for every value of its constants: the scheduler  *)
(* and the distiller keep an inductive invariant, from which the           *)
(* properties of the run follow.                                           *)
(*                                                                         *)
(* The invariant adds to the properties what they rest on while a duty, a  *)
(* turn or a pass is under way: how the end that a probe measured relates  *)
(* to the cursor and the source (Turning), what a pass carries relates to  *)
(* the watermarks in the database (Reading), what a restart would load to  *)
(* what has been done (Once, Ran), and how long a session has waited to    *)
(* its place in the next pass (Waiting).                                   *)
(***************************************************************************)
EXTENDS Duties, FiniteSetTheorems, WellFoundedInduction, TLAPS

-----------------------------------------------------------------------------
(* Shapes. *)

Cursored == {"review", "analysis"}

Budgets == [growth : 0 .. MaxGrowth, asked : 0 .. MaxAsked, faults : 0 .. MaxFaults]
DutyStates == [last : [Duties -> Positions], cursor : [Kinds -> Positions]]
Marks == [last : 0 .. NSessions, marks : [Sessions -> Nat]]
Disks == [duties : SUBSET DutyStates, fold : SUBSET Marks]
Runs == [stage : {"down", "check", "probe", "turn", "record", "sleep"},
         todo : SUBSET Duties, upTo : Nat, wake : Nat]
Passes == [stage : {"turn"}, duty : BOOLEAN, marks : [Sessions -> Nat],
           take : [Sessions -> Nat], last : 1 .. NSessions]
Histories == [handled : [Sources -> SUBSET Nat], skipped : [Sources -> SUBSET Nat],
              evicted : SUBSET Nat,
              redo : [Sources -> SUBSET Nat], twice : SUBSET (Sources \X Nat),
              ran : [Duties -> Positions], waited : [Sessions -> Nat]]

AtMostOne(S) == S = {} \/ \E x : S = {x}

Shapes ==
    /\ roster \in Rosters
    /\ clock \in 0 .. MaxClock
    /\ used \in Budgets
    /\ logs \in [Sources -> Nat]
    /\ memory \in DutyStates
    /\ disk \in Disks
    /\ AtMostOne(disk.duties) /\ AtMostOne(disk.fold)
    /\ run \in Runs
    /\ fold = NoFold \/ fold \in Passes
    /\ triggers \in Seq({0} \cup Duties) /\ Len(triggers) <= TriggerSlots
    /\ history \in Histories

Control ==
    /\ run.todo = {} <=> run.stage \in {"down", "check", "sleep"}
    /\ run.stage = "down" => fold = NoFold
    /\ fold.stage = "turn" /\ fold.duty =>
         run.stage = "turn" /\ roster[Current].kind = "distill"

Behind ==
    /\ \A s \in Sources : logs[s] <= used.growth
    /\ \A state \in {memory} \cup disk.duties : \A kind \in Cursored :
         state.cursor[kind] <= logs[SourceOf[kind]]
    /\ \A doc \in disk.fold : \A s \in Sessions : doc.marks[s] <= logs[s]

Turning ==
    run.stage = "turn" =>
        \A kind \in Cursored : roster[Current].kind = kind =>
            /\ memory.cursor[kind] \in 0 .. run.upTo
            /\ run.upTo <= logs[SourceOf[kind]]

Distance(s, last) == IF s[2] > last THEN s[2] - last - 1 ELSE s[2] - last - 1 + NSessions

Reading ==
    fold.stage = "turn" =>
        \E doc \in disk.fold :
            /\ fold.marks = doc.marks
            /\ \A s \in Sessions :
                 /\ fold.marks[s] + fold.take[s] <= logs[s]
                 /\ fold.take[s] = 0 /\ s \in Pending(fold.marks) =>
                        Distance(s, fold.last) < Distance(s, doc.last)

Saved == Load(disk.duties)

Loaded == IF run.stage = "down" THEN Saved ELSE memory

Once ==
    /\ \A s \in Sources : history.handled[s] \subseteq 1 .. logs[s]
    /\ \A kind \in Cursored : Loaded.cursor[kind] # Never =>
         \A i \in history.handled[SourceOf[kind]] :
            i > Loaded.cursor[kind] => i \in history.redo[SourceOf[kind]]
    /\ \A doc \in disk.fold : \A s \in Sessions : \A i \in history.handled[s] :
         i > doc.marks[s] => i \in history.redo[s]

Ran == \A i \in Duties : history.ran[i] # Never => Loaded.last[i] = history.ran[i]

Waiting ==
    /\ disk.fold = {} => \A s \in Sessions : history.waited[s] = 0
    /\ \A doc \in disk.fold : \A s \in Sessions :
         history.waited[s] + Distance(s, doc.last) <= NSessions - 1

IInv ==
    Shapes /\ Control /\ Behind /\ Turning /\ Reading /\ AllCovered
    /\ Once /\ HandledOnce /\ Ran /\ Waiting

-----------------------------------------------------------------------------
(* Numbers.                                                                *)

(* A non-empty set of naturals has a least element. *)
LEMMA NatLeast ==
  ASSUME NEW S \in SUBSET Nat, S # {}
  PROVE \E m \in S : \A k \in S : m <= k
<1> DEFINE T == {0..k : k \in S}
<1>1. T \subseteq FiniteSubsetsOf(Nat)
  <2>1. ASSUME NEW k \in S PROVE 0..k \in SUBSET Nat /\ IsFiniteSet(0..k)
    <3>1. k \in Int /\ 0 \in Int OBVIOUS
    <3>2. IsFiniteSet(0..k) BY <3>1, FS_Interval
    <3> QED BY <3>2
  <2> QED BY <2>1 DEF FiniteSubsetsOf
<1>2. T # {}
  OBVIOUS
<1> HIDE DEF T
<1>3. PICK x \in T : \A y \in T : <<y, x>> \notin StrictSubsetOrdering(Nat)
  BY <1>1, <1>2, WFMin, FS_StrictSubsetOrderingWellFounded
<1>4. PICK m \in S : x = 0..m
  BY DEF T
<1>5. ASSUME NEW k \in S, k < m PROVE FALSE
  <2>1. 0..k \in T BY DEF T
  <2>2. 0..k \subseteq 0..m /\ 0..k # 0..m 
    <3>1. m \in 0..m /\ m \notin 0..k  BY <1>5
    <3> QED BY <1>5, <3>1
  <2>3. 0..k \in SUBSET Nat /\ 0..m \in SUBSET Nat OBVIOUS
  <2> QED BY <2>1, <2>2, <2>3, <1>3, <1>4 DEF StrictSubsetOrdering
<1>6. QED BY <1>5

(* Multiples of a day are a day apart. *)
LEMMA Times ==
  ASSUME NEW d \in Nat \ {0}, NEW k \in Int, NEW j \in Int, k < j
  PROVE d * k + d <= d * j
<1>1. j - k - 1 \in Nat OBVIOUS
<1>2. d * (j - k - 1) \in Nat BY <1>1
<1>3. d * (j - k - 1) = d * j - d * k - d OBVIOUS
<1> QED BY <1>2, <1>3

(* A time is whole days and a time of day. *)
LEMMA DivMod ==
  ASSUME NEW d \in Nat \ {0}, NEW n \in Nat
  PROVE /\ n % d \in 0 .. (d - 1) /\ n \div d \in Int
        /\ n = d * (n \div d) + (n % d)
OBVIOUS

(* There is one way to write a time so. *)
LEMMA ModUnique ==
  ASSUME NEW d \in Nat \ {0}, NEW q \in Int, NEW a \in 0 .. (d - 1),
         NEW t \in Nat, t = d * q + a
  PROVE t % d = a
<1>1. t \in Nat /\ t = d * q + a OBVIOUS
<1>2. PICK e \in Int, r \in 0 .. (d - 1) : e = t \div d /\ r = t % d /\ t = d * e + r
  BY <1>1, DivMod
<1>3. ~ (q < e)
  BY <1>1, <1>2, Times
<1>4. ~ (e < q)
  BY <1>1, <1>2, Times
<1>5. q = e BY <1>3, <1>4
<1>6. d * q \in Int OBVIOUS
<1>7. r = a BY <1>1, <1>2, <1>5, <1>6
<1> QED BY <1>2, <1>7

(* A time of day added to the start of a day is a time at that time of day: *)
(* what a daily duty's next run rests on.                                  *)
LEMMA TimeOfDay ==
  ASSUME NEW d \in Nat \ {0}, NEW last \in Nat, NEW at \in 0 .. (d - 1)
  PROVE /\ last % d \in 0 .. (d - 1)
        /\ ((last - (last % d)) + at) % d = at
        /\ ((last - (last % d)) + at + d) % d = at
<1>1. PICK e \in Int, r \in 0 .. (d - 1) : e = last \div d /\ r = last % d /\ last = d * e + r
  BY DivMod
<1>2. d * e \in Nat /\ d * e = last - r
  <2>1. d * e \in Int OBVIOUS
  <2>2. ~ (e < 0)
    <3> SUFFICES ASSUME e < 0 PROVE FALSE OBVIOUS
    <3>1. d * e + d <= d * 0 BY Times
    <3>2. d * 0 = 0 OBVIOUS
    <3> QED BY <1>1, <2>1, <3>1, <3>2
  <2>3. d * e \in Nat BY <2>2
  <2> QED BY <1>1, <2>3
<1>3. PICK f \in Int : f = e + 1 /\ d * f = d * e + d OBVIOUS
<1>4. PICK t \in Nat : t = d * e + at BY <1>2
<1>5. PICK u \in Nat : u = d * f + at BY <1>2, <1>3
<1>6. t % d = at BY <1>1, <1>4, ModUnique
<1>7. u % d = at BY <1>1, <1>5, ModUnique
<1>8. (last - (last % d)) + at = t BY <1>1, <1>2, <1>4
<1>9. (last - (last % d)) + at + d = u BY <1>1, <1>2, <1>3, <1>5
<1> QED BY <1>1, <1>6, <1>7, <1>8, <1>9

-----------------------------------------------------------------------------
(* The constants, the sources and the duties.                              *)

(* What the model assumes of its numbers. *)
LEMMA Numbers ==
  /\ NSessions \in Nat \ {0} /\ Day \in Nat \ {0} /\ MaxSleep \in Nat \ {0}
  /\ SliceTokens \in Nat \ {0} /\ MessageTokens \in Nat \ {0}
  /\ MaxClock \in Nat /\ MaxGrowth \in Nat /\ MaxAsked \in Nat /\ MaxFaults \in Nat
BY DutiesAssumption

(* The sources differ, and a session is known by its number. *)
LEMMA SourceFacts ==
  /\ Commits \in Sources /\ Symptoms \in Sources /\ Commits # Symptoms
  /\ Sessions \subseteq Sources /\ Commits \notin Sessions /\ Symptoms \notin Sessions
  /\ \A s \in Sources : s = Commits \/ s = Symptoms \/ s \in Sessions
  /\ \A s \in Sessions : s[2] \in 1 .. NSessions /\ s = <<"session", s[2]>>
  /\ \A n \in 1 .. NSessions : <<"session", n>> \in Sessions /\ <<"session", n>>[2] = n
BY DEF Sources, Sessions, Commits, Symptoms

(* Where the duties that keep a cursor read. *)
LEMMA CursoredFacts ==
  /\ SourceOf["review"] = Commits /\ SourceOf["analysis"] = Symptoms
  /\ SourceOf["warm"] = Commits
  /\ \A kind \in Kinds : SourceOf[kind] \in Sources
  /\ \A kind \in Cursored : kind \in Kinds /\ SourceOf[kind] \notin Sessions
  /\ \A k, l \in Cursored : SourceOf[k] = SourceOf[l] => k = l
BY SourceFacts DEF SourceOf, Kinds, Cursored

(* What a configured duty looks like. *)
LEMMA RosterFacts ==
  ASSUME roster \in Rosters
  PROVE /\ Len(roster) \in Nat /\ Duties # {} /\ Duties \subseteq Nat \ {0}
        /\ \A i \in Duties :
             /\ roster[i].kind \in {"prompt", "review", "analysis", "warm", "distill"}
             /\ roster[i].schedule \in {"every", "daily"} /\ roster[i].at \in Nat
             /\ roster[i].schedule = "every" => roster[i].at > 0
             /\ roster[i].schedule = "daily" => roster[i].at < Day
<1> DEFINE Cards == [kind : {"prompt", "review", "analysis", "warm", "distill"},
                     schedule : {"every", "daily"}, at : Nat]
<1>1. roster \in Seq(Cards) /\ roster # <<>>
      /\ \A i \in 1 .. Len(roster) :
           IF roster[i].schedule = "every" THEN roster[i].at > 0 ELSE roster[i].at < Day
  BY DutiesAssumption
<1>2. \A c \in Cards :
        /\ c.kind \in {"prompt", "review", "analysis", "warm", "distill"}
        /\ c.schedule \in {"every", "daily"} /\ c.at \in Nat
  OBVIOUS
<1> HIDE DEF Cards
<1>3. Len(roster) \in Nat /\ Len(roster) > 0 BY <1>1
<1>4. \A i \in Duties : roster[i] \in Cards BY <1>1 DEF Duties
<1>5. Duties # {} /\ Duties \subseteq Nat \ {0}
  <2>1. 1 \in 1 .. Len(roster) BY <1>3
  <2> QED BY <1>3, <2>1 DEF Duties
<1> QED BY <1>1, <1>2, <1>3, <1>4, <1>5 DEF Duties

(* The duties do not change. *)
LEMMA SameDuties ==
  ASSUME roster' = roster
  PROVE Duties' = Duties /\ DutyStates' = DutyStates /\ FreshState' = FreshState
        /\ Disks' = Disks /\ Runs' = Runs /\ Histories' = Histories
BY DEF Duties, DutyStates, FreshState, Disks, Runs, Histories

(* The state without a document. *)
LEMMA FreshFacts ==
  /\ FreshState \in DutyStates
  /\ \A i \in Duties : FreshState.last[i] = Never
  /\ \A kind \in Kinds : FreshState.cursor[kind] = Never
BY DEF FreshState, DutyStates, Positions

(* What a restart loads. *)
LEMMA SavedFacts ==
  ASSUME disk.duties \in SUBSET DutyStates, AtMostOne(disk.duties)
  PROVE /\ Saved \in DutyStates
        /\ disk.duties = {} => Saved = FreshState
        /\ \A state \in disk.duties : Saved = state
<1>1. CASE disk.duties = {}
  BY <1>1, FreshFacts DEF Saved, Load
<1>2. ASSUME NEW d, disk.duties = {d} PROVE Saved = d /\ d \in DutyStates
  BY <1>2 DEF Saved, Load
<1> QED BY <1>1, <1>2 DEF AtMostOne

(* The duty a round is at is one of those left. *)
LEMMA CurrentFacts ==
  ASSUME roster \in Rosters, run.todo \in SUBSET Duties, run.todo # {}
  PROVE Current \in run.todo /\ Current \in Duties
<1>1. run.todo \in SUBSET Nat BY RosterFacts
<1>2. PICK m \in run.todo : \A k \in run.todo : m <= k BY <1>1, NatLeast
<1> QED BY <1>2 DEF Current

(* No pass is under way in NoFold. *)
LEMMA NoFoldFacts ==
  NoFold.stage = "idle" /\ (\A pass \in Passes : pass.stage = "turn")
BY DEF NoFold, Passes

-----------------------------------------------------------------------------
(* The schedule.                                                           *)

(* When a duty is next due is a number. *)
LEMMA NextDueFacts ==
  ASSUME roster \in Rosters, NEW i \in Duties, NEW last \in Positions, NEW now \in Nat
  PROVE /\ NextDue(roster[i], last, now) \in Nat
        /\ last # Never => last \in Nat
<1>1. last # Never => last \in Nat BY DEF Positions
<1>2. CASE last = Never
  BY <1>2, <1>1 DEF NextDue
<1>3. CASE last # Never
  <2>1. Day \in Nat \ {0} BY Numbers
  <2>2. PICK r \in 0 .. (Day - 1) : r = last % Day /\ last - r \in Nat
    <3>1. PICK r \in 0 .. (Day - 1) : r = last % Day BY <1>1, <1>3, <2>1, DivMod
    <3>2. last % Day <= last BY <1>1, <1>3, <2>1
    <3> QED BY <1>1, <1>3, <2>1, <3>1, <3>2
  <2>3. roster[i].at \in Nat BY RosterFacts
  <2> QED BY <1>1, <1>3, <2>1, <2>2, <2>3 DEF NextDue
<1> QED BY <1>1, <1>2, <1>3

(* The loop never sleeps to a time that is not a number. *)
LEMMA NextWakeFacts ==
  ASSUME roster \in Rosters, memory \in DutyStates, clock \in Nat
  PROVE NextWake \in Nat
<1> DEFINE waits == {Higher(NextDue(roster[i], memory.last[i], clock) - clock, 0) : i \in Duties}
           soonest == IF waits = {} THEN MaxSleep
                      ELSE CHOOSE w \in waits : \A v \in waits : w <= v
<1>1. waits \in SUBSET Nat
  <2>1. ASSUME NEW i \in Duties
        PROVE Higher(NextDue(roster[i], memory.last[i], clock) - clock, 0) \in Nat
    <3>1. memory.last[i] \in Positions BY DEF DutyStates
    <3>2. PICK n \in Nat : n = NextDue(roster[i], memory.last[i], clock)
      BY <3>1, NextDueFacts
    <3> QED BY <3>2 DEF Higher
  <2> QED BY <2>1
<1>2. soonest \in Nat
  <2> HIDE DEF waits
  <2>1. CASE waits = {} BY <2>1, Numbers
  <2>2. CASE waits # {}
    <3>1. PICK m \in waits : \A k \in waits : m <= k BY <1>1, <2>2, NatLeast
    <3> QED BY <1>1, <2>2, <3>1
  <2> QED BY <2>1, <2>2
<1>3. NextWake = clock + Higher(1, Lower(soonest, MaxSleep))
  BY DEF NextWake
<1> HIDE DEF soonest
<1> QED BY <1>2, <1>3, Numbers DEF Higher, Lower

(* A duty that is due has had one of its times since its last run. *)
LEMMA DueFacts ==
  ASSUME roster \in Rosters, NEW i \in Duties, NEW last \in Nat, NEW now \in Nat,
         NextDue(roster[i], last, now) <= now
  PROVE \E t \in (last + 1) .. now : Instant(roster[i], last, t)
<1>1. Day \in Nat \ {0} /\ last # Never BY Numbers DEF Never
<1>2. /\ roster[i].schedule \in {"every", "daily"} /\ roster[i].at \in Nat
      /\ roster[i].schedule = "every" => roster[i].at > 0
      /\ roster[i].schedule = "daily" => roster[i].at < Day
  BY RosterFacts
<1>3. CASE roster[i].schedule = "every"
  <2>1. last + roster[i].at <= now BY <1>1, <1>3 DEF NextDue
  <2>2. last + roster[i].at \in (last + 1) .. now BY <1>2, <1>3, <2>1
  <2> QED BY <1>3, <2>2 DEF Instant
<1>4. CASE roster[i].schedule # "every"
  <2>1. PICK at \in 0 .. (Day - 1) : at = roster[i].at BY <1>1, <1>2, <1>4
  <2>2. PICK r \in 0 .. (Day - 1) : r = last % Day BY <1>1, DivMod
  <2>3. PICK today \in Int : today = (last - r) + at BY <2>1, <2>2
  <2>4. today % Day = at /\ (today + Day) % Day = at
    BY <1>1, <2>1, <2>2, <2>3, TimeOfDay
  <2>5. today + Day > last BY <1>1, <2>1, <2>2, <2>3
  <2>6. NextDue(roster[i], last, now) = IF today > last THEN today ELSE today + Day
    BY <1>1, <1>4, <2>1, <2>2, <2>3 DEF NextDue
  <2>7. PICK t \in Int : t = NextDue(roster[i], last, now) /\ t > last /\ t % Day = at
    BY <1>1, <2>3, <2>4, <2>5, <2>6
  <2>8. t \in (last + 1) .. now BY <2>7
  <2> QED BY <1>4, <2>1, <2>7, <2>8 DEF Instant
<1> QED BY <1>3, <1>4

-----------------------------------------------------------------------------
(* The order of the sessions and the gather loop.                          *)

(* A session's distance is its place in the next pass, and every pass      *)
(* visits each session once.                                               *)
LEMMA OrderFacts ==
  ASSUME NEW last \in 0 .. NSessions
  PROVE /\ \A i \in 1 .. NSessions :
             /\ SessionOrder(last)[i] \in Sessions
             /\ SessionOrder(last)[i][2] \in 1 .. NSessions
             /\ Distance(SessionOrder(last)[i], last) = i - 1
        /\ \A s \in Sessions :
             /\ Distance(s, last) \in 0 .. (NSessions - 1)
             /\ SessionOrder(last)[Distance(s, last) + 1] = s
<1>0. NSessions \in Nat \ {0} BY Numbers
<1>1. ASSUME NEW i \in 1 .. NSessions
      PROVE /\ SessionOrder(last)[i] \in Sessions
            /\ SessionOrder(last)[i][2] \in 1 .. NSessions
            /\ Distance(SessionOrder(last)[i], last) = i - 1
  <2>1. PICK n \in 1 .. NSessions :
           n = IF last + i <= NSessions THEN last + i ELSE last + i - NSessions
    <3>1. CASE last + i <= NSessions
      <4>1. last + i \in 1 .. NSessions BY <1>0, <3>1
      <4> QED BY <3>1, <4>1
    <3>2. CASE ~ (last + i <= NSessions)
      <4>1. last + i - NSessions \in 1 .. NSessions BY <1>0, <3>2
      <4> QED BY <3>2, <4>1
    <3> QED BY <3>1, <3>2
  <2>2. SessionOrder(last)[i] = <<"session", n>> BY <2>1 DEF SessionOrder
  <2>3. <<"session", n>>[2] = n OBVIOUS
  <2>4. Distance(<<"session", n>>, last) = i - 1 BY <1>0, <2>1, <2>3 DEF Distance
  <2> QED BY <2>2, <2>3, <2>4, SourceFacts
<1>2. ASSUME NEW s \in Sessions
      PROVE /\ Distance(s, last) \in 0 .. (NSessions - 1)
            /\ SessionOrder(last)[Distance(s, last) + 1] = s
  <2>1. PICK n \in 1 .. NSessions : n = s[2] /\ s = <<"session", n>> BY SourceFacts
  <2>2. PICK d \in 0 .. (NSessions - 1) :
           d = Distance(s, last) /\ n = IF last + (d + 1) <= NSessions THEN last + (d + 1)
                                        ELSE last + (d + 1) - NSessions
    BY <1>0, <2>1 DEF Distance
  <2>3. d + 1 \in 1 .. NSessions BY <1>0, <2>2
  <2>4. SessionOrder(last)[d + 1] = <<"session", n>> BY <2>2, <2>3 DEF SessionOrder
  <2> QED BY <2>1, <2>2, <2>4
<1> QED BY <1>1, <1>2

(* A session gives no more than it has, and something if it has something  *)
(* and the budget is not used up.                                          *)
LEMMA ShareFacts ==
  ASSUME logs \in [Sources -> Nat], NEW marks \in [Sessions -> Nat], NEW s \in Sessions,
         NEW budget \in 0 .. SliceTokens, marks[s] <= logs[s]
  PROVE /\ Share(marks, s, budget) \in Nat
        /\ marks[s] + Share(marks, s, budget) <= logs[s]
        /\ budget = 0 => Share(marks, s, budget) = 0
        /\ budget # 0 /\ logs[s] > marks[s] => Share(marks, s, budget) > 0
<1>1. logs[s] \in Nat /\ marks[s] \in Nat BY SourceFacts
<1>2. budget \in Nat /\ MessageTokens \in Nat \ {0} BY Numbers
<1>3. PICK whole \in Int : whole = budget \div MessageTokens BY <1>2, DivMod
<1>4. PICK pending \in Nat : pending = logs[s] - marks[s] BY <1>1
<1>5. Share(marks, s, budget) = IF budget = 0 THEN 0 ELSE Lower(pending, Higher(1, whole))
  BY <1>3, <1>4 DEF Share, Span
<1> QED BY <1>1, <1>2, <1>3, <1>4, <1>5 DEF Lower, Higher

(* Once the budget is used up it stays so. *)
LEMMA UsedUp ==
  ASSUME logs \in [Sources -> Nat], NEW marks \in [Sessions -> Nat],
         NEW order, \A i \in 1 .. NSessions : order[i] \in Sessions,
         NEW left \in [Sessions -> 0 .. SliceTokens], NEW advanced \in 1 .. NSessions,
         Gathered(marks, order, left, advanced),
         NEW p \in 1 .. NSessions, left[order[p]] = 0
  PROVE \A q \in p .. NSessions : left[order[q]] = 0
<1>0. NSessions \in Nat \ {0} BY Numbers
<1> DEFINE Some == {q \in p .. NSessions : left[order[q]] # 0}
<1>1. Some \in SUBSET Nat BY <1>0
<1>2. SUFFICES ASSUME Some # {} PROVE FALSE OBVIOUS
<1>3. PICK m \in Some : \A k \in Some : m <= k BY <1>1, <1>2, NatLeast
<1>4. m \in p .. NSessions /\ left[order[m]] # 0 BY <1>3
<1>5. m # p BY <1>4
<1>6. PICK i \in 1 .. (NSessions - 1) : m = i + 1 /\ i \in p .. NSessions
  BY <1>0, <1>4, <1>5
<1>7. left[order[i]] = 0
  <2>1. i \notin Some BY <1>1, <1>3, <1>6
  <2> QED BY <1>6, <2>1
<1>8. left[order[i + 1]] =
        Higher(left[order[i]] - Share(marks, order[i], left[order[i]]) * MessageTokens, 0)
  BY <1>6 DEF Gathered
<1>9. Share(marks, order[i], left[order[i]]) = 0 BY <1>7 DEF Share
<1>10. 0 * MessageTokens = 0 BY Numbers
<1>11. left[order[i + 1]] = 0 BY <1>7, <1>8, <1>9, <1>10 DEF Higher
<1> QED BY <1>4, <1>6, <1>11

(* A session with a backlog that a pass passes over comes sooner in the    *)
(* next one.                                                               *)
LEMMA Sooner ==
  ASSUME logs \in [Sources -> Nat], NEW marks \in [Sessions -> Nat],
         \A s \in Sessions : marks[s] <= logs[s],
         NEW last \in 0 .. NSessions,
         NEW left \in [Sessions -> 0 .. SliceTokens], NEW advanced \in 1 .. NSessions,
         Gathered(marks, SessionOrder(last), left, advanced),
         NEW s \in Pending(marks), Share(marks, s, left[s]) = 0
  PROVE Distance(s, SessionOrder(last)[advanced][2]) < Distance(s, last)
<1>0. NSessions \in Nat \ {0} BY Numbers
<1> DEFINE order == SessionOrder(last)
<1>1. \A i \in 1 .. NSessions : /\ order[i] \in Sessions /\ order[i][2] \in 1 .. NSessions
                                /\ Distance(order[i], last) = i - 1
  BY OrderFacts
<1>2. s \in Sessions /\ logs[s] > marks[s] /\ marks[s] <= logs[s] BY DEF Pending
<1>3. PICK p \in 1 .. NSessions : p = Distance(s, last) + 1 /\ order[p] = s
  <2>1. PICK d \in 0 .. (NSessions - 1) : d = Distance(s, last) /\ order[d + 1] = s
    BY <1>2, OrderFacts
  <2>2. d + 1 \in 1 .. NSessions BY <1>0, <2>1
  <2> QED BY <2>1, <2>2
<1>4. left[order[p]] = 0
  <2>1. left[s] \in 0 .. SliceTokens BY <1>2
  <2> QED BY <1>2, <1>3, <2>1, ShareFacts
<1>5. Gathered(marks, order, left, advanced) OBVIOUS
<1> HIDE DEF order
<1>6. \A q \in p .. NSessions : left[order[q]] = 0 BY <1>1, <1>4, <1>5, UsedUp
<1>7. Share(marks, order[advanced], left[order[advanced]]) > 0 BY <1>5 DEF Gathered
<1>8. left[order[advanced]] # 0
  <2>1. SUFFICES ASSUME left[order[advanced]] = 0 PROVE FALSE OBVIOUS
  <2>2. Share(marks, order[advanced], left[order[advanced]]) = 0 BY <2>1 DEF Share
  <2> QED BY <1>7, <2>2
<1>9. advanced < p BY <1>0, <1>6, <1>8
<1>10. PICK n \in 1 .. NSessions : n = order[advanced][2] /\ Distance(order[advanced], last) = advanced - 1
  BY <1>1
<1>11. PICK m \in 1 .. NSessions : m = s[2] BY <1>2, SourceFacts
<1>12. advanced - 1 = IF n > last THEN n - last - 1 ELSE n - last - 1 + NSessions
  BY <1>10 DEF Distance
<1>13. p - 1 = IF m > last THEN m - last - 1 ELSE m - last - 1 + NSessions
  BY <1>0, <1>3, <1>11 DEF Distance
<1>14. (IF m > n THEN m - n - 1 ELSE m - n - 1 + NSessions) < p - 1
  BY <1>0, <1>9, <1>12, <1>13
<1>15. Distance(s, n) = IF m > n THEN m - n - 1 ELSE m - n - 1 + NSessions
  BY <1>11 DEF Distance
<1>16. Distance(s, last) = p - 1
  <2>1. Distance(s, last) \in Int BY <1>2, <1>0, OrderFacts
  <2> QED BY <1>3, <2>1
<1> QED BY <1>10, <1>14, <1>15, <1>16 DEF order

-----------------------------------------------------------------------------
(* What the parts of an action do.                                         *)

(* The shapes, from the shape of each variable. *)
LEMMA ShapesKept ==
  ASSUME Shapes, roster' = roster, clock' \in 0 .. MaxClock, used' \in Budgets,
         logs' \in [Sources -> Nat], memory' \in DutyStates, disk' \in Disks,
         AtMostOne(disk'.duties), AtMostOne(disk'.fold), run' \in Runs,
         fold' = NoFold \/ fold' \in Passes,
         triggers' \in Seq({0} \cup Duties), Len(triggers') <= TriggerSlots,
         history' \in Histories
  PROVE Shapes'
<1>1. /\ Duties' = Duties /\ DutyStates' = DutyStates
      /\ Disks' = Disks /\ Runs' = Runs /\ Histories' = Histories
  BY SameDuties
<1>2. roster' \in Rosters BY DEF Shapes
<1>3. AtMostOne(disk.duties)' /\ AtMostOne(disk.fold)' BY DEF AtMostOne
<1>4. triggers' \in Seq({0} \cup Duties') BY <1>1
<1> QED BY <1>1, <1>2, <1>3, <1>4 DEF Shapes

(* A charge. *)
LEMMA UseFacts ==
  ASSUME used \in Budgets, NEW what \in {"growth", "asked", "faults"}, Use(what)
  PROVE /\ used' \in Budgets
        /\ what = "growth" => used'.growth = used.growth + 1
        /\ what # "growth" => used'.growth = used.growth
<1>1. used' = [used EXCEPT ![what] = @ + 1] BY DEF Use
<1>2. /\ what = "growth" => used.growth < MaxGrowth
      /\ what = "asked" => used.asked < MaxAsked
      /\ what = "faults" => used.faults < MaxFaults
  BY DEF Use
<1> QED BY <1>1, <1>2, Numbers DEF Budgets

(* The shapes when only the place of the scheduler changes. *)
LEMMA OnlyRun ==
  ASSUME Shapes, run' \in Runs, used' \in Budgets,
         UNCHANGED <<roster, clock, logs, memory, disk, fold, triggers, history>>
  PROVE Shapes'
<1>1. /\ clock' \in 0 .. MaxClock
      /\ logs' \in [Sources -> Nat] /\ memory' \in DutyStates /\ disk' \in Disks
      /\ AtMostOne(disk'.duties) /\ AtMostOne(disk'.fold)
      /\ fold' = NoFold \/ fold' \in Passes
      /\ triggers' \in Seq({0} \cup Duties) /\ Len(triggers') <= TriggerSlots
      /\ history' \in Histories
  BY DEF Shapes
<1> QED BY <1>1, ShapesKept

(* The scheduler goes on to a turn, or to the record of the run. *)
LEMMA RunFacts ==
  ASSUME run \in Runs
  PROVE /\ ToRecord => run' \in Runs /\ run'.stage = "record" /\ run'.todo = run.todo
        /\ \A n \in Nat : ToTurn(n) =>
             run' \in Runs /\ run'.stage = "turn" /\ run'.todo = run.todo /\ run'.upTo = n
BY DEF Runs, ToRecord, ToTurn

(* The duty at hand stays at hand while the round is the same. *)
LEMMA SameCurrent ==
  ASSUME run'.todo = run.todo
  PROVE Current' = Current
BY DEF Current

(* What a restart would load stays the same. *)
LEMMA SameSaved ==
  ASSUME roster' = roster, disk'.duties = disk.duties
  PROVE Saved' = Saved
<1>1. FreshState' = FreshState BY SameDuties
<1> QED BY <1>1 DEF Saved, Load

(* A step that leaves the sources, the cursors and the history as they are. *)
Still ==
    /\ roster' = roster /\ logs' = logs /\ memory' = memory /\ disk' = disk
    /\ history' = history /\ used'.growth = used.growth
    /\ run'.stage = "down" <=> run.stage = "down"

(* Such a step keeps what is said of those. *)
LEMMA StillKeeps ==
  ASSUME IInv, Still
  PROVE Behind' /\ AllCovered' /\ Once' /\ HandledOnce' /\ Ran' /\ Waiting'
<1>1. Duties' = Duties /\ Saved' = Saved BY SameDuties, SameSaved DEF Still
<1>2. Loaded' = Loaded BY <1>1 DEF Still, Loaded
<1>3. Behind' BY DEF IInv, Still, Behind
<1>4. AllCovered' BY DEF IInv, Still, AllCovered, Covered
<1>5. Once' BY <1>2 DEF IInv, Still, Once
<1>6. HandledOnce' BY DEF IInv, Still, HandledOnce
<1>7. Ran' BY <1>1, <1>2 DEF IInv, Still, Ran
<1>8. Waiting' BY DEF IInv, Still, Waiting
<1> QED BY <1>3, <1>4, <1>5, <1>6, <1>7, <1>8

(* A step of the scheduler while the distiller is not working for it. *)
LEMMA ControlKept ==
  ASSUME Control, fold' = fold, roster' = roster,
         ~ (fold.stage = "turn" /\ fold.duty),
         run'.todo = {} <=> run'.stage \in {"down", "check", "sleep"},
         run'.stage # "down"
  PROVE Control'
BY DEF Control

(* A pass under way reads the same watermarks and sessions. *)
LEMMA ReadingKept ==
  ASSUME Reading, fold' = fold, disk'.fold = disk.fold,
         \A s \in Sessions : logs'[s] = logs[s]
  PROVE Reading'
<1>1. Pending(fold.marks)' = Pending(fold.marks) BY DEF Pending
<1> QED BY <1>1 DEF Reading

(* While no turn runs for a duty that keeps a cursor there is nothing to say *)
(* of its end.                                                             *)
LEMMA NotTurning ==
  ASSUME roster' = roster,
         run'.stage # "turn" \/ (run'.todo = run.todo /\ roster[Current].kind \notin Cursored)
  PROVE Turning'
BY SameCurrent DEF Turning

(* A turn under way has the end and the cursor that it had. *)
LEMMA TurningKept ==
  ASSUME Turning, roster' = roster, run' = run, memory' = memory,
         \A s \in Sources : logs'[s] = logs[s] \/ logs'[s] = logs[s] + 1,
         logs \in [Sources -> Nat], run \in Runs
  PROVE Turning'
<1>1. Current' = Current BY SameCurrent
<1>2. SUFFICES ASSUME run.stage = "turn",
                      NEW kind \in Cursored, roster[Current].kind = kind
               PROVE /\ memory.cursor[kind] \in 0 .. run.upTo
                     /\ run.upTo <= logs'[SourceOf[kind]]
  BY <1>1 DEF Turning
<1>3. memory.cursor[kind] \in 0 .. run.upTo /\ run.upTo <= logs[SourceOf[kind]]
  BY <1>2 DEF Turning
<1>4. SourceOf[kind] \in Sources BY CursoredFacts
<1>5. logs[SourceOf[kind]] \in Nat /\ run.upTo \in Nat BY <1>4 DEF Runs
<1> QED BY <1>3, <1>4, <1>5

-----------------------------------------------------------------------------
(* Steps that move the scheduler only.                                     *)

(* A step of the scheduler that leaves the data alone. *)
LEMMA OnlyRunKeeps ==
  ASSUME IInv, UNCHANGED <<roster, clock, logs, memory, disk, fold, triggers, history>>,
         run' \in Runs, used' \in Budgets, used'.growth = used.growth,
         run.stage # "down", run'.stage # "down", Control', Turning'
  PROVE IInv'
<1>1. Shapes' BY OnlyRun DEF IInv
<1>2. Still BY DEF Still
<1>3. Reading' BY ReadingKept DEF IInv
<1> QED BY <1>1, <1>2, <1>3, StillKeeps DEF IInv

(* Such a step that leads to anything but a turn. *)
LEMMA NoTurnKeeps ==
  ASSUME IInv, UNCHANGED <<roster, clock, logs, memory, disk, fold, triggers, history>>,
         run' \in Runs, used' \in Budgets, used'.growth = used.growth,
         run.stage # "down", ~ (fold.stage = "turn" /\ fold.duty),
         run'.stage \notin {"down", "turn"},
         run'.todo = {} <=> run'.stage \in {"check", "sleep"}
  PROVE IInv'
<1>1. Control' BY ControlKept DEF IInv
<1>2. Turning' BY NotTurning
<1> QED BY <1>1, <1>2, OnlyRunKeeps

(* What is known of the scheduler from its place. *)
LEMMA PlaceFacts ==
  ASSUME IInv
  PROVE /\ run \in Runs /\ used \in Budgets /\ roster \in Rosters /\ clock \in Nat
        /\ run.stage # "turn" => ~ (fold.stage = "turn" /\ fold.duty)
        /\ run.stage = "turn" /\ roster[Current].kind # "distill" =>
             ~ (fold.stage = "turn" /\ fold.duty)
        /\ run.stage \in {"check", "sleep", "down"} => run.todo = {}
        /\ run.stage \in {"probe", "turn", "record"} =>
             run.todo # {} /\ Current \in run.todo /\ Current \in Duties
<1>1. /\ run \in Runs /\ used \in Budgets /\ roster \in Rosters /\ clock \in Nat
      /\ run.todo \in SUBSET Duties
  BY Numbers DEF IInv, Shapes, Runs
<1>2. run.stage \in {"probe", "turn", "record"} => run.todo # {} BY DEF IInv, Control
<1>3. run.todo # {} => Current \in run.todo /\ Current \in Duties BY <1>1, CurrentFacts
<1> QED BY <1>1, <1>2, <1>3 DEF IInv, Control

LEMMA CheckKeeps == ASSUME IInv, Check PROVE IInv'
<1>1. /\ run \in Runs /\ run.todo = {} /\ roster \in Rosters /\ clock \in Nat
      /\ ~ (fold.stage = "turn" /\ fold.duty)
      /\ run.stage = "check" /\ used' = used /\ used \in Budgets
  BY PlaceFacts DEF Check
<1>2. CASE DueNow = {}
  <2>1. NextWake \in Nat BY <1>1, NextWakeFacts DEF IInv, Shapes
  <2>2. run' = [run EXCEPT !.stage = "sleep", !.wake = NextWake] BY <1>2 DEF Check
  <2>3. run' \in Runs /\ run'.stage = "sleep" /\ run'.todo = {}
    BY <1>1, <2>1, <2>2 DEF Runs
  <2> QED BY <1>1, <2>3, NoTurnKeeps DEF Check
<1>3. CASE DueNow # {}
  <2>1. run' = [run EXCEPT !.stage = "probe", !.todo = DueNow] BY <1>3 DEF Check
  <2>2. DueNow \in SUBSET Duties BY DEF DueNow
  <2>3. run' \in Runs /\ run'.stage = "probe" /\ run'.todo = DueNow
    BY <1>1, <2>1, <2>2 DEF Runs
  <2> QED BY <1>1, <1>3, <2>3, NoTurnKeeps DEF Check
<1> QED BY <1>2, <1>3

LEMMA WakeKeeps == ASSUME IInv, Wake PROVE IInv'
<1>1. /\ run \in Runs /\ run.todo = {} /\ ~ (fold.stage = "turn" /\ fold.duty)
      /\ run.stage = "sleep" /\ used' = used /\ used \in Budgets
  BY PlaceFacts DEF Wake
<1>2. run' = [run EXCEPT !.stage = "check", !.wake = 0] BY DEF Wake
<1>3. run' \in Runs /\ run'.stage = "check" /\ run'.todo = {} BY <1>1, <1>2 DEF Runs
<1> QED BY <1>1, <1>3, NoTurnKeeps DEF Wake

LEMMA TakeTriggerKeeps == ASSUME IInv, TakeTrigger PROVE IInv'
<1>1. /\ run \in Runs /\ run.todo = {} /\ ~ (fold.stage = "turn" /\ fold.duty)
      /\ run.stage = "sleep" /\ used' = used /\ used \in Budgets /\ roster \in Rosters
  BY PlaceFacts DEF TakeTrigger
<1>2. triggers \in Seq({0} \cup Duties) /\ triggers # <<>> /\ Len(triggers) <= TriggerSlots
  BY DEF IInv, Shapes, TakeTrigger
<1>3. /\ Head(triggers) \in {0} \cup Duties /\ Tail(triggers) \in Seq({0} \cup Duties)
      /\ Len(Tail(triggers)) <= TriggerSlots
  <2>1. Len(Tail(triggers)) = Len(triggers) - 1 /\ Len(triggers) \in Nat BY <1>2
  <2>2. TriggerSlots \in Nat BY DutiesAssumption
  <2> QED BY <1>2, <2>1, <2>2
<1>4. PICK todo \in SUBSET Duties : /\ todo # {}
        /\ run' = [run EXCEPT !.stage = "probe", !.wake = 0, !.todo = todo]
  <2>1. Duties # {} BY <1>1, RosterFacts
  <2>2. CASE Head(triggers) = 0 BY <2>1, <2>2 DEF TakeTrigger
  <2>3. CASE Head(triggers) # 0
    <3>1. {Head(triggers)} \in SUBSET Duties BY <1>3, <2>3
    <3> QED BY <2>3, <3>1 DEF TakeTrigger
  <2> QED BY <2>2, <2>3
<1>5. run' \in Runs /\ run'.stage = "probe" /\ run'.todo = todo BY <1>1, <1>4 DEF Runs
<1>6. Control' BY <1>1, <1>4, <1>5, ControlKept DEF IInv, TakeTrigger
<1>7. Turning' BY <1>5, NotTurning DEF TakeTrigger
<1>8. Reading' BY ReadingKept DEF IInv, TakeTrigger
<1>9. Still BY <1>1, <1>5 DEF Still, TakeTrigger
<1>10. Shapes'
  <2>1. /\ roster' = roster /\ clock' \in 0 .. MaxClock
        /\ logs' \in [Sources -> Nat] /\ memory' \in DutyStates /\ disk' \in Disks
        /\ AtMostOne(disk'.duties) /\ AtMostOne(disk'.fold)
        /\ (fold' = NoFold \/ fold' \in Passes) /\ history' \in Histories
    BY DEF IInv, Shapes, TakeTrigger
  <2>2. triggers' = Tail(triggers) BY DEF TakeTrigger
  <2> QED BY <1>1, <1>3, <1>5, <2>1, <2>2, ShapesKept DEF IInv
<1> QED BY <1>6, <1>7, <1>8, <1>9, <1>10, StillKeeps DEF IInv

(* A turn starts for a duty whose cursor nothing is said of. *)
LEMMA PlainTurnKeeps ==
  ASSUME IInv, UNCHANGED <<roster, clock, logs, memory, disk, fold, triggers, history, used>>,
         run.stage = "probe", roster[Current].kind \notin Cursored,
         NEW n \in Nat, ToTurn(n)
  PROVE IInv'
<1>1. run' \in Runs /\ run'.stage = "turn" /\ run'.todo = run.todo
  BY PlaceFacts, RunFacts
<1>2. Turning' BY <1>1, NotTurning
<1>3. Control' BY <1>1, PlaceFacts, ControlKept DEF IInv
<1> QED BY <1>1, <1>2, <1>3, PlaceFacts, OnlyRunKeeps

(* The duty is done with, one way or another. *)
LEMMA ToRecordKeeps ==
  ASSUME IInv, UNCHANGED <<roster, clock, logs, memory, disk, fold, triggers, history>>,
         used' \in Budgets, used'.growth = used.growth,
         run.stage \in {"probe", "turn"}, ~ (fold.stage = "turn" /\ fold.duty), ToRecord
  PROVE IInv'
<1>1. run' \in Runs /\ run'.stage = "record" /\ run'.todo = run.todo /\ run.todo # {}
  BY PlaceFacts, RunFacts
<1> QED BY <1>1, NoTurnKeeps

LEMMA ProbePromptKeeps == ASSUME IInv, ProbePrompt PROVE IInv'
<1>1. run.stage = "probe" /\ roster[Current].kind \notin Cursored
  BY DEF ProbePrompt, Probing, Cursored
<1> QED BY <1>1, PlainTurnKeeps DEF ProbePrompt

LEMMA ProbeDistillKeeps == ASSUME IInv, ProbeDistill PROVE IInv'
<1>1. run.stage = "probe" /\ roster[Current].kind \notin Cursored
  BY DEF ProbeDistill, Probing, Cursored
<1> QED BY <1>1, PlainTurnKeeps DEF ProbeDistill

LEMMA ProbeWarmKeeps == ASSUME IInv, ProbeWarm PROVE IInv'
<1>1. run.stage = "probe" /\ roster[Current].kind \notin Cursored
  BY DEF ProbeWarm, Probing, Cursored
<1>2. logs[Commits] \in Nat BY SourceFacts DEF IInv, Shapes
<1>3. used' = used /\ used \in Budgets /\ ~ (fold.stage = "turn" /\ fold.duty)
  BY <1>1, PlaceFacts DEF ProbeWarm
<1>4. ToRecord \/ ToTurn(logs[Commits]) BY DEF ProbeWarm
<1>5. CASE ToRecord BY <1>1, <1>3, <1>5, ToRecordKeeps DEF ProbeWarm
<1>6. CASE ToTurn(logs[Commits]) BY <1>1, <1>2, <1>6, PlainTurnKeeps DEF ProbeWarm
<1> QED BY <1>4, <1>5, <1>6

LEMMA ProbeFailsKeeps == ASSUME IInv, ProbeFails PROVE IInv'
<1>1. run.stage = "probe" BY DEF ProbeFails, Probing
<1>2. used' \in Budgets /\ used'.growth = used.growth BY PlaceFacts, UseFacts DEF ProbeFails
<1>3. ~ (fold.stage = "turn" /\ fold.duty) BY <1>1, PlaceFacts
<1> QED BY <1>1, <1>2, <1>3, ToRecordKeeps DEF ProbeFails

LEMMA GateClosedKeeps ==
  ASSUME IInv, NEW kind \in Cursored, GateClosed(kind) PROVE IInv'
<1>1. run.stage = "probe" BY DEF GateClosed, Probing
<1>2. used' = used /\ used \in Budgets /\ ~ (fold.stage = "turn" /\ fold.duty)
  BY <1>1, PlaceFacts DEF GateClosed
<1> QED BY <1>1, <1>2, ToRecordKeeps DEF GateClosed

LEMMA TurnFailsKeeps == ASSUME IInv, TurnFails PROVE IInv'
<1>1. run.stage = "turn" /\ roster[Current].kind # "distill" BY DEF TurnFails
<1>2. used' \in Budgets /\ used'.growth = used.growth BY PlaceFacts, UseFacts DEF TurnFails
<1>3. ~ (fold.stage = "turn" /\ fold.duty) BY <1>1, PlaceFacts
<1> QED BY <1>1, <1>2, <1>3, ToRecordKeeps DEF TurnFails

(* The end that was probed is at or after the cursor. *)
LEMMA GateOpenKeeps ==
  ASSUME IInv, NEW kind \in Cursored, GateOpen(kind) PROVE IInv'
<1> DEFINE source == SourceOf[kind]
<1>1. run.stage = "probe" /\ roster[Current].kind = kind /\ used' = used
  BY DEF GateOpen, Probing
<1>2. source \in Sources /\ kind \in Kinds BY CursoredFacts
<1>3. logs[source] \in Nat BY <1>2 DEF IInv, Shapes
<1>4. ToTurn(logs[source]) BY DEF GateOpen
<1>5. run' \in Runs /\ run'.stage = "turn" /\ run'.todo = run.todo /\ run'.upTo = logs[source]
  BY <1>3, <1>4, PlaceFacts, RunFacts
<1>6. memory.cursor[kind] \in Nat
  BY <1>2 DEF IInv, Shapes, DutyStates, Positions, GateOpen
<1>7. memory.cursor[kind] <= logs[source] BY DEF IInv, Behind
<1>8. Current' = Current BY <1>5, SameCurrent
<1>9. Turning'
  BY <1>1, <1>3, <1>5, <1>6, <1>7, <1>8 DEF Turning, GateOpen
<1>10. Control' BY <1>1, <1>5, PlaceFacts, ControlKept DEF IInv, GateOpen
<1> QED BY <1>1, <1>5, <1>9, <1>10, PlaceFacts, OnlyRunKeeps DEF GateOpen

-----------------------------------------------------------------------------
(* Steps that move a cursor of the scheduler.                              *)

(* What a handled batch leaves in the history. *)
LEMMA HandleFacts ==
  ASSUME NEW h \in Histories, NEW S \in SUBSET Sources, NEW items \in [S -> SUBSET Nat]
  PROVE /\ Handle(h, items) \in Histories
        /\ \A s \in S : Handle(h, items).handled[s] = h.handled[s] \cup items[s]
        /\ \A s \in Sources : s \notin S => Handle(h, items).handled[s] = h.handled[s]
        /\ Handle(h, items).skipped = h.skipped /\ Handle(h, items).redo = h.redo
        /\ Handle(h, items).ran = h.ran /\ Handle(h, items).waited = h.waited
        /\ Handle(h, items).evicted = h.evicted
<1> DEFINE done == [s \in Sources |-> IF s \in S THEN h.handled[s] \cup items[s] ELSE h.handled[s]]
           again == UNION {{<<s, i>> : i \in (items[s] \cap h.handled[s]) \ h.redo[s]} : s \in S}
<1>1. DOMAIN items = S OBVIOUS
<1>2. Handle(h, items) = [h EXCEPT !.handled = done, !.twice = h.twice \cup again]
  BY <1>1 DEF Handle, Histories
<1>3. done \in [Sources -> SUBSET Nat]
  <2>1. \A s \in Sources : h.handled[s] \in SUBSET Nat BY DEF Histories
  <2>2. \A s \in S : items[s] \in SUBSET Nat OBVIOUS
  <2> QED BY <2>1, <2>2
<1>4. again \in SUBSET (Sources \X Nat)
  <2>1. \A s \in S : items[s] \in SUBSET Nat OBVIOUS
  <2> QED BY <2>1
<1>5. /\ \A s \in S : done[s] = h.handled[s] \cup items[s]
      /\ \A s \in Sources : s \notin S => done[s] = h.handled[s]
  OBVIOUS
<1> HIDE DEF done, again
<1>6. /\ Handle(h, items) \in Histories /\ Handle(h, items).handled = done
      /\ Handle(h, items).skipped = h.skipped /\ Handle(h, items).redo = h.redo
      /\ Handle(h, items).ran = h.ran /\ Handle(h, items).waited = h.waited
      /\ Handle(h, items).evicted = h.evicted
  BY <1>2, <1>3, <1>4 DEF Histories
<1> QED BY <1>5, <1>6

(* A batch that was not handled, or may be handled again, repeats nothing. *)
LEMMA HandleOnce ==
  ASSUME NEW h \in Histories, h.twice = {},
         NEW S \in SUBSET Sources, NEW items \in [S -> SUBSET Nat],
         \A s \in S : \A i \in items[s] \cap h.handled[s] : i \in h.redo[s]
  PROVE Handle(h, items).twice = {}
<1> DEFINE again == UNION {{<<s, i>> : i \in (items[s] \cap h.handled[s]) \ h.redo[s]} : s \in S}
<1>1. DOMAIN items = S OBVIOUS
<1>2. Handle(h, items).twice = h.twice \cup again BY <1>1 DEF Handle, Histories
<1>3. again = {} OBVIOUS
<1> QED BY <1>2, <1>3

(* What a turn was not given is skipped. *)
LEMMA EvictFacts ==
  ASSUME NEW h \in Histories, NEW source \in Sources, NEW from \in Nat, NEW to \in Nat,
         NEW g, g = Evict(h, source, from, to)
  PROVE /\ g \in Histories
        /\ g.skipped[source] = h.skipped[source] \cup ((from + 1) .. to)
        /\ \A s \in Sources : s # source => g.skipped[s] = h.skipped[s]
        /\ g.evicted = h.evicted \cup ((from + 1) .. to)
        /\ g.handled = h.handled /\ g.redo = h.redo /\ g.twice = h.twice
        /\ g.ran = h.ran /\ g.waited = h.waited
<1> DEFINE range == (from + 1) .. to
           skipped == [h.skipped EXCEPT ![source] = h.skipped[source] \cup range]
<1>1. range \in SUBSET Nat OBVIOUS
<1>2. Evict(h, source, from, to) = [h EXCEPT !.skipped = skipped, !.evicted = h.evicted \cup range]
  BY DEF Evict, Skip, Histories
<1> HIDE DEF range
<1>3. /\ skipped \in [Sources -> SUBSET Nat]
      /\ \A s \in Sources : skipped[s] =
           IF s = source THEN h.skipped[s] \cup range ELSE h.skipped[s]
  BY <1>1 DEF Histories
<1> HIDE DEF skipped
<1> QED BY <1>1, <1>2, <1>3 DEF Histories, range

(* The state a restart loads is as good as those in the database. *)
LEMMA SavedCursor ==
  ASSUME IInv
  PROVE /\ Saved \in DutyStates
        /\ \A kind \in Cursored :
             /\ Saved.cursor[kind] <= logs[SourceOf[kind]]
             /\ (1 .. Saved.cursor[kind]) \subseteq
                  history.handled[SourceOf[kind]] \cup history.skipped[SourceOf[kind]]
<1>1. disk.duties \in SUBSET DutyStates /\ AtMostOne(disk.duties)
  BY DEF IInv, Shapes, Disks
<1>2. CASE disk.duties = {}
  <2>1. Saved = FreshState BY <1>1, <1>2, SavedFacts
  <2>2. \A kind \in Cursored : Saved.cursor[kind] = -1
    BY <2>1, FreshFacts, CursoredFacts DEF Never
  <2>3. \A kind \in Cursored : logs[SourceOf[kind]] \in Nat
    BY CursoredFacts DEF IInv, Shapes
  <2>4. 1 .. (-1) = {} OBVIOUS
  <2> QED BY <1>1, <2>2, <2>3, <2>4, SavedFacts
<1>3. CASE disk.duties # {}
  <2>1. Saved \in disk.duties BY <1>1, <1>3, SavedFacts
  <2>2. \A kind \in Cursored : Saved.cursor[kind] <= logs[SourceOf[kind]]
    BY <2>1 DEF IInv, Behind
  <2>3. \A kind \in Cursored : (1 .. Saved.cursor[kind]) \subseteq
            history.handled[SourceOf[kind]] \cup history.skipped[SourceOf[kind]]
    BY <2>1 DEF IInv, AllCovered, Covered, Cursored
  <2> QED BY <1>1, <2>1, <2>2, <2>3
<1> QED BY <1>2, <1>3

(* A restart has in memory what the database holds. *)
LEMMA BootKeeps == ASSUME IInv, Boot PROVE IInv'
<1>1. /\ run.stage = "down" /\ run \in Runs /\ run.todo = {} /\ fold = NoFold
      /\ used' = used /\ roster' = roster /\ clock' = clock /\ logs' = logs /\ disk' = disk
      /\ fold' = fold /\ triggers' = triggers /\ history' = history /\ memory' = Saved
  BY PlaceFacts DEF Boot, Saved, IInv, Control
<1>2. run' = [run EXCEPT !.stage = "check"] BY DEF Boot
<1>3. run' \in Runs /\ run'.stage = "check" /\ run'.todo = {} BY <1>1, <1>2 DEF Runs
<1>4. Saved \in DutyStates BY SavedCursor
<1>5. Shapes'
  <2>1. /\ clock' \in 0 .. MaxClock /\ used' \in Budgets
        /\ logs' \in [Sources -> Nat] /\ disk' \in Disks
        /\ AtMostOne(disk'.duties) /\ AtMostOne(disk'.fold)
        /\ (fold' = NoFold \/ fold' \in Passes) /\ history' \in Histories
        /\ triggers' \in Seq({0} \cup Duties) /\ Len(triggers') <= TriggerSlots
    BY <1>1 DEF IInv, Shapes
  <2> QED BY <1>1, <1>3, <1>4, <2>1, ShapesKept DEF IInv
<1>6. Control' BY <1>1, <1>3, NoFoldFacts DEF Control
<1>7. Behind' BY <1>1, SavedCursor DEF IInv, Behind
<1>8. Turning' BY <1>1, <1>3, NotTurning
<1>9. Reading' BY <1>1, ReadingKept DEF IInv
<1>10. AllCovered' BY <1>1, SavedCursor DEF IInv, AllCovered, Covered, Cursored
<1>11. Loaded' = Loaded BY <1>1, <1>3 DEF Loaded
<1>12. Duties' = Duties BY <1>1, SameDuties
<1>13. Once' BY <1>1, <1>11 DEF IInv, Once
<1>14. HandledOnce' BY <1>1 DEF IInv, HandledOnce
<1>15. Ran' BY <1>1, <1>11, <1>12 DEF IInv, Ran
<1>16. Waiting' BY <1>1 DEF IInv, Waiting
<1> QED BY <1>5, <1>6, <1>7, <1>8, <1>9, <1>10, <1>13, <1>14, <1>15, <1>16 DEF IInv

(* The record of a run stores the cursors as they are, or leaves the      *)
(* database behind.                                                        *)
LEMMA RecordKeeps == ASSUME IInv, Record PROVE IInv'
<1>1. /\ run.stage = "record" /\ run \in Runs /\ run.todo # {}
      /\ Current \in run.todo /\ Current \in Duties /\ clock \in Nat
      /\ ~ (fold.stage = "turn" /\ fold.duty) /\ used \in Budgets
      /\ roster' = roster /\ clock' = clock /\ logs' = logs /\ fold' = fold
      /\ triggers' = triggers
  BY PlaceFacts DEF Record
<1>2. memory \in DutyStates /\ disk \in Disks /\ history \in Histories /\ clock \in Positions
  BY <1>1 DEF IInv, Shapes, Positions
<1>3. memory' = [memory EXCEPT !.last[Current] = clock] BY DEF Record, RecordRun
<1>4. /\ memory' \in DutyStates /\ memory'.cursor = memory.cursor
      /\ memory'.last = [memory.last EXCEPT ![Current] = clock]
  BY <1>1, <1>2, <1>3 DEF DutyStates
<1>5. /\ \/ disk'.duties = {memory'}
         \/ disk' = disk
      /\ disk'.fold = disk.fold /\ disk' \in Disks /\ AtMostOne(disk'.duties)
      /\ used' \in Budgets /\ used'.growth = used.growth
  <2>1. CASE disk' = [disk EXCEPT !.duties = {memory'}] /\ used' = used
    BY <1>1, <1>2, <1>4, <2>1 DEF Disks, AtMostOne
  <2>2. CASE Use("faults") /\ disk' = disk
    BY <1>1, <2>2, UseFacts DEF IInv, Shapes
  <2> QED BY <2>1, <2>2 DEF Record
<1>6. PICK ran \in {clock, Never} :
        /\ ran = clock <=> disk'.duties = {memory'}
        /\ history' = [history EXCEPT !.ran[Current] = ran]
  BY <1>1 DEF Record, Never
<1>7. ran \in Positions BY <1>2 DEF Positions
<1>8. /\ history' \in Histories /\ history'.handled = history.handled
      /\ history'.skipped = history.skipped /\ history'.redo = history.redo
      /\ history'.twice = history.twice /\ history'.waited = history.waited
      /\ history'.ran = [history.ran EXCEPT ![Current] = ran]
  BY <1>1, <1>2, <1>6, <1>7 DEF Histories
<1>9. /\ run' \in Runs /\ run'.stage \in {"check", "probe"}
      /\ run'.todo = {} <=> run'.stage = "check"
  <2> DEFINE rest == run.todo \ {Current}
  <2>1. run' = [run EXCEPT !.stage = IF rest = {} THEN "check" ELSE "probe",
                           !.todo = rest, !.upTo = 0]
    BY DEF Record
  <2>2. rest \in SUBSET Duties BY <1>1 DEF Runs
  <2> HIDE DEF rest
  <2>3. /\ run' \in Runs /\ run'.todo = rest
        /\ run'.stage = IF rest = {} THEN "check" ELSE "probe"
    BY <1>1, <2>1, <2>2 DEF Runs
  <2> QED BY <2>3
<1>10. Shapes'
  <2>1. /\ clock' \in 0 .. MaxClock /\ logs' \in [Sources -> Nat] /\ AtMostOne(disk'.fold)
        /\ (fold' = NoFold \/ fold' \in Passes)
        /\ triggers' \in Seq({0} \cup Duties) /\ Len(triggers') <= TriggerSlots
    BY <1>1, <1>5 DEF IInv, Shapes
  <2> QED BY <1>1, <1>4, <1>5, <1>8, <1>9, <2>1, ShapesKept DEF IInv
<1>11. Control' BY <1>1, <1>9, ControlKept DEF IInv
<1>12. \A state \in {memory'} \cup disk'.duties :
         \E known \in {memory} \cup disk.duties : state.cursor = known.cursor
  BY <1>4, <1>5
<1>13. Behind' BY <1>1, <1>5, <1>12 DEF IInv, Behind
<1>14. Turning' BY <1>1, <1>9, NotTurning
<1>15. Reading' BY <1>1, <1>5, ReadingKept DEF IInv
<1>16. AllCovered' BY <1>5, <1>8, <1>12 DEF IInv, AllCovered, Covered
<1>17. Loaded' = memory' /\ Loaded = memory BY <1>1, <1>9 DEF Loaded
<1>18. Duties' = Duties BY <1>1, SameDuties
<1>19. Once' BY <1>1, <1>4, <1>5, <1>8, <1>17 DEF IInv, Once
<1>20. HandledOnce' BY <1>8 DEF IInv, HandledOnce
<1>21. Ran'
  <2>1. \A i \in Duties : history'.ran[i] = IF i = Current THEN ran ELSE history.ran[i]
    BY <1>2, <1>8 DEF Histories
  <2>2. \A i \in Duties : memory'.last[i] = IF i = Current THEN clock ELSE memory.last[i]
    BY <1>2, <1>4 DEF DutyStates
  <2> QED BY <1>6, <1>17, <1>18, <2>1, <2>2 DEF IInv, Ran
<1>22. Waiting' BY <1>5, <1>8 DEF IInv, Waiting
<1> QED BY <1>10, <1>11, <1>13, <1>14, <1>15, <1>16, <1>19, <1>20, <1>21, <1>22 DEF IInv

(* A cursor moves to an end such that everything up to it is handled or    *)
(* skipped and everything handled beyond it may be handled again.          *)
LEMMA CursorKeeps ==
  ASSUME IInv, NEW kind \in Cursored, NEW end \in Nat,
         UNCHANGED <<roster, clock, logs, disk, fold, triggers, used>>,
         run.stage \in {"probe", "turn"}, ~ (fold.stage = "turn" /\ fold.duty), ToRecord,
         memory' = [memory EXCEPT !.cursor[kind] = end],
         end <= logs[SourceOf[kind]], history' \in Histories,
         history'.redo = history.redo, history'.ran = history.ran,
         history'.waited = history.waited, history'.twice = {},
         \A s \in Sources : /\ history.handled[s] \subseteq history'.handled[s]
                            /\ history.skipped[s] \subseteq history'.skipped[s]
                            /\ s # SourceOf[kind] => history'.handled[s] = history.handled[s],
         (1 .. end) \subseteq
            history'.handled[SourceOf[kind]] \cup history'.skipped[SourceOf[kind]],
         history'.handled[SourceOf[kind]] \subseteq 1 .. logs[SourceOf[kind]],
         \A i \in history'.handled[SourceOf[kind]] :
            i > end => i \in history.redo[SourceOf[kind]]
  PROVE IInv'
<1>1. /\ run \in Runs /\ run.todo # {} /\ used \in Budgets
      /\ memory \in DutyStates /\ kind \in Kinds /\ SourceOf[kind] \in Sources
      /\ SourceOf[kind] \notin Sessions
  BY PlaceFacts, CursoredFacts DEF IInv, Shapes
<1>2. run' \in Runs /\ run'.stage = "record" /\ run'.todo = run.todo
  BY <1>1, RunFacts
<1>3. /\ memory' \in DutyStates /\ memory'.last = memory.last
      /\ memory'.cursor = [memory.cursor EXCEPT ![kind] = end]
  BY <1>1 DEF DutyStates, Positions
<1>4. \A k \in Kinds : memory'.cursor[k] = IF k = kind THEN end ELSE memory.cursor[k]
  BY <1>1, <1>3 DEF DutyStates
<1>5. Shapes'
  <2>1. /\ clock' \in 0 .. MaxClock /\ logs' \in [Sources -> Nat] /\ disk' \in Disks
        /\ AtMostOne(disk'.duties) /\ AtMostOne(disk'.fold)
        /\ (fold' = NoFold \/ fold' \in Passes) /\ used' \in Budgets
        /\ triggers' \in Seq({0} \cup Duties) /\ Len(triggers') <= TriggerSlots
    BY DEF IInv, Shapes
  <2> QED BY <1>2, <1>3, <2>1, ShapesKept DEF IInv
<1>6. Control' BY <1>1, <1>2, ControlKept DEF IInv
<1>7. Behind'
  <2>1. \A k \in Cursored : memory'.cursor[k] <= logs[SourceOf[k]]
    BY <1>4, CursoredFacts DEF IInv, Behind
  <2> QED BY <2>1 DEF IInv, Behind
<1>8. Turning' BY <1>2, NotTurning
<1>9. Reading' BY ReadingKept DEF IInv
<1>10. AllCovered'
  <2>1. ASSUME NEW k \in Cursored
        PROVE (1 .. memory'.cursor[k]) \subseteq
                 history'.handled[SourceOf[k]] \cup history'.skipped[SourceOf[k]]
    <3>1. CASE k = kind BY <1>4, <3>1, CursoredFacts
    <3>2. CASE k # kind
      <4>1. (1 .. memory.cursor[k]) \subseteq
               history.handled[SourceOf[k]] \cup history.skipped[SourceOf[k]]
        BY DEF IInv, AllCovered, Covered, Cursored
      <4> QED BY <1>4, <3>2, <4>1, CursoredFacts
    <3> QED BY <3>1, <3>2
  <2>2. ASSUME NEW state \in disk.duties, NEW k \in Cursored
        PROVE (1 .. state.cursor[k]) \subseteq
                 history'.handled[SourceOf[k]] \cup history'.skipped[SourceOf[k]]
    <3>1. (1 .. state.cursor[k]) \subseteq
             history.handled[SourceOf[k]] \cup history.skipped[SourceOf[k]]
      BY DEF IInv, AllCovered, Covered, Cursored
    <3> QED BY <3>1, CursoredFacts
  <2>3. ASSUME NEW doc \in disk.fold, NEW s \in Sessions
        PROVE (1 .. doc.marks[s]) \subseteq history'.handled[s] \cup history'.skipped[s]
    <3>1. (1 .. doc.marks[s]) \subseteq history.handled[s] \cup history.skipped[s]
      BY DEF IInv, AllCovered, Covered
    <3> QED BY <3>1, SourceFacts
  <2> QED BY <2>1, <2>2, <2>3 DEF AllCovered, Covered, Cursored
<1>11. Loaded' = memory' /\ Loaded = memory BY <1>2 DEF Loaded
<1>12. Once'
  <2>1. \A s \in Sources : history'.handled[s] \subseteq 1 .. logs[s]
    BY DEF IInv, Once
  <2>2. ASSUME NEW k \in Cursored, memory'.cursor[k] # Never,
               NEW i \in history'.handled[SourceOf[k]], i > memory'.cursor[k]
        PROVE i \in history.redo[SourceOf[k]]
    <3>1. CASE k = kind BY <1>4, <2>2, <3>1, CursoredFacts
    <3>2. CASE k # kind
      <4>1. SourceOf[k] # SourceOf[kind] /\ SourceOf[k] \in Sources /\ k \in Kinds
        BY <3>2, CursoredFacts
      <4>2. memory'.cursor[k] = memory.cursor[k]
            /\ history'.handled[SourceOf[k]] = history.handled[SourceOf[k]]
        BY <1>4, <3>2, <4>1
      <4> QED BY <1>11, <2>2, <4>2 DEF IInv, Once
    <3> QED BY <3>1, <3>2
  <2>3. \A s \in Sessions : history'.handled[s] = history.handled[s]
    BY <1>1, SourceFacts
  <2> QED BY <1>11, <2>1, <2>2, <2>3 DEF IInv, Once
<1>13. HandledOnce' BY DEF HandledOnce
<1>14. Duties' = Duties BY SameDuties
<1>15. Ran' BY <1>3, <1>11, <1>14 DEF IInv, Ran
<1>16. Waiting' BY DEF IInv, Waiting
<1> QED BY <1>5, <1>6, <1>7, <1>8, <1>9, <1>10, <1>12, <1>13, <1>15, <1>16 DEF IInv

(* A source is primed: what it held is skipped. *)
LEMMA PrimeKeeps ==
  ASSUME IInv, NEW kind \in Cursored, Prime(kind) PROVE IInv'
<1> DEFINE source == SourceOf[kind]
<1>1. /\ source \in Sources /\ kind \in Kinds /\ run.stage = "probe"
      /\ ~ (fold.stage = "turn" /\ fold.duty)
  BY PlaceFacts, CursoredFacts DEF Prime, Probing
<1>2. logs[source] \in Nat /\ history \in Histories BY <1>1 DEF IInv, Shapes
<1>3. history' = [history EXCEPT !.skipped[source] = @ \cup (1 .. logs[source])]
  BY DEF Prime, Skip
<1>4. (1 .. logs[source]) \in SUBSET Nat BY <1>2
<1>5. /\ history' \in Histories /\ history'.handled = history.handled
      /\ history'.redo = history.redo /\ history'.twice = history.twice
      /\ history'.ran = history.ran /\ history'.waited = history.waited
      /\ history'.skipped =
           [history.skipped EXCEPT ![source] = @ \cup (1 .. logs[source])]
  BY <1>1, <1>2, <1>3, <1>4 DEF Histories
<1>6. \A s \in Sources : history'.skipped[s] =
        IF s = source THEN history.skipped[s] \cup (1 .. logs[source]) ELSE history.skipped[s]
  BY <1>1, <1>2, <1>5 DEF Histories
<1>7. history.twice = {} BY DEF IInv, HandledOnce
<1>8. history.handled[source] \subseteq 1 .. logs[source] BY <1>1 DEF IInv, Once
<1>9. \A i \in history.handled[source] : ~ (i > logs[source]) BY <1>2, <1>8
<1>10. memory' = [memory EXCEPT !.cursor[kind] = logs[source]] /\ ToRecord BY DEF Prime
<1>11. (1 .. logs[source]) \subseteq history'.handled[source] \cup history'.skipped[source]
  BY <1>1, <1>6
<1>12. logs[source] <= logs[source] BY <1>2
<1>13. UNCHANGED <<roster, clock, logs, disk, fold, triggers, used>> BY DEF Prime
<1>14. \A s \in Sources : /\ history.handled[s] \subseteq history'.handled[s]
                          /\ history.skipped[s] \subseteq history'.skipped[s]
                          /\ history'.handled[s] = history.handled[s]
  BY <1>5, <1>6
<1> QED BY <1>1, <1>2, <1>5, <1>7, <1>8, <1>9, <1>10, <1>11, <1>12, <1>13, <1>14, CursorKeeps

(* A turn succeeded: what it read was between the cursor and the end that  *)
(* the probe measured.                                                     *)
LEMMA ShownFacts ==
  ASSUME NEW kind \in Cursored, run.upTo \in Nat, memory.cursor[kind] \in 0 .. run.upTo
  PROVE /\ Shown(kind) \in Nat
        /\ memory.cursor[kind] <= Shown(kind) /\ Shown(kind) <= run.upTo
        /\ Shown(kind) < run.upTo =>
             kind = "analysis" /\ Shown(kind) = memory.cursor[kind] + SectionItems
<1>1. SectionItems \in Nat \ {0} BY DutiesAssumption
<1>2. CASE kind = "analysis"
  BY <1>1, <1>2 DEF Shown, Lower
<1>3. CASE kind # "analysis"
  BY <1>3 DEF Shown
<1> QED BY <1>2, <1>3

LEMMA CursoredTurnKeeps ==
  ASSUME IInv, NEW kind \in Cursored, TurnSucceeds(kind) PROVE IInv'
<1> DEFINE source == SourceOf[kind]
           shown == Shown(kind)
           items == [s \in {source} |-> (memory.cursor[kind] + 1) .. shown]
           given == Handle(history, items)
<1>1. /\ source \in Sources /\ kind \in Kinds /\ run.stage = "turn"
      /\ roster[Current].kind = kind /\ run.upTo \in Nat
      /\ ~ (fold.stage = "turn" /\ fold.duty)
  BY PlaceFacts, CursoredFacts DEF TurnSucceeds, Cursored, Runs
<1>2. memory.cursor[kind] \in 0 .. run.upTo /\ run.upTo <= logs[source]
  BY <1>1 DEF IInv, Turning
<1>3. logs[source] \in Nat /\ history \in Histories /\ memory \in DutyStates
  BY <1>1 DEF IInv, Shapes
<1>4. history' = Evict(given, source, shown, run.upTo) BY DEF TurnSucceeds, Cursored
<1>18. shown \in Nat /\ memory.cursor[kind] <= shown /\ shown <= run.upTo
  BY <1>1, <1>2, ShownFacts
<1> HIDE DEF shown
<1>5. items \in [{source} -> SUBSET Nat] /\ {source} \in SUBSET Sources
      /\ items[source] = (memory.cursor[kind] + 1) .. shown
  BY <1>1, <1>2, <1>18
<1> HIDE DEF items
<1>6. Loaded = memory /\ memory.cursor[kind] # Never BY <1>1, <1>2 DEF Loaded, Never
<1>7. history.handled[source] \subseteq 1 .. logs[source] BY <1>1 DEF IInv, Once
<1>8. \A i \in history.handled[source] : i > memory.cursor[kind] => i \in history.redo[source]
  BY <1>6 DEF IInv, Once
<1>9. \A i \in items[source] \cap history.handled[source] : i \in history.redo[source]
  <2>1. \A i \in items[source] : i > memory.cursor[kind] BY <1>2, <1>5
  <2> QED BY <1>8, <2>1
<1>10. /\ history' \in Histories
       /\ \A s \in Sources : history'.handled[s] =
            IF s \in {source} THEN history.handled[s] \cup items[s] ELSE history.handled[s]
       /\ \A s \in Sources : history'.skipped[s] =
            IF s = source THEN history.skipped[s] \cup ((shown + 1) .. run.upTo)
                          ELSE history.skipped[s]
       /\ history'.redo = history.redo
       /\ history'.ran = history.ran /\ history'.waited = history.waited
       /\ history'.twice = {}
  <2>1. history.twice = {} BY DEF IInv, HandledOnce
  <2>2. \A s \in {source} : \A i \in items[s] \cap history.handled[s] : i \in history.redo[s]
    BY <1>9
  <2>3. given.twice = {}
    BY <1>3, <1>5, <2>1, <2>2, HandleOnce DEF given
  <2>4. /\ given \in Histories
        /\ \A s \in Sources : given.handled[s] =
             IF s \in {source} THEN history.handled[s] \cup items[s] ELSE history.handled[s]
    <3>1. PICK S \in SUBSET Sources : S = {source} /\ items \in [S -> SUBSET Nat] BY <1>5
    <3>2. /\ given \in Histories
          /\ \A s \in S : given.handled[s] = history.handled[s] \cup items[s]
          /\ \A s \in Sources : s \notin S =>
               given.handled[s] = history.handled[s]
      BY <1>3, <3>1, HandleFacts DEF given
    <3> QED BY <3>1, <3>2
  <2>5. /\ given.skipped = history.skipped
        /\ given.redo = history.redo
        /\ given.ran = history.ran
        /\ given.waited = history.waited
    BY <1>3, <1>5, HandleFacts DEF given
  <2> HIDE DEF given
  <2>6. PICK from \in Nat, to \in Nat : from = shown /\ to = run.upTo BY <1>1, <1>18
  <2>7. history' = Evict(given, source, from, to) BY <1>4, <2>6
  <2>8. /\ history' \in Histories
        /\ history'.skipped[source] = given.skipped[source] \cup ((from + 1) .. to)
        /\ \A s \in Sources : s # source => history'.skipped[s] = given.skipped[s]
        /\ history'.handled = given.handled /\ history'.redo = given.redo
        /\ history'.twice = given.twice
        /\ history'.ran = given.ran /\ history'.waited = given.waited
    <3>0. PICK g : g = history'
      OBVIOUS
    <3>1. PICK h \in Histories, s \in Sources : h = given /\ s = source
      BY <1>1, <2>4
    <3>2. g = Evict(h, s, from, to) BY <2>7, <3>0, <3>1
    <3>3. /\ g \in Histories
          /\ g.handled = h.handled /\ g.redo = h.redo /\ g.twice = h.twice
          /\ g.ran = h.ran /\ g.waited = h.waited
      BY <3>2, EvictFacts
    <3>4. /\ g.skipped[s] = h.skipped[s] \cup ((from + 1) .. to)
          /\ \A t \in Sources : t # s => g.skipped[t] = h.skipped[t]
      BY <3>2, EvictFacts
    <3> QED BY <3>0, <3>1, <3>3, <3>4
  <2> QED BY <2>3, <2>4, <2>5, <2>6, <2>8
<1>11. history'.handled[source] = history.handled[source] \cup items[source]
  BY <1>1, <1>10
<1>12. (1 .. run.upTo) \subseteq history'.handled[source] \cup history'.skipped[source]
  <2>1. (1 .. memory.cursor[kind]) \subseteq history.handled[source] \cup history.skipped[source]
    BY DEF IInv, AllCovered, Covered, Cursored
  <2>2. \A i \in 1 .. run.upTo : \/ i \in 1 .. memory.cursor[kind] \/ i \in items[source]
                                 \/ i \in (shown + 1) .. run.upTo
    BY <1>1, <1>2, <1>5, <1>18
  <2>3. history'.skipped[source] = history.skipped[source] \cup ((shown + 1) .. run.upTo)
    BY <1>1, <1>10
  <2> QED BY <1>11, <2>1, <2>2, <2>3
<1>13. history'.handled[source] \subseteq 1 .. logs[source]
  <2>1. PICK c \in Nat : c = memory.cursor[kind] BY <1>2
  <2>2. \A i \in (c + 1) .. shown : i \in 1 .. logs[source] BY <1>1, <1>2, <1>3, <1>18, <2>1
  <2>3. items[source] \subseteq 1 .. logs[source] BY <1>5, <2>1, <2>2
  <2> QED BY <1>7, <1>11, <2>3
<1>14. ASSUME NEW i \in history'.handled[source], i > run.upTo
       PROVE i \in history.redo[source]
  <2>1. i \notin items[source]
    <3>1. \A n \in items[source] : n <= run.upTo /\ n \in Nat BY <1>1, <1>2, <1>5, <1>18
    <3> QED BY <1>1, <1>14, <3>1
  <2>2. i \in history.handled[source] BY <1>11, <2>1
  <2>3. i \in Nat BY <1>3, <1>7, <2>2
  <2>4. i > memory.cursor[kind] BY <1>1, <1>2, <1>14, <2>3
  <2> QED BY <1>8, <2>2, <2>4
<1>15. \A s \in Sources : /\ history.handled[s] \subseteq history'.handled[s]
                          /\ history.skipped[s] \subseteq history'.skipped[s]
                          /\ s # source => history'.handled[s] = history.handled[s]
  BY <1>10
<1>16. memory' = [memory EXCEPT !.cursor[kind] = run.upTo] /\ ToRecord
  BY <1>1 DEF TurnSucceeds, Advanced
<1>17. UNCHANGED <<roster, clock, logs, disk, fold, triggers, used>> BY DEF TurnSucceeds
<1> QED
  BY <1>1, <1>2, <1>10, <1>12, <1>13, <1>14, <1>15, <1>16, <1>17, CursorKeeps

(* A warm build keeps a cursor that says nothing about what was handled. *)
LEMMA WarmTurnKeeps ==
  ASSUME IInv, TurnSucceeds("warm") PROVE IInv'
<1>1. /\ run.stage = "turn" /\ roster[Current].kind = "warm" /\ run.upTo \in Nat
      /\ ~ (fold.stage = "turn" /\ fold.duty)
      /\ run \in Runs /\ run.todo # {} /\ used \in Budgets /\ memory \in DutyStates
  BY PlaceFacts DEF TurnSucceeds, Runs, IInv, Shapes
<1>2. /\ memory' = [memory EXCEPT !.cursor["warm"] = run.upTo] /\ ToRecord
      /\ history' = history
      /\ UNCHANGED <<roster, clock, logs, disk, fold, triggers, used>>
  BY DEF TurnSucceeds, Advanced, Kinds
<1>3. run' \in Runs /\ run'.stage = "record" /\ run'.todo = run.todo
  BY <1>1, <1>2, RunFacts
<1>4. /\ memory' \in DutyStates /\ memory'.last = memory.last
      /\ \A k \in Cursored : memory'.cursor[k] = memory.cursor[k]
  BY <1>1, <1>2 DEF DutyStates, Positions, Cursored, Kinds
<1>5. Shapes'
  <2>1. /\ clock' \in 0 .. MaxClock /\ logs' \in [Sources -> Nat] /\ disk' \in Disks
        /\ AtMostOne(disk'.duties) /\ AtMostOne(disk'.fold)
        /\ (fold' = NoFold \/ fold' \in Passes) /\ used' \in Budgets
        /\ history' \in Histories
        /\ triggers' \in Seq({0} \cup Duties) /\ Len(triggers') <= TriggerSlots
    BY <1>2 DEF IInv, Shapes
  <2> QED BY <1>2, <1>3, <1>4, <2>1, ShapesKept DEF IInv
<1>6. Control' BY <1>1, <1>2, <1>3, ControlKept DEF IInv
<1>7. Behind'
  <2>1. \A k \in Cursored : memory'.cursor[k] <= logs[SourceOf[k]] BY <1>4 DEF IInv, Behind
  <2> QED BY <1>2, <2>1 DEF IInv, Behind
<1>8. Turning' BY <1>2, <1>3, NotTurning
<1>9. Reading' BY <1>2, ReadingKept DEF IInv
<1>10. AllCovered'
  <2>1. \A k \in Cursored : (1 .. memory'.cursor[k]) \subseteq
            history.handled[SourceOf[k]] \cup history.skipped[SourceOf[k]]
    BY <1>4 DEF IInv, AllCovered, Covered, Cursored
  <2> QED BY <1>2, <2>1 DEF IInv, AllCovered, Covered, Cursored
<1>11. Loaded' = memory' /\ Loaded = memory BY <1>1, <1>3 DEF Loaded
<1>12. Once' BY <1>2, <1>4, <1>11 DEF IInv, Once
<1>13. HandledOnce' BY <1>2 DEF IInv, HandledOnce
<1>14. Duties' = Duties BY <1>2, SameDuties
<1>15. Ran' BY <1>2, <1>4, <1>11, <1>14 DEF IInv, Ran
<1>16. Waiting' BY <1>2 DEF IInv, Waiting
<1> QED BY <1>5, <1>6, <1>7, <1>8, <1>9, <1>10, <1>12, <1>13, <1>15, <1>16 DEF IInv

LEMMA TurnSucceedsKeeps ==
  ASSUME IInv, NEW kind \in {"prompt", "review", "analysis", "warm"}, TurnSucceeds(kind)
  PROVE IInv'
<1>1. CASE kind = "prompt"
  <2>1. /\ run.stage = "turn" /\ roster[Current].kind = "prompt" /\ ToRecord
        /\ UNCHANGED <<roster, clock, logs, memory, disk, fold, triggers, used, history>>
    BY <1>1 DEF TurnSucceeds, Kinds
  <2> QED BY <2>1, PlaceFacts, ToRecordKeeps
<1>2. CASE kind \in Cursored BY <1>2, CursoredTurnKeeps
<1>3. CASE kind = "warm" BY <1>3, WarmTurnKeeps
<1> QED BY <1>1, <1>2, <1>3 DEF Cursored

-----------------------------------------------------------------------------
(* Steps of the distiller.                                                 *)

(* A pass is asked for while none is under way. *)
LEMMA AskedFacts ==
  ASSUME IInv, NEW byDuty \in BOOLEAN, Asked(byDuty)
  PROVE /\ fold = NoFold /\ fold.stage = "idle" /\ run.stage # "down"
        /\ used' \in Budgets /\ used'.growth = used.growth
        /\ byDuty => run.stage = "turn" /\ roster[Current].kind = "distill"
<1>1. used' \in Budgets /\ used'.growth = used.growth
  BY PlaceFacts, UseFacts DEF Asked
<1>2. fold = NoFold BY NoFoldFacts DEF Asked, IInv, Shapes
<1> QED BY <1>1, <1>2 DEF Asked

(* The reply leaves the scheduler where it was or sends it on to the       *)
(* record.                                                                 *)
LEMMA AnswerFacts ==
  ASSUME IInv, NEW byDuty \in BOOLEAN, Answer(byDuty), run.stage # "down",
         byDuty => run.stage = "turn", roster' = roster, memory' = memory, logs' = logs
  PROVE /\ run' \in Runs /\ run'.stage # "down" /\ Turning'
        /\ fold' = NoFold => Control'
<1>1. /\ run \in Runs /\ logs \in [Sources -> Nat]
      /\ run.todo = {} <=> run.stage \in {"down", "check", "sleep"}
  BY DEF IInv, Shapes, Control
<1>2. CASE byDuty
  <2>1. run' \in Runs /\ run'.stage = "record" /\ run'.todo = run.todo
    BY <1>1, <1>2, RunFacts DEF Answer
  <2>2. run.todo # {} BY <1>1, <1>2
  <2> QED BY <2>1, <2>2, NotTurning, NoFoldFacts DEF Control
<1>3. CASE ~ byDuty
  <2>1. run' = run BY <1>3 DEF Answer
  <2>2. Turning' BY <1>1, <2>1, TurningKept DEF IInv
  <2> QED BY <1>1, <2>1, <2>2, NoFoldFacts DEF Control
<1> QED BY <1>2, <1>3

LEMMA FoldIdleKeeps ==
  ASSUME IInv, NEW byDuty \in BOOLEAN, FoldIdle(byDuty) PROVE IInv'
<1>1. /\ fold = NoFold /\ run.stage # "down" /\ used' \in Budgets
      /\ used'.growth = used.growth /\ (byDuty => run.stage = "turn")
  BY AskedFacts DEF FoldIdle
<1>2. /\ UNCHANGED <<roster, clock, logs, memory, disk, fold, triggers, history>>
      /\ Answer(byDuty)
  BY DEF FoldIdle
<1>3. run' \in Runs /\ run'.stage # "down" /\ Turning' /\ Control'
  BY <1>1, <1>2, AnswerFacts
<1> QED BY <1>1, <1>2, <1>3, OnlyRunKeeps

LEMMA FoldFailsKeeps == ASSUME IInv, FoldFails PROVE IInv'
<1>1. /\ fold \in Passes /\ fold.duty \in BOOLEAN /\ fold.stage = "turn"
  BY NoFoldFacts DEF FoldFails, IInv, Shapes, Passes
<1>2. run.stage # "down" /\ (fold.duty => run.stage = "turn")
  BY <1>1, NoFoldFacts DEF IInv, Control
<1>3. used' \in Budgets /\ used'.growth = used.growth BY PlaceFacts, UseFacts DEF FoldFails
<1>4. /\ roster' = roster /\ clock' = clock /\ logs' = logs /\ memory' = memory
      /\ disk' = disk /\ triggers' = triggers /\ history' = history
      /\ fold' = NoFold /\ Answer(fold.duty)
  BY DEF FoldFails
<1>5. run' \in Runs /\ run'.stage # "down" /\ Turning' /\ Control'
  BY <1>1, <1>2, <1>4, AnswerFacts
<1>6. Shapes'
  <2>1. /\ clock' \in 0 .. MaxClock /\ logs' \in [Sources -> Nat] /\ disk' \in Disks
        /\ AtMostOne(disk'.duties) /\ AtMostOne(disk'.fold)
        /\ memory' \in DutyStates /\ history' \in Histories
        /\ triggers' \in Seq({0} \cup Duties) /\ Len(triggers') <= TriggerSlots
    BY <1>4 DEF IInv, Shapes
  <2> QED BY <1>3, <1>4, <1>5, <2>1, ShapesKept DEF IInv
<1>7. Still BY <1>2, <1>3, <1>4, <1>5 DEF Still
<1>8. Reading' BY <1>4, NoFoldFacts DEF Reading
<1> QED BY <1>5, <1>6, <1>7, <1>8, StillKeeps DEF IInv

(* A pass starts with shares that the sessions have, and passes over those *)
(* that will be earlier in the next one.                                   *)
LEMMA FoldStartKeeps ==
  ASSUME IInv, NEW byDuty \in BOOLEAN, FoldStart(byDuty) PROVE IInv'
<1>1. /\ fold = NoFold /\ run.stage # "down" /\ used' \in Budgets
      /\ used'.growth = used.growth
      /\ byDuty => run.stage = "turn" /\ roster[Current].kind = "distill"
  BY AskedFacts DEF FoldStart
<1>2. /\ roster' = roster /\ clock' = clock /\ logs' = logs /\ memory' = memory
      /\ disk' = disk /\ triggers' = triggers /\ history' = history /\ run' = run
  BY DEF FoldStart
<1>3. PICK doc \in disk.fold, left \in [Sessions -> 0 .. SliceTokens],
           advanced \in 1 .. NSessions :
        /\ Gathered(doc.marks, SessionOrder(doc.last), left, advanced)
        /\ fold' = [stage |-> "turn", duty |-> byDuty, marks |-> doc.marks,
                    take |-> [s \in Sessions |-> Share(doc.marks, s, left[s])],
                    last |-> SessionOrder(doc.last)[advanced][2]]
  BY DEF FoldStart
<1>4. /\ logs \in [Sources -> Nat] /\ doc \in Marks
      /\ doc.marks \in [Sessions -> Nat] /\ doc.last \in 0 .. NSessions
      /\ \A s \in Sessions : doc.marks[s] <= logs[s]
  BY DEF IInv, Shapes, Disks, Marks, Behind
<1>5. \A s \in Sessions : /\ Share(doc.marks, s, left[s]) \in Nat
                          /\ doc.marks[s] + Share(doc.marks, s, left[s]) <= logs[s]
  <2>1. \A s \in Sessions : left[s] \in 0 .. SliceTokens OBVIOUS
  <2> QED BY <1>4, <2>1, ShareFacts
<1>6. SessionOrder(doc.last)[advanced][2] \in 1 .. NSessions BY <1>4, OrderFacts
<1>7. fold' \in Passes BY <1>3, <1>4, <1>5, <1>6 DEF Passes
<1>8. Shapes'
  <2>1. /\ clock' \in 0 .. MaxClock /\ logs' \in [Sources -> Nat] /\ disk' \in Disks
        /\ AtMostOne(disk'.duties) /\ AtMostOne(disk'.fold)
        /\ memory' \in DutyStates /\ history' \in Histories /\ run' \in Runs
        /\ triggers' \in Seq({0} \cup Duties) /\ Len(triggers') <= TriggerSlots
    BY <1>2 DEF IInv, Shapes
  <2> QED BY <1>1, <1>2, <1>7, <2>1, ShapesKept DEF IInv
<1>9. Still BY <1>1, <1>2 DEF Still
<1>10. Control'
  <2>1. Current' = Current BY <1>2, SameCurrent
  <2>2. fold'.duty = byDuty BY <1>3
  <2> QED BY <1>1, <1>2, <2>1, <2>2 DEF IInv, Control
<1>11. Turning' BY <1>2, <1>4, TurningKept DEF IInv, Shapes
<1>12. Reading'
  <2>1. /\ fold'.marks = doc.marks /\ fold'.last = SessionOrder(doc.last)[advanced][2]
        /\ \A s \in Sessions : fold'.take[s] = Share(doc.marks, s, left[s])
    BY <1>3
  <2>2. Pending(fold.marks)' = Pending(doc.marks) BY <1>2, <2>1 DEF Pending
  <2>3. ASSUME NEW s \in Sessions, fold'.take[s] = 0, s \in Pending(doc.marks)
        PROVE Distance(s, fold'.last) < Distance(s, doc.last)
    BY <1>3, <1>4, <2>1, <2>3, Sooner
  <2> QED BY <1>2, <1>5, <2>1, <2>2, <2>3 DEF Reading
<1> QED BY <1>8, <1>9, <1>10, <1>11, <1>12, StillKeeps DEF IInv

(* The first pass primes every session. *)
LEMMA FoldPrimedKeeps ==
  ASSUME IInv, NEW byDuty \in BOOLEAN, FoldPrime(byDuty), ~ UNCHANGED <<disk, history>>
  PROVE IInv'
<1>0. ~ UNCHANGED <<disk, history>> OBVIOUS
<1>1. /\ fold = NoFold /\ run.stage # "down" /\ used' \in Budgets
      /\ used'.growth = used.growth /\ (byDuty => run.stage = "turn")
  BY AskedFacts DEF FoldPrime
<1> DEFINE tips == [s \in Sessions |-> logs[s]]
           doc == [last |-> 0, marks |-> tips]
           primed == [s \in Sources |->
                        IF s \in Sessions THEN history.skipped[s] \cup (1 .. logs[s])
                                          ELSE history.skipped[s]]
<1>2. /\ roster' = roster /\ clock' = clock /\ logs' = logs /\ memory' = memory
      /\ fold' = fold /\ triggers' = triggers /\ Answer(byDuty) /\ disk.fold = {}
      /\ disk' = [disk EXCEPT !.fold = {doc}]
      /\ history' = [history EXCEPT !.skipped = primed]
  BY <1>0 DEF FoldPrime
<1>3. run' \in Runs /\ run'.stage # "down" /\ Turning' /\ Control'
  BY <1>1, <1>2, AnswerFacts
<1>4. logs \in [Sources -> Nat] /\ disk \in Disks /\ history \in Histories
  BY DEF IInv, Shapes
<1>5. doc \in Marks /\ doc.last = 0 /\ \A s \in Sessions : doc.marks[s] = logs[s]
  <2>1. tips \in [Sessions -> Nat] BY <1>4, SourceFacts
  <2>2. 0 \in 0 .. NSessions BY Numbers
  <2> QED BY <2>1, <2>2 DEF Marks
<1>6. /\ primed \in [Sources -> SUBSET Nat]
      /\ \A s \in Sources : history.skipped[s] \subseteq primed[s]
      /\ \A s \in Sessions : 1 .. logs[s] \subseteq primed[s]
  <2>1. \A s \in Sources : history.skipped[s] \in SUBSET Nat BY <1>4 DEF Histories
  <2>2. \A s \in Sources : 1 .. logs[s] \in SUBSET Nat BY <1>4
  <2> QED BY <2>1, <2>2, SourceFacts
<1> HIDE DEF doc, primed, tips
<1>7. disk' \in Disks /\ disk'.fold = {doc} /\ disk'.duties = disk.duties
  BY <1>2, <1>4, <1>5 DEF Disks
<1>8. /\ history' \in Histories /\ history'.handled = history.handled
      /\ history'.redo = history.redo /\ history'.twice = history.twice
      /\ history'.ran = history.ran /\ history'.waited = history.waited
      /\ history'.skipped = primed
  BY <1>2, <1>4, <1>6 DEF Histories
<1>9. Shapes'
  <2>1. /\ clock' \in 0 .. MaxClock /\ logs' \in [Sources -> Nat]
        /\ AtMostOne(disk'.duties) /\ memory' \in DutyStates
        /\ triggers' \in Seq({0} \cup Duties) /\ Len(triggers') <= TriggerSlots
    BY <1>2, <1>7 DEF IInv, Shapes
  <2>2. AtMostOne(disk'.fold) BY <1>7 DEF AtMostOne
  <2> QED BY <1>1, <1>2, <1>3, <1>7, <1>8, <2>1, <2>2, ShapesKept DEF IInv
<1>10. Behind'
  <2>1. \A s \in Sessions : doc.marks[s] <= logs[s] BY <1>4, <1>5, SourceFacts
  <2> QED BY <1>1, <1>2, <1>7, <2>1 DEF IInv, Behind
<1>11. Reading' BY <1>1, <1>2, NoFoldFacts DEF Reading
<1>12. AllCovered'
  <2>1. ASSUME NEW state \in {memory} \cup disk.duties, NEW k \in Cursored
        PROVE (1 .. state.cursor[k]) \subseteq
                 history'.handled[SourceOf[k]] \cup history'.skipped[SourceOf[k]]
    <3>1. (1 .. state.cursor[k]) \subseteq
             history.handled[SourceOf[k]] \cup history.skipped[SourceOf[k]]
      BY DEF IInv, AllCovered, Covered, Cursored
    <3>2. SourceOf[k] \in Sources BY CursoredFacts
    <3> QED BY <1>6, <1>8, <3>1, <3>2
  <2>2. \A s \in Sessions :
          (1 .. doc.marks[s]) \subseteq history'.handled[s] \cup history'.skipped[s]
    BY <1>5, <1>6, <1>8
  <2> QED BY <1>2, <1>7, <2>1, <2>2 DEF AllCovered, Covered, Cursored
<1>13. Saved' = Saved BY <1>2, <1>7, SameSaved
<1>14. Loaded' = Loaded BY <1>1, <1>2, <1>3, <1>13 DEF Loaded
<1>15. Once'
  <2>1. ASSUME NEW s \in Sessions, NEW i \in history.handled[s] PROVE ~ (i > doc.marks[s])
    <3>1. history.handled[s] \subseteq 1 .. logs[s] /\ logs[s] \in Nat
      BY <1>4, SourceFacts DEF IInv, Once
    <3> QED BY <1>5, <3>1
  <2> QED BY <1>2, <1>7, <1>8, <1>14, <2>1 DEF IInv, Once
<1>16. HandledOnce' BY <1>8 DEF IInv, HandledOnce
<1>17. Duties' = Duties BY <1>2, SameDuties
<1>18. Ran' BY <1>8, <1>14, <1>17 DEF IInv, Ran
<1>19. Waiting'
  <2>1. ASSUME NEW s \in Sessions PROVE history.waited[s] + Distance(s, 0) <= NSessions - 1
    <3>1. history.waited[s] = 0 BY <1>2 DEF IInv, Waiting
    <3>2. 0 \in 0 .. NSessions /\ NSessions \in Nat BY Numbers
    <3>3. Distance(s, 0) \in 0 .. (NSessions - 1) BY <3>2, OrderFacts
    <3> QED BY <3>1, <3>2, <3>3
  <2> QED BY <1>5, <1>7, <1>8, <2>1 DEF Waiting
<1> QED BY <1>3, <1>9, <1>10, <1>11, <1>12, <1>15, <1>16, <1>18, <1>19 DEF IInv

(* A pass without a document primes, or fails to. *)
LEMMA FoldPrimeKeeps ==
  ASSUME IInv, NEW byDuty \in BOOLEAN, FoldPrime(byDuty) PROVE IInv'
<1>1. CASE UNCHANGED <<disk, history>>
  <2>1. /\ fold = NoFold /\ run.stage # "down" /\ used' \in Budgets
        /\ used'.growth = used.growth /\ (byDuty => run.stage = "turn")
    BY AskedFacts DEF FoldPrime
  <2>2. /\ UNCHANGED <<roster, clock, logs, memory, disk, fold, triggers, history>>
        /\ Answer(byDuty)
    BY <1>1 DEF FoldPrime
  <2>3. run' \in Runs /\ run'.stage # "down" /\ Turning' /\ Control'
    BY <2>1, <2>2, AnswerFacts
  <2> QED BY <2>1, <2>2, <2>3, OnlyRunKeeps
<1> QED BY <1>1, FoldPrimedKeeps

(* Where a restart would go on. *)
LEMMA StoredFacts ==
  ASSUME disk \in Disks, AtMostOne(disk.fold)
  PROVE /\ \A kind \in Cursored : Stored(SourceOf[kind]) = Saved.cursor[kind]
        /\ \A doc \in disk.fold : \A s \in Sessions : Stored(s) = doc.marks[s]
<1>1. Stored(Commits) = Saved.cursor["review"] BY SourceFacts DEF Stored, Saved
<1>2. Stored(Symptoms) = Saved.cursor["analysis"] BY SourceFacts DEF Stored, Saved
<1>3. ASSUME NEW doc \in disk.fold, NEW s \in Sessions PROVE Stored(s) = doc.marks[s]
  <2>1. disk.fold # {} /\ (CHOOSE d \in disk.fold : TRUE) = doc BY DEF AtMostOne
  <2>2. s # Commits /\ s # Symptoms BY SourceFacts
  <2> QED BY <2>1, <2>2 DEF Stored
<1> QED BY <1>1, <1>2, <1>3, CursoredFacts DEF Cursored

(* What is ahead of where a restart goes on may be handled again. *)
LEMMA ForgottenFacts ==
  ASSUME NEW h \in Histories, NEW S \in SUBSET Sources
  PROVE /\ Forgotten(h, S) \in Histories
        /\ Forgotten(h, S).handled = h.handled /\ Forgotten(h, S).skipped = h.skipped
        /\ Forgotten(h, S).twice = h.twice /\ Forgotten(h, S).ran = h.ran
        /\ Forgotten(h, S).waited = h.waited /\ Forgotten(h, S).evicted = h.evicted
        /\ \A s \in Sources : h.redo[s] \subseteq Forgotten(h, S).redo[s]
        /\ \A s \in S : \A i \in h.handled[s] : i > Stored(s) => i \in Forgotten(h, S).redo[s]
        /\ \A s \in Sources : s \notin S => Forgotten(h, S).redo[s] = h.redo[s]
<1> DEFINE redo == [s \in Sources |->
                      IF s \in S THEN h.redo[s] \cup {i \in h.handled[s] : i > Stored(s)}
                                 ELSE h.redo[s]]
<1>1. Forgotten(h, S) = [h EXCEPT !.redo = redo] BY DEF Forgotten, Histories
<1>2. /\ redo \in [Sources -> SUBSET Nat]
      /\ \A s \in Sources : h.redo[s] \subseteq redo[s]
      /\ \A s \in S : \A i \in h.handled[s] : i > Stored(s) => i \in redo[s]
      /\ \A s \in Sources : s \notin S => redo[s] = h.redo[s]
  <2>1. \A s \in Sources : h.handled[s] \in SUBSET Nat /\ h.redo[s] \in SUBSET Nat
    BY DEF Histories
  <2>2. \A s \in Sources : {i \in h.handled[s] : i > Stored(s)} \in SUBSET Nat
    BY <2>1
  <2> QED BY <2>1, <2>2
<1> HIDE DEF redo
<1>3. /\ Forgotten(h, S) \in Histories /\ Forgotten(h, S).redo = redo
      /\ Forgotten(h, S).handled = h.handled /\ Forgotten(h, S).skipped = h.skipped
      /\ Forgotten(h, S).twice = h.twice /\ Forgotten(h, S).ran = h.ran
      /\ Forgotten(h, S).waited = h.waited /\ Forgotten(h, S).evicted = h.evicted
  BY <1>1, <1>2 DEF Histories
<1> QED BY <1>2, <1>3

(* A pass that succeeded. *)
LEMMA FoldSucceedsKeeps == ASSUME IInv, FoldSucceeds PROVE IInv'
<1> DEFINE items == [s \in Sessions |-> (fold.marks[s] + 1) .. Watermarks[s]]
           folded == Handle(history, items)
           patience == [s \in Sessions |->
              IF fold.take[s] > 0 \/ s \notin Pending(fold.marks) THEN 0
              ELSE history.waited[s] + 1]
           nobody == [s \in Sessions |-> 0]
           next == [last |-> fold.last, marks |-> Watermarks]
<1>1. /\ fold \in Passes /\ fold.duty \in BOOLEAN /\ fold.stage = "turn"
      /\ fold.marks \in [Sessions -> Nat] /\ fold.take \in [Sessions -> Nat]
      /\ fold.last \in 1 .. NSessions
  BY NoFoldFacts DEF FoldSucceeds, IInv, Shapes, Passes
<1>2. run.stage # "down" /\ (fold.duty => run.stage = "turn")
  BY <1>1, NoFoldFacts DEF IInv, Control
<1>3. /\ roster' = roster /\ clock' = clock /\ logs' = logs /\ memory' = memory
      /\ triggers' = triggers /\ fold' = NoFold /\ Answer(fold.duty)
  BY DEF FoldSucceeds
<1>4. /\ logs \in [Sources -> Nat] /\ disk \in Disks /\ history \in Histories
      /\ AtMostOne(disk.fold) /\ used \in Budgets
  BY DEF IInv, Shapes
<1>5. PICK doc \in disk.fold :
        /\ fold.marks = doc.marks
        /\ \A s \in Sessions :
             /\ fold.marks[s] + fold.take[s] <= logs[s]
             /\ fold.take[s] = 0 /\ s \in Pending(fold.marks) =>
                  Distance(s, fold.last) < Distance(s, doc.last)
  BY <1>1 DEF IInv, Reading
<1>6. doc \in Marks /\ doc.last \in 0 .. NSessions BY <1>4, <1>5 DEF Disks, Marks
<1>7. /\ Watermarks \in [Sessions -> Nat]
      /\ \A s \in Sessions : /\ Watermarks[s] = fold.marks[s] + fold.take[s]
                             /\ doc.marks[s] <= Watermarks[s]
                             /\ Watermarks[s] <= logs[s]
  BY <1>1, <1>5 DEF Watermarks
<1>8. /\ items \in [Sessions -> SUBSET Nat]
      /\ \A s \in Sessions : items[s] = (doc.marks[s] + 1) .. Watermarks[s]
  BY <1>1, <1>5, <1>7
<1>9. \A s \in Sessions : \A i \in history.handled[s] :
        i > doc.marks[s] => i \in history.redo[s]
  BY <1>5 DEF IInv, Once
<1>10. \A s \in Sessions : doc.marks[s] \in Nat BY <1>1, <1>5
<1> HIDE DEF items
<1>11. \A s \in Sessions : \A i \in items[s] \cap history.handled[s] : i \in history.redo[s]
  <2>1. \A s \in Sessions : \A i \in items[s] : i > doc.marks[s]
    BY <1>7, <1>8, <1>10
  <2> QED BY <1>9, <2>1
<1>12. /\ folded \in Histories
       /\ \A s \in Sources : folded.handled[s] =
            IF s \in Sessions THEN history.handled[s] \cup items[s] ELSE history.handled[s]
       /\ folded.skipped = history.skipped /\ folded.redo = history.redo
       /\ folded.ran = history.ran /\ folded.twice = {}
  <2>1. Sessions \in SUBSET Sources BY SourceFacts
  <2>2. history.twice = {} BY DEF IInv, HandledOnce
  <2>3. folded.twice = {} BY <1>4, <1>8, <1>11, <2>1, <2>2, HandleOnce
  <2>4. /\ Handle(history, items) \in Histories
        /\ \A s \in Sources : Handle(history, items).handled[s] =
             IF s \in Sessions THEN history.handled[s] \cup items[s] ELSE history.handled[s]
    <3>1. history \in Histories BY <1>4
    <3>2. items \in [Sessions -> SUBSET Nat] BY <1>8
    <3>3. Handle(history, items) \in Histories BY <2>1, <3>1, <3>2, HandleFacts
    <3>4. /\ \A s \in Sessions :
               Handle(history, items).handled[s] = history.handled[s] \cup items[s]
          /\ \A s \in Sources : s \notin Sessions =>
               Handle(history, items).handled[s] = history.handled[s]
      BY <2>1, <3>1, <3>2, HandleFacts
    <3> QED BY <3>3, <3>4
  <2>5. /\ Handle(history, items).skipped = history.skipped
        /\ Handle(history, items).redo = history.redo
        /\ Handle(history, items).ran = history.ran
    BY <1>4, <1>8, <2>1, HandleFacts
  <2> QED BY <2>3, <2>4, <2>5
<1> HIDE DEF folded
<1>13. /\ patience \in [Sessions -> Nat] /\ nobody \in [Sessions -> Nat]
  <2>1. \A s \in Sessions : history.waited[s] \in Nat BY <1>4 DEF Histories
  <2> QED BY <2>1
<1>14. \/ /\ disk' = [disk EXCEPT !.fold = {next}]
          /\ history' = [folded EXCEPT !.waited = patience]
          /\ used' = used
       \/ /\ Use("faults") /\ disk' = disk
          /\ history' = [Forgotten(folded, Sessions) EXCEPT !.waited = nobody]
  BY DEF FoldSucceeds, items, folded
<1>15. /\ next \in Marks /\ next.last = fold.last /\ next.marks = Watermarks
  <2>1. fold.last \in 0 .. NSessions BY <1>1, Numbers
  <2> QED BY <1>7, <2>1 DEF Marks
<1>16. patience = [s \in Sessions |->
              IF fold.take[s] > 0 \/ s \notin Pending(fold.marks) THEN 0
              ELSE history.waited[s] + 1]
       /\ nobody = [s \in Sessions |-> 0]
  OBVIOUS
<1> HIDE DEF patience, nobody, next
<1>17. /\ history' \in Histories /\ history'.handled = folded.handled
       /\ history'.skipped = history.skipped /\ history'.ran = history.ran
       /\ history'.twice = {}
       /\ \A s \in Sources : history.redo[s] \subseteq history'.redo[s]
       /\ disk' \in Disks /\ AtMostOne(disk'.fold) /\ disk'.duties = disk.duties
       /\ used' \in Budgets /\ used'.growth = used.growth
       /\ \/ /\ disk'.fold = {next} /\ history'.waited = patience
          \/ /\ disk'.fold = disk.fold /\ history'.waited = nobody
             /\ \A s \in Sessions : \A i \in history'.handled[s] :
                  i > doc.marks[s] => i \in history'.redo[s]
  <2>1. CASE /\ disk' = [disk EXCEPT !.fold = {next}]
             /\ history' = [folded EXCEPT !.waited = patience]
             /\ used' = used
    <3>1. /\ history' \in Histories /\ history'.handled = folded.handled
          /\ history'.skipped = folded.skipped /\ history'.ran = folded.ran
          /\ history'.twice = folded.twice /\ history'.redo = folded.redo
          /\ history'.waited = patience
      BY <1>12, <1>13, <2>1 DEF Histories
    <3>2. disk' \in Disks /\ disk'.fold = {next} /\ disk'.duties = disk.duties
      BY <1>4, <1>15, <2>1 DEF Disks
    <3>3. AtMostOne(disk'.fold) BY <3>2 DEF AtMostOne
    <3> QED BY <1>4, <1>12, <2>1, <3>1, <3>2, <3>3
  <2>2. CASE /\ Use("faults") /\ disk' = disk
             /\ history' = [Forgotten(folded, Sessions) EXCEPT !.waited = nobody]
    <3> DEFINE forgotten == Forgotten(folded, Sessions)
    <3>1. Sessions \in SUBSET Sources BY SourceFacts
    <3>2. /\ forgotten \in Histories
          /\ forgotten.handled = folded.handled /\ forgotten.skipped = folded.skipped
          /\ forgotten.twice = folded.twice /\ forgotten.ran = folded.ran
          /\ \A s \in Sources : folded.redo[s] \subseteq forgotten.redo[s]
          /\ \A s \in Sessions : \A i \in folded.handled[s] :
               i > Stored(s) => i \in forgotten.redo[s]
      BY <1>12, <3>1, ForgottenFacts
    <3> HIDE DEF forgotten
    <3>3. history' = [forgotten EXCEPT !.waited = nobody] BY <2>2 DEF forgotten
    <3>4. /\ history' \in Histories /\ history'.handled = forgotten.handled
          /\ history'.skipped = forgotten.skipped /\ history'.ran = forgotten.ran
          /\ history'.twice = forgotten.twice /\ history'.redo = forgotten.redo
          /\ history'.waited = nobody
      BY <1>13, <3>2, <3>3 DEF Histories
    <3>5. \A s \in Sessions : Stored(s) = doc.marks[s] BY <1>4, <1>5, StoredFacts
    <3>6. used' \in Budgets /\ used'.growth = used.growth BY <1>4, <2>2, UseFacts
    <3> QED BY <1>4, <1>12, <2>2, <3>2, <3>4, <3>5, <3>6
  <2> QED BY <1>14, <2>1, <2>2
<1>18. \A d \in disk.fold : d = doc BY <1>4, <1>5 DEF AtMostOne
<1>19. run' \in Runs /\ run'.stage # "down" /\ Turning' /\ Control'
  BY <1>1, <1>2, <1>3, AnswerFacts
<1>20. Shapes'
  <2>1. /\ clock' \in 0 .. MaxClock /\ logs' \in [Sources -> Nat]
        /\ AtMostOne(disk'.duties) /\ memory' \in DutyStates
        /\ triggers' \in Seq({0} \cup Duties) /\ Len(triggers') <= TriggerSlots
    BY <1>3, <1>17 DEF IInv, Shapes
  <2> QED BY <1>3, <1>17, <1>19, <2>1, ShapesKept DEF IInv
<1>21. Behind'
  <2>1. \A d \in disk'.fold : \A s \in Sessions : d.marks[s] <= logs[s]
    BY <1>7, <1>15, <1>17 DEF IInv, Behind
  <2> QED BY <1>3, <1>17, <2>1 DEF IInv, Behind
<1>22. Reading' BY <1>3, NoFoldFacts DEF Reading
<1>23. \A s \in Sources : s \notin Sessions => history'.handled[s] = history.handled[s]
  BY <1>12, <1>17
<1>24. \A s \in Sessions : history'.handled[s] = history.handled[s] \cup items[s]
  BY <1>12, <1>17, SourceFacts
<1>25. AllCovered'
  <2>1. ASSUME NEW state \in {memory} \cup disk.duties, NEW k \in Cursored
        PROVE (1 .. state.cursor[k]) \subseteq
                 history'.handled[SourceOf[k]] \cup history'.skipped[SourceOf[k]]
    <3>1. (1 .. state.cursor[k]) \subseteq
             history.handled[SourceOf[k]] \cup history.skipped[SourceOf[k]]
      BY DEF IInv, AllCovered, Covered, Cursored
    <3>2. SourceOf[k] \in Sources /\ SourceOf[k] \notin Sessions BY CursoredFacts
    <3> QED BY <1>17, <1>23, <3>1, <3>2
  <2>2. ASSUME NEW s \in Sessions
        PROVE /\ (1 .. doc.marks[s]) \subseteq history'.handled[s] \cup history'.skipped[s]
              /\ (1 .. Watermarks[s]) \subseteq history'.handled[s] \cup history'.skipped[s]
    <3>1. (1 .. doc.marks[s]) \subseteq history.handled[s] \cup history.skipped[s]
      BY <1>5 DEF IInv, AllCovered, Covered
    <3>2. \A i \in 1 .. Watermarks[s] : i \in 1 .. doc.marks[s] \/ i \in items[s]
      BY <1>7, <1>8, <1>10
    <3> QED BY <1>17, <1>24, <3>1, <3>2
  <2>3. ASSUME NEW d \in disk'.fold, NEW s \in Sessions
        PROVE (1 .. d.marks[s]) \subseteq history'.handled[s] \cup history'.skipped[s]
    BY <1>15, <1>17, <1>18, <2>2
  <2> QED BY <1>3, <1>17, <2>1, <2>3 DEF AllCovered, Covered, Cursored
<1>26. Loaded' = Loaded BY <1>2, <1>3, <1>19 DEF Loaded
<1>27. Once'
  <2>1. ASSUME NEW s \in Sources PROVE history'.handled[s] \subseteq 1 .. logs[s]
    <3>1. history.handled[s] \subseteq 1 .. logs[s] BY DEF IInv, Once
    <3>2. CASE s \in Sessions
      <4>1. PICK m \in Nat, w \in Nat : m = doc.marks[s] /\ w = Watermarks[s] /\ w <= logs[s]
        BY <1>7, <1>10, <3>2
      <4>2. logs[s] \in Nat BY <1>4
      <4>3. \A i \in (m + 1) .. w : i \in 1 .. logs[s] BY <4>1, <4>2
      <4>4. items[s] \subseteq 1 .. logs[s] BY <1>8, <3>2, <4>1, <4>3
      <4> QED BY <1>24, <3>1, <3>2, <4>4
    <3>3. CASE s \notin Sessions BY <1>23, <3>1, <3>3
    <3> QED BY <3>2, <3>3
  <2>2. ASSUME NEW k \in Cursored, Loaded.cursor[k] # Never,
               NEW i \in history'.handled[SourceOf[k]], i > Loaded.cursor[k]
        PROVE i \in history'.redo[SourceOf[k]]
    <3>1. SourceOf[k] \in Sources /\ SourceOf[k] \notin Sessions BY CursoredFacts
    <3>2. i \in history.redo[SourceOf[k]] BY <1>23, <2>2, <3>1 DEF IInv, Once
    <3> QED BY <1>17, <3>1, <3>2
  <2>3. ASSUME NEW s \in Sessions, NEW i \in history'.handled[s], i > Watermarks[s]
        PROVE i \in history'.redo[s]
    <3>1. \A n \in items[s] : ~ (n > Watermarks[s]) BY <1>7, <1>8, <1>10
    <3>2. i \in history.handled[s] BY <1>24, <2>3, <3>1
    <3>3. i \in Nat BY <1>4, <3>2, SourceFacts DEF Histories
    <3>4. i > doc.marks[s] BY <1>7, <1>10, <2>3, <3>3
    <3> QED BY <1>9, <1>17, <3>2, <3>4, SourceFacts
  <2>4. ASSUME NEW d \in disk'.fold, NEW s \in Sessions, NEW i \in history'.handled[s],
               i > d.marks[s]
        PROVE i \in history'.redo[s]
    BY <1>15, <1>17, <1>18, <2>3, <2>4
  <2> QED BY <1>3, <1>26, <2>1, <2>2, <2>4 DEF Once
<1>28. HandledOnce' BY <1>17 DEF HandledOnce
<1>29. Duties' = Duties BY <1>3, SameDuties
<1>30. Ran' BY <1>17, <1>26, <1>29 DEF IInv, Ran
<1>31. Waiting'
  <2>1. ASSUME NEW s \in Sessions
        PROVE /\ patience[s] + Distance(s, fold.last) <= NSessions - 1
              /\ nobody[s] + Distance(s, doc.last) <= NSessions - 1
    <3>1. NSessions \in Nat \ {0} /\ fold.last \in 0 .. NSessions BY <1>1, Numbers
    <3>2. Distance(s, fold.last) \in 0 .. (NSessions - 1) BY <3>1, OrderFacts
    <3>3. Distance(s, doc.last) \in 0 .. (NSessions - 1) BY <1>6, OrderFacts
    <3>4. history.waited[s] \in Nat BY <1>4 DEF Histories
    <3>5. history.waited[s] + Distance(s, doc.last) <= NSessions - 1
      BY <1>5 DEF IInv, Waiting
    <3>6. nobody[s] = 0 BY <1>16
    <3>7. CASE fold.take[s] > 0 \/ s \notin Pending(fold.marks)
      BY <1>16, <3>1, <3>2, <3>3, <3>6, <3>7
    <3>8. CASE ~ (fold.take[s] > 0 \/ s \notin Pending(fold.marks))
      <4>1. fold.take[s] \in Nat BY <1>1
      <4>2. fold.take[s] = 0 /\ s \in Pending(fold.marks) BY <3>8, <4>1
      <4>3. Distance(s, fold.last) < Distance(s, doc.last) BY <1>5, <4>2
      <4>4. patience[s] = history.waited[s] + 1 BY <1>16, <3>8
      <4> QED BY <3>1, <3>2, <3>3, <3>4, <3>5, <3>6, <4>3, <4>4
    <3> QED BY <3>7, <3>8
  <2>2. disk'.fold # {} BY <1>5, <1>17
  <2>3. \A d \in disk'.fold : \A s \in Sessions :
          history'.waited[s] + Distance(s, d.last) <= NSessions - 1
    BY <1>15, <1>17, <1>18, <2>1
  <2> QED BY <2>2, <2>3 DEF Waiting
<1> QED BY <1>19, <1>20, <1>21, <1>22, <1>25, <1>27, <1>28, <1>30, <1>31 DEF IInv

-----------------------------------------------------------------------------
(* Steps of the rest of the world.                                         *)

LEMMA TickKeeps == ASSUME IInv, Tick PROVE IInv'
<1>1. /\ roster' = roster /\ logs' = logs /\ memory' = memory /\ disk' = disk /\ run' = run
      /\ fold' = fold /\ triggers' = triggers /\ history' = history /\ used' = used
      /\ clock < MaxClock /\ clock' = clock + 1
  BY DEF Tick
<1>2. Shapes'
  <2>1. clock' \in 0 .. MaxClock BY <1>1, Numbers DEF IInv, Shapes
  <2>2. /\ logs' \in [Sources -> Nat] /\ disk' \in Disks /\ memory' \in DutyStates
        /\ AtMostOne(disk'.duties) /\ AtMostOne(disk'.fold) /\ run' \in Runs
        /\ (fold' = NoFold \/ fold' \in Passes) /\ used' \in Budgets /\ history' \in Histories
        /\ triggers' \in Seq({0} \cup Duties) /\ Len(triggers') <= TriggerSlots
    BY <1>1 DEF IInv, Shapes
  <2> QED BY <1>1, <2>1, <2>2, ShapesKept DEF IInv
<1>3. Current' = Current BY <1>1, SameCurrent
<1>4. Control' BY <1>1, <1>3 DEF IInv, Control
<1>5. Turning' BY <1>1, <1>3 DEF IInv, Turning
<1>6. Reading' BY <1>1, ReadingKept DEF IInv
<1>7. Still BY <1>1 DEF Still
<1> QED BY <1>2, <1>4, <1>5, <1>6, <1>7, StillKeeps DEF IInv

LEMMA TriggerKeeps == ASSUME IInv, Trigger PROVE IInv'
<1>1. /\ roster' = roster /\ logs' = logs /\ memory' = memory /\ disk' = disk /\ run' = run
      /\ fold' = fold /\ clock' = clock /\ history' = history
  BY DEF Trigger
<1>2. used' \in Budgets /\ used'.growth = used.growth BY PlaceFacts, UseFacts DEF Trigger
<1>3. Shapes'
  <2>1. PICK name \in {0} \cup Duties : triggers' = Append(triggers, name) BY DEF Trigger
  <2>2. triggers \in Seq({0} \cup Duties) /\ Len(triggers) < TriggerSlots
    BY DEF IInv, Shapes, Trigger
  <2>3. triggers' \in Seq({0} \cup Duties) /\ Len(triggers') = Len(triggers) + 1
    BY <2>1, <2>2
  <2>4. TriggerSlots \in Nat /\ Len(triggers) \in Nat BY <2>2, DutiesAssumption
  <2>5. Len(triggers') <= TriggerSlots BY <2>2, <2>3, <2>4
  <2>6. /\ clock' \in 0 .. MaxClock
        /\ logs' \in [Sources -> Nat] /\ disk' \in Disks /\ memory' \in DutyStates
        /\ AtMostOne(disk'.duties) /\ AtMostOne(disk'.fold) /\ run' \in Runs
        /\ (fold' = NoFold \/ fold' \in Passes) /\ history' \in Histories
    BY <1>1 DEF IInv, Shapes
  <2> QED BY <1>1, <1>2, <2>3, <2>5, <2>6, ShapesKept DEF IInv
<1>4. Current' = Current BY <1>1, SameCurrent
<1>5. Control' BY <1>1, <1>4 DEF IInv, Control
<1>6. Turning' BY <1>1, <1>4 DEF IInv, Turning
<1>7. Reading' BY <1>1, ReadingKept DEF IInv
<1>8. Still BY <1>1, <1>2 DEF Still
<1> QED BY <1>3, <1>5, <1>6, <1>7, <1>8, StillKeeps DEF IInv

(* An item arrives: what was measured before stays at or before the end. *)
LEMMA GrowKeeps == ASSUME IInv, Grow PROVE IInv'
<1>1. /\ roster' = roster /\ clock' = clock /\ memory' = memory /\ disk' = disk /\ run' = run
      /\ fold' = fold /\ triggers' = triggers /\ history' = history
  BY DEF Grow
<1>2. used' \in Budgets /\ used'.growth = used.growth + 1
  BY PlaceFacts, UseFacts DEF Grow
<1>3. PICK s \in Read : /\ fold.stage = "turn" => s \notin Sessions
                        /\ logs' = [logs EXCEPT ![s] = @ + 1]
  BY DEF Grow
<1>4. logs \in [Sources -> Nat] /\ used.growth \in Nat
  BY DEF IInv, Shapes, Budgets
<1>5. logs' \in [Sources -> Nat]
  <2>1. CASE s \in Sources
    <3>1. logs[s] + 1 \in Nat BY <1>4, <2>1
    <3> QED BY <1>3, <1>4, <2>1, <3>1
  <2>2. CASE s \notin Sources BY <1>3, <1>4, <2>2
  <2> QED BY <2>1, <2>2
<1>6. \A x \in Sources : /\ logs'[x] = logs[x] \/ logs'[x] = logs[x] + 1
                         /\ x # s => logs'[x] = logs[x]
  BY <1>3, <1>4
<1>7. \A x \in Sources : logs[x] \in Nat /\ logs'[x] \in Nat /\ logs[x] <= logs'[x]
  BY <1>4, <1>5, <1>6
<1>8. Shapes'
  <2>1. /\ clock' \in 0 .. MaxClock /\ disk' \in Disks /\ memory' \in DutyStates
        /\ AtMostOne(disk'.duties) /\ AtMostOne(disk'.fold) /\ run' \in Runs
        /\ (fold' = NoFold \/ fold' \in Passes) /\ history' \in Histories
        /\ triggers' \in Seq({0} \cup Duties) /\ Len(triggers') <= TriggerSlots
    BY <1>1 DEF IInv, Shapes
  <2> QED BY <1>1, <1>2, <1>5, <2>1, ShapesKept DEF IInv
<1>9. Current' = Current BY <1>1, SameCurrent
<1>10. Control' BY <1>1, <1>9 DEF IInv, Control
<1>11. Behind'
  <2>1. \A x \in Sources : logs'[x] <= used'.growth
    <3>1. \A x \in Sources : logs[x] <= used.growth BY DEF IInv, Behind
    <3> QED BY <1>2, <1>4, <1>6, <1>7, <3>1
  <2>2. ASSUME NEW state \in {memory} \cup disk.duties, NEW kind \in Cursored
        PROVE state.cursor[kind] <= logs'[SourceOf[kind]]
    <3>1. SourceOf[kind] \in Sources /\ kind \in Kinds BY CursoredFacts
    <3>2. state.cursor[kind] <= logs[SourceOf[kind]] BY DEF IInv, Behind
    <3>3. state.cursor[kind] \in Positions
      <4>1. state \in DutyStates BY DEF IInv, Shapes, Disks
      <4> QED BY <3>1, <4>1 DEF DutyStates
    <3>4. state.cursor[kind] \in Int BY <3>3 DEF Positions, Never
    <3> QED BY <1>7, <3>1, <3>2, <3>4
  <2>3. ASSUME NEW doc \in disk.fold, NEW x \in Sessions PROVE doc.marks[x] <= logs'[x]
    <3>1. doc.marks[x] <= logs[x] BY DEF IInv, Behind
    <3>2. doc.marks[x] \in Nat BY DEF IInv, Shapes, Disks, Marks
    <3>3. x \in Sources BY SourceFacts
    <3> QED BY <1>7, <3>1, <3>2, <3>3
  <2> QED BY <1>1, <2>1, <2>2, <2>3 DEF Behind
<1>12. Turning'
  <2>1. run \in Runs BY DEF IInv, Shapes
  <2> QED BY <1>1, <1>4, <1>6, <2>1, TurningKept DEF IInv
<1>13. Reading'
  <2>1. CASE fold.stage = "turn"
    <3>1. \A x \in Sessions : logs'[x] = logs[x] BY <1>3, <1>6, <2>1, SourceFacts
    <3> QED BY <1>1, <3>1, ReadingKept DEF IInv
  <2>2. CASE fold.stage # "turn" BY <1>1, <2>2 DEF Reading
  <2> QED BY <2>1, <2>2
<1>14. AllCovered' BY <1>1 DEF IInv, AllCovered, Covered
<1>15. Saved' = Saved /\ Duties' = Duties BY <1>1, SameSaved, SameDuties
<1>16. Loaded' = Loaded BY <1>1, <1>15 DEF Loaded
<1>17. Once'
  <2>1. ASSUME NEW x \in Sources PROVE history.handled[x] \subseteq 1 .. logs'[x]
    <3>1. history.handled[x] \subseteq 1 .. logs[x] BY DEF IInv, Once
    <3>2. \A i \in 1 .. logs[x] : i \in 1 .. logs'[x] BY <1>7
    <3> QED BY <3>1, <3>2
  <2> QED BY <1>1, <1>16, <2>1 DEF IInv, Once
<1>18. HandledOnce' BY <1>1 DEF IInv, HandledOnce
<1>19. Ran' BY <1>1, <1>15, <1>16 DEF IInv, Ran
<1>20. Waiting' BY <1>1 DEF IInv, Waiting
<1> QED BY <1>8, <1>10, <1>11, <1>12, <1>13, <1>14, <1>17, <1>18, <1>19, <1>20 DEF IInv

(* The process ends: what was handled beyond the stored cursors may be     *)
(* handled again, and a run that was not stored is forgotten.              *)
LEMMA KillKeeps == ASSUME IInv, Kill PROVE IInv'
<1> DEFINE ran == [i \in Duties |-> IF Saved.last[i] = history.ran[i] THEN history.ran[i]
                                    ELSE Never]
           forgotten == Forgotten(history, Sources)
<1>1. /\ roster' = roster /\ clock' = clock /\ logs' = logs /\ disk' = disk
      /\ memory' = FreshState /\ fold' = NoFold /\ triggers' = <<>>
      /\ run' = [stage |-> "down", todo |-> {}, upTo |-> 0, wake |-> 0]
      /\ run.stage # "down"
  BY DEF Kill
<1>2. used' \in Budgets /\ used'.growth = used.growth BY PlaceFacts, UseFacts DEF Kill
<1>3. /\ logs \in [Sources -> Nat] /\ disk \in Disks /\ history \in Histories
      /\ AtMostOne(disk.fold) /\ AtMostOne(disk.duties)
  BY DEF IInv, Shapes
<1>4. /\ forgotten \in Histories
      /\ forgotten.handled = history.handled /\ forgotten.skipped = history.skipped
      /\ forgotten.twice = history.twice /\ forgotten.ran = history.ran
      /\ forgotten.waited = history.waited
      /\ \A s \in Sources : history.redo[s] \subseteq forgotten.redo[s]
      /\ \A s \in Sources : \A i \in history.handled[s] :
           i > Stored(s) => i \in forgotten.redo[s]
  BY <1>3, ForgottenFacts
<1> HIDE DEF forgotten
<1>5. history' = [forgotten EXCEPT !.ran = ran]
  <2>1. history' = [forgotten EXCEPT !.ran =
                      [i \in Duties |-> IF Load(disk.duties).last[i] = forgotten.ran[i]
                                        THEN forgotten.ran[i] ELSE Never]]
    BY <1>4 DEF Kill, forgotten, Histories
  <2> QED BY <1>4, <2>1 DEF Saved
<1>6. /\ ran \in [Duties -> Positions]
      /\ \A i \in Duties : ran[i] # Never => ran[i] = Saved.last[i]
  <2>1. \A i \in Duties : history.ran[i] \in Positions BY <1>3 DEF Histories
  <2>2. Never \in Positions BY DEF Positions
  <2> QED BY <2>1, <2>2
<1> HIDE DEF ran
<1>7. /\ history' \in Histories /\ history'.handled = history.handled
      /\ history'.skipped = history.skipped /\ history'.twice = history.twice
      /\ history'.waited = history.waited /\ history'.redo = forgotten.redo
      /\ history'.ran = ran
  BY <1>4, <1>5, <1>6 DEF Histories
<1>8. run' \in Runs /\ run'.stage = "down" /\ run'.todo = {} BY <1>1 DEF Runs
<1>9. Shapes'
  <2>1. <<>> \in Seq({0} \cup Duties) /\ Len(<<>>) <= TriggerSlots
    BY DutiesAssumption
  <2>2. clock' \in 0 .. MaxClock BY <1>1 DEF IInv, Shapes
  <2> QED BY <1>1, <1>2, <1>3, <1>7, <1>8, <2>1, <2>2, FreshFacts, ShapesKept DEF IInv
<1>10. Control' BY <1>1, <1>8, NoFoldFacts DEF Control
<1>11. Behind'
  <2>1. ASSUME NEW kind \in Cursored PROVE FreshState.cursor[kind] <= logs[SourceOf[kind]]
    <3>1. FreshState.cursor[kind] = -1 BY FreshFacts, CursoredFacts DEF Never
    <3>2. logs[SourceOf[kind]] \in Nat BY <1>3, CursoredFacts
    <3> QED BY <3>1, <3>2
  <2> QED BY <1>1, <1>2, <2>1 DEF IInv, Behind
<1>12. Turning' BY <1>1, <1>8, NotTurning
<1>13. Reading' BY <1>1, NoFoldFacts DEF Reading
<1>14. AllCovered'
  <2>1. ASSUME NEW kind \in Cursored PROVE (1 .. FreshState.cursor[kind]) = {}
    <3>1. FreshState.cursor[kind] = -1 BY FreshFacts, CursoredFacts DEF Never
    <3> QED BY <3>1
  <2> QED BY <1>1, <1>7, <2>1 DEF IInv, AllCovered, Covered, Cursored
<1>15. Duties' = Duties /\ Saved' = Saved BY <1>1, SameDuties, SameSaved
<1>16. Loaded' = Saved BY <1>8, <1>15 DEF Loaded
<1>17. Once'
  <2>1. ASSUME NEW kind \in Cursored, NEW i \in history.handled[SourceOf[kind]],
               i > Saved.cursor[kind]
        PROVE i \in forgotten.redo[SourceOf[kind]]
    <3>1. Stored(SourceOf[kind]) = Saved.cursor[kind] BY <1>3, StoredFacts
    <3> QED BY <1>4, <2>1, <3>1, CursoredFacts
  <2>2. ASSUME NEW doc \in disk.fold, NEW s \in Sessions, NEW i \in history.handled[s],
               i > doc.marks[s]
        PROVE i \in forgotten.redo[s]
    <3>1. i \in history.redo[s] BY <2>2 DEF IInv, Once
    <3> QED BY <1>4, <3>1, SourceFacts
  <2>3. \A s \in Sources : history.handled[s] \subseteq 1 .. logs[s] BY DEF IInv, Once
  <2> QED BY <1>1, <1>7, <1>16, <2>1, <2>2, <2>3 DEF Once
<1>18. HandledOnce' BY <1>7 DEF IInv, HandledOnce
<1>19. Ran' BY <1>6, <1>7, <1>15, <1>16 DEF Ran
<1>20. Waiting' BY <1>1, <1>7 DEF IInv, Waiting
<1> QED
  BY <1>9, <1>10, <1>11, <1>12, <1>13, <1>14, <1>17, <1>18, <1>19, <1>20 DEF IInv

(* A document that is gone leaves nothing that could be repeated or late. *)
LEMMA LoseDocumentKeeps == ASSUME IInv, LoseDocument PROVE IInv'
<1>1. /\ roster' = roster /\ clock' = clock /\ logs' = logs /\ memory' = memory /\ run' = run
      /\ fold' = fold /\ triggers' = triggers /\ run.stage = "down" /\ fold = NoFold
  BY DEF LoseDocument, IInv, Control
<1>2. used' \in Budgets /\ used'.growth = used.growth BY PlaceFacts, UseFacts DEF LoseDocument
<1>3. /\ logs \in [Sources -> Nat] /\ disk \in Disks /\ history \in Histories
      /\ AtMostOne(disk.fold) /\ AtMostOne(disk.duties)
  BY DEF IInv, Shapes
<1> DEFINE never == [i \in Duties |-> Never]
           nobody == [s \in Sessions |-> 0]
<1>4. /\ never \in [Duties -> Positions] /\ \A i \in Duties : never[i] = Never
  BY DEF Positions
<1>5. nobody \in [Sessions -> Nat] /\ \A s \in Sessions : nobody[s] = 0
  OBVIOUS
<1>6. \/ /\ disk' = [disk EXCEPT !.duties = {}]
         /\ history' = [history EXCEPT !.ran = never]
      \/ /\ disk' = [disk EXCEPT !.fold = {}]
         /\ history' = [history EXCEPT !.waited = nobody]
  BY DEF LoseDocument
<1> HIDE DEF never, nobody
<1>7. /\ disk' \in Disks /\ disk'.duties \subseteq disk.duties /\ disk'.fold \subseteq disk.fold
      /\ AtMostOne(disk'.duties) /\ AtMostOne(disk'.fold)
      /\ history' \in Histories /\ history'.handled = history.handled
      /\ history'.skipped = history.skipped /\ history'.redo = history.redo
      /\ history'.twice = history.twice
      /\ \/ /\ disk'.duties = {} /\ disk'.fold = disk.fold
            /\ history'.ran = never /\ history'.waited = history.waited
         \/ /\ disk'.duties = disk.duties /\ disk'.fold = {}
            /\ history'.ran = history.ran /\ history'.waited = nobody
  <2>1. CASE /\ disk' = [disk EXCEPT !.duties = {}]
             /\ history' = [history EXCEPT !.ran = never]
    BY <1>3, <1>4, <2>1 DEF Disks, Histories, AtMostOne
  <2>2. CASE /\ disk' = [disk EXCEPT !.fold = {}]
             /\ history' = [history EXCEPT !.waited = nobody]
    BY <1>3, <1>5, <2>2 DEF Disks, Histories, AtMostOne
  <2> QED BY <1>6, <2>1, <2>2
<1>8. Shapes'
  <2>1. /\ clock' \in 0 .. MaxClock /\ logs' \in [Sources -> Nat] /\ memory' \in DutyStates
        /\ run' \in Runs /\ (fold' = NoFold \/ fold' \in Passes)
        /\ triggers' \in Seq({0} \cup Duties) /\ Len(triggers') <= TriggerSlots
    BY <1>1 DEF IInv, Shapes
  <2> QED BY <1>1, <1>2, <1>7, <2>1, ShapesKept DEF IInv
<1>9. Control' BY <1>1, NoFoldFacts DEF IInv, Control
<1>10. Behind' BY <1>1, <1>2, <1>7 DEF IInv, Behind
<1>11. Turning' BY <1>1, NotTurning
<1>12. Reading' BY <1>1, NoFoldFacts DEF Reading
<1>13. AllCovered' BY <1>1, <1>7 DEF IInv, AllCovered, Covered
<1>14. Duties' = Duties /\ FreshState' = FreshState BY <1>1, SameDuties
<1>15. Loaded = Saved /\ Loaded' = Saved' BY <1>1 DEF Loaded
<1>16. \/ disk'.duties = disk.duties /\ Saved' = Saved
       \/ disk'.duties = {} /\ Saved' = FreshState /\ history'.ran = never
  <2>1. disk'.duties = disk.duties => Saved' = Saved BY <1>1, SameSaved
  <2>2. disk'.duties = {} => Saved' = FreshState BY <1>14 DEF Saved, Load
  <2> QED BY <1>7, <2>1, <2>2
<1>17. Once'
  <2>1. ASSUME NEW kind \in Cursored, Saved'.cursor[kind] # Never,
               NEW i \in history.handled[SourceOf[kind]], i > Saved'.cursor[kind]
        PROVE i \in history.redo[SourceOf[kind]]
    <3>1. FreshState.cursor[kind] = Never BY FreshFacts, CursoredFacts
    <3>2. Saved' = Saved BY <1>16, <2>1, <3>1
    <3> QED BY <1>15, <2>1, <3>2 DEF IInv, Once
  <2> QED BY <1>1, <1>7, <1>15, <2>1 DEF IInv, Once
<1>18. HandledOnce' BY <1>7 DEF IInv, HandledOnce
<1>19. Ran' BY <1>4, <1>7, <1>14, <1>15, <1>16 DEF IInv, Ran
<1>20. Waiting' BY <1>5, <1>7 DEF IInv, Waiting
<1> QED
  BY <1>8, <1>9, <1>10, <1>11, <1>12, <1>13, <1>17, <1>18, <1>19, <1>20 DEF IInv

-----------------------------------------------------------------------------
(* The invariant and the theorems.                                         *)

LEMMA InitHolds == Init => IInv
<1> SUFFICES ASSUME Init PROVE IInv OBVIOUS
<1>1. /\ roster \in Rosters /\ clock = 0 /\ logs = [s \in Sources |-> 0]
      /\ memory = FreshState /\ disk = [duties |-> {}, fold |-> {}]
      /\ run = [stage |-> "down", todo |-> {}, upTo |-> 0, wake |-> 0]
      /\ fold = NoFold /\ triggers = <<>>
      /\ used = [growth |-> 0, asked |-> 0, faults |-> 0]
  BY DEF Init, NoFold
<1>2. history = [handled |-> [s \in Sources |-> {}], skipped |-> [s \in Sources |-> {}],
                 evicted |-> {}, redo |-> [s \in Sources |-> {}], twice |-> {},
                 ran |-> [i \in Duties |-> Never], waited |-> [s \in Sessions |-> 0]]
  BY DEF Init
<1>3. history \in Histories
  <2>1. /\ [s \in Sources |-> {}] \in [Sources -> SUBSET Nat]
        /\ [i \in Duties |-> Never] \in [Duties -> Positions]
        /\ [s \in Sessions |-> 0] \in [Sessions -> Nat]
        /\ {} \in SUBSET (Sources \X Nat) /\ {} \in SUBSET Nat
    BY DEF Positions
  <2> QED BY <1>2, <2>1 DEF Histories
<1>4. /\ \A s \in Sources : history.handled[s] = {} /\ logs[s] = 0
      /\ history.twice = {} /\ \A i \in Duties : history.ran[i] = Never
      /\ \A s \in Sessions : history.waited[s] = 0
  BY <1>1, <1>2
<1>5. Shapes
  <2>1. clock \in 0 .. MaxClock /\ used \in Budgets
    BY <1>1, Numbers DEF Budgets
  <2>2. logs \in [Sources -> Nat] BY <1>1
  <2>3. disk \in Disks /\ AtMostOne(disk.duties) /\ AtMostOne(disk.fold)
    BY <1>1 DEF Disks, AtMostOne
  <2>4. run \in Runs BY <1>1 DEF Runs
  <2>5. triggers \in Seq({0} \cup Duties) /\ Len(triggers) <= TriggerSlots
    BY <1>1, DutiesAssumption
  <2> QED BY <1>1, <1>3, <2>1, <2>2, <2>3, <2>4, <2>5, FreshFacts DEF Shapes
<1>6. Control BY <1>1, NoFoldFacts DEF Control
<1>7. \A kind \in Cursored : FreshState.cursor[kind] = -1
  BY FreshFacts, CursoredFacts DEF Never
<1>8. Behind
  <2>1. \A kind \in Cursored : memory.cursor[kind] <= logs[SourceOf[kind]]
    <3>1. \A kind \in Cursored : logs[SourceOf[kind]] = 0 BY <1>4, CursoredFacts
    <3> QED BY <1>1, <1>7, <3>1
  <2>2. \A s \in Sources : logs[s] <= used.growth BY <1>1, <1>4
  <2> QED BY <1>1, <2>1, <2>2 DEF Behind
<1>9. Turning BY <1>1 DEF Turning
<1>10. Reading BY <1>1, NoFoldFacts DEF Reading
<1>11. AllCovered
  <2>1. \A kind \in Cursored : (1 .. memory.cursor[kind]) = {} BY <1>1, <1>7
  <2> QED BY <1>1, <2>1 DEF AllCovered, Covered, Cursored
<1>12. Once
  <2>1. \A kind \in Cursored : history.handled[SourceOf[kind]] = {} BY <1>4, CursoredFacts
  <2> QED BY <1>1, <1>4, <2>1 DEF Once
<1>13. HandledOnce BY <1>4 DEF HandledOnce
<1>14. Ran BY <1>4 DEF Ran
<1>15. Waiting BY <1>1, <1>4 DEF Waiting
<1> QED
  BY <1>5, <1>6, <1>8, <1>9, <1>10, <1>11, <1>12, <1>13, <1>14, <1>15 DEF IInv

LEMMA StutterKeeps == ASSUME IInv, UNCHANGED vars PROVE IInv'
<1>1. /\ UNCHANGED <<roster, clock, logs, memory, disk, run, fold, triggers, history, used>>
  BY DEF vars
<1>2. Shapes'
  <2>1. /\ clock' \in 0 .. MaxClock /\ used' \in Budgets
        /\ logs' \in [Sources -> Nat] /\ disk' \in Disks /\ memory' \in DutyStates
        /\ AtMostOne(disk'.duties) /\ AtMostOne(disk'.fold) /\ run' \in Runs
        /\ (fold' = NoFold \/ fold' \in Passes) /\ history' \in Histories
        /\ triggers' \in Seq({0} \cup Duties) /\ Len(triggers') <= TriggerSlots
    BY <1>1 DEF IInv, Shapes
  <2> QED BY <1>1, <2>1, ShapesKept DEF IInv
<1>3. Current' = Current BY <1>1, SameCurrent
<1>4. Control' BY <1>1, <1>3 DEF IInv, Control
<1>5. Turning' BY <1>1, <1>3 DEF IInv, Turning
<1>6. Reading' BY <1>1, ReadingKept DEF IInv
<1>7. Still BY <1>1 DEF Still
<1> QED BY <1>2, <1>4, <1>5, <1>6, <1>7, StillKeeps DEF IInv

(* Every step keeps the invariant. *)
LEMMA NextKeeps == IInv /\ [Next]_vars => IInv'
<1> SUFFICES ASSUME IInv, [Next]_vars PROVE IInv' OBVIOUS
<1>1. \/ Boot \/ Check \/ Wake \/ TakeTrigger \/ Record
      \/ ProbePrompt \/ ProbeWarm \/ ProbeDistill \/ ProbeFails
      \/ \E kind \in Cursored : Prime(kind) \/ GateClosed(kind) \/ GateOpen(kind)
      \/ \E kind \in {"prompt", "review", "analysis", "warm"} : TurnSucceeds(kind)
      \/ TurnFails
      \/ \E byDuty \in BOOLEAN : FoldPrime(byDuty) \/ FoldIdle(byDuty) \/ FoldStart(byDuty)
      \/ FoldSucceeds \/ FoldFails
      \/ Grow \/ Tick \/ Trigger \/ Kill \/ LoseDocument
      \/ UNCHANGED vars
  BY DEF Next, Cursored
<1>2. Boot => IInv' BY BootKeeps
<1>3. Check \/ Wake \/ TakeTrigger => IInv' BY CheckKeeps, WakeKeeps, TakeTriggerKeeps
<1>4. Record => IInv' BY RecordKeeps
<1>5. ProbePrompt \/ ProbeWarm \/ ProbeDistill \/ ProbeFails => IInv'
  BY ProbePromptKeeps, ProbeWarmKeeps, ProbeDistillKeeps, ProbeFailsKeeps
<1>6. \A kind \in Cursored : Prime(kind) \/ GateClosed(kind) \/ GateOpen(kind) => IInv'
  BY PrimeKeeps, GateClosedKeeps, GateOpenKeeps
<1>7. \A kind \in {"prompt", "review", "analysis", "warm"} : TurnSucceeds(kind) => IInv'
  BY TurnSucceedsKeeps
<1>8. TurnFails => IInv' BY TurnFailsKeeps
<1>9. \A byDuty \in BOOLEAN : FoldPrime(byDuty) \/ FoldIdle(byDuty) \/ FoldStart(byDuty) => IInv'
  BY FoldPrimeKeeps, FoldIdleKeeps, FoldStartKeeps
<1>10. FoldSucceeds \/ FoldFails => IInv' BY FoldSucceedsKeeps, FoldFailsKeeps
<1>11. Grow \/ Tick \/ Trigger => IInv' BY GrowKeeps, TickKeeps, TriggerKeeps
<1>12. Kill \/ LoseDocument => IInv' BY KillKeeps, LoseDocumentKeeps
<1>13. UNCHANGED vars => IInv' BY StutterKeeps
<1> QED
  BY <1>1, <1>2, <1>3, <1>4, <1>5, <1>6, <1>7, <1>8, <1>9, <1>10, <1>11, <1>12, <1>13

LEMMA Inductive == Spec => []IInv
<1>1. Init => IInv BY InitHolds
<1>2. IInv /\ [Next]_vars => IInv' BY NextKeeps
<1> QED BY <1>1, <1>2, PTL DEF Spec

(* Every variable has its type, at most one document of each kind is in    *)
(* the database, and no pass is under way in a daemon that is down         *)
(* (DutyState, DistillState and the loop of run_loop).                     *)
THEOREM DutyTypes == Spec => []TypeOK
<1>1. IInv => TypeOK
  <2> SUFFICES ASSUME IInv PROVE TypeOK OBVIOUS
  <2>1. \A s \in Sources : logs[s] \in 0 .. MaxGrowth
    <3>1. \A s \in Sources : logs[s] \in Nat /\ logs[s] <= used.growth
      BY DEF IInv, Shapes, Behind
    <3>2. used.growth \in 0 .. MaxGrowth BY DEF IInv, Shapes, Budgets
    <3> QED BY <3>1, <3>2, Numbers
  <2>2. logs \in [Sources -> 0 .. MaxGrowth] BY <2>1 DEF IInv, Shapes
  <2>3. \A state \in {memory} \cup disk.duties :
          state.last \in [Duties -> Positions] /\ state.cursor \in [Kinds -> Positions]
    BY DEF IInv, Shapes, Disks, DutyStates
  <2>4. ASSUME NEW S, AtMostOne(S) PROVE Cardinality(S) <= 1
    <3>1. CASE S = {} BY <3>1, FS_EmptySet
    <3>2. ASSUME NEW x, S = {x} PROVE Cardinality(S) <= 1
      <4>1. Cardinality({x}) = 1 BY FS_Singleton
      <4> QED BY <3>2, <4>1
    <3> QED BY <2>4, <3>1, <3>2 DEF AtMostOne
  <2>5. \A doc \in disk.fold :
          doc.last \in 0 .. NSessions /\ \A s \in Sessions : doc.marks[s] <= logs[s]
    BY DEF IInv, Shapes, Disks, Marks, Behind
  <2>6. run.stage \in {"down", "check", "probe", "turn", "record", "sleep"}
        /\ run.todo \in SUBSET Duties
    BY DEF IInv, Shapes, Runs
  <2>7. fold.stage \in {"idle", "turn"} BY NoFoldFacts DEF IInv, Shapes
  <2> QED BY <2>2, <2>3, <2>4, <2>5, <2>6, <2>7 DEF TypeOK, IInv, Shapes, Control
<1>2. Spec => []IInv BY Inductive
<1> QED BY <1>1, <1>2, PTL

-----------------------------------------------------------------------------
(* What the prompt of an analysis leaves out.                              *)

(* A symptom that was cut stays behind the section it found full. *)
LEMMA CutKept ==
  ASSUME CutBehindFullSection, history'.evicted = history.evicted,
         history.handled[Symptoms] \subseteq history'.handled[Symptoms]
  PROVE CutBehindFullSection'
<1> SUFFICES ASSUME NEW i \in history.evicted
             PROVE \E first \in 1 .. (i - SectionItems) :
                      (first .. (first + SectionItems - 1)) \subseteq history'.handled[Symptoms]
  BY DEF CutBehindFullSection
<1>1. PICK first \in 1 .. (i - SectionItems) :
        (first .. (first + SectionItems - 1)) \subseteq history.handled[Symptoms]
  BY DEF CutBehindFullSection
<1> QED BY <1>1

(* Steps that are no turn of a review or an analysis cut nothing. *)
LEMMA OthersCutNothing ==
  ASSUME IInv, [Next]_vars, \A kind \in Cursored : ~ TurnSucceeds(kind)
  PROVE /\ history'.evicted = history.evicted
        /\ history.handled[Symptoms] \subseteq history'.handled[Symptoms]
<1>1. history \in Histories /\ Sessions \subseteq Sources /\ Symptoms \in Sources
  BY SourceFacts DEF IInv, Shapes
<1>2. CASE history' = history BY <1>2
<1>3. CASE Record BY <1>1, <1>3 DEF Record, Histories
<1>4. ASSUME NEW kind \in Cursored, Prime(kind)
      PROVE history'.evicted = history.evicted /\ history'.handled = history.handled
  BY <1>1, <1>4 DEF Prime, Skip, Histories
<1>5. ASSUME NEW byDuty \in BOOLEAN, FoldPrime(byDuty)
      PROVE history'.evicted = history.evicted /\ history'.handled = history.handled
  BY <1>1, <1>5 DEF FoldPrime, Histories
<1>6. CASE FoldSucceeds
  <2> DEFINE items == [s \in Sessions |-> (fold.marks[s] + 1) .. Watermarks[s]]
             folded == Handle(history, items)
  <2>1. items \in [Sessions -> SUBSET Nat]
    <3>1. fold.marks \in [Sessions -> Nat] /\ fold.take \in [Sessions -> Nat]
      BY <1>6, NoFoldFacts DEF FoldSucceeds, IInv, Shapes, Passes
    <3>2. ASSUME NEW s \in Sessions
          PROVE ((fold.marks[s] + 1) .. Watermarks[s]) \in SUBSET Nat
      BY <3>1 DEF Watermarks
    <3> QED BY <3>2
  <2>2. history' = [folded EXCEPT !.waited = history'.waited]
        \/ history' = [Forgotten(folded, Sessions) EXCEPT !.waited = history'.waited]
    BY <1>6 DEF FoldSucceeds
  <2> HIDE DEF items
  <2>3. PICK S \in SUBSET Sources : S = Sessions /\ items \in [S -> SUBSET Nat]
    BY <1>1, <2>1
  <2>4. /\ folded \in Histories /\ folded.evicted = history.evicted
        /\ \A s \in S : folded.handled[s] = history.handled[s] \cup items[s]
        /\ \A s \in Sources : s \notin S => folded.handled[s] = history.handled[s]
    BY <1>1, <2>3, HandleFacts
  <2> HIDE DEF folded
  <2>5. /\ Forgotten(folded, S) \in Histories
        /\ Forgotten(folded, S).evicted = folded.evicted
        /\ Forgotten(folded, S).handled = folded.handled
    BY <2>4, ForgottenFacts
  <2>6. history'.evicted = folded.evicted /\ history'.handled = folded.handled
    BY <2>2, <2>3, <2>4, <2>5 DEF Histories
  <2>7. history.handled[Symptoms] \subseteq folded.handled[Symptoms] BY <1>1, <2>4
  <2> QED BY <2>4, <2>6, <2>7
<1>7. CASE Kill
  <2>1. /\ Forgotten(history, Sources) \in Histories
        /\ Forgotten(history, Sources).evicted = history.evicted
        /\ Forgotten(history, Sources).handled = history.handled
    BY <1>1, ForgottenFacts
  <2> QED BY <1>7, <2>1 DEF Kill, Histories
<1>8. CASE LoseDocument BY <1>1, <1>8 DEF LoseDocument, Histories
<1>9. \/ history' = history \/ Record \/ FoldSucceeds \/ Kill \/ LoseDocument
      \/ \E kind \in Cursored : Prime(kind)
      \/ \E byDuty \in BOOLEAN : FoldPrime(byDuty)
  <2>1. \A kind \in {"prompt", "warm"} : TurnSucceeds(kind) => history' = history
    BY DEF TurnSucceeds
  <2> QED
    BY <2>1 DEF Next, vars, Cursored, Boot, Check, Wake, TakeTrigger, ProbePrompt, ProbeWarm,
       ProbeDistill, ProbeFails, GateClosed, GateOpen, TurnFails, FoldIdle, FoldStart,
       FoldFails, Grow, Tick, Trigger
<1> QED BY <1>2, <1>3, <1>4, <1>5, <1>6, <1>7, <1>8, <1>9

(* The turn was given SectionItems symptoms before the first that was cut. *)
LEMMA TurnCutsBehind ==
  ASSUME IInv, CutBehindFullSection, NEW kind \in Cursored, TurnSucceeds(kind)
  PROVE CutBehindFullSection'
<1> DEFINE source == SourceOf[kind]
           shown == Shown(kind)
           cursor == memory.cursor[kind]
           items == [s \in {source} |-> (cursor + 1) .. shown]
           given == Handle(history, items)
<1>1. /\ source \in Sources /\ run.stage = "turn" /\ run.upTo \in Nat
      /\ history \in Histories /\ Symptoms \in Sources
  BY PlaceFacts, CursoredFacts, SourceFacts DEF TurnSucceeds, IInv, Shapes, Runs
<1>2. cursor \in 0 .. run.upTo BY <1>1 DEF IInv, Turning, TurnSucceeds
<1>3. /\ shown \in Nat /\ cursor <= shown /\ shown <= run.upTo
      /\ shown < run.upTo => kind = "analysis" /\ shown = cursor + SectionItems
  BY <1>1, <1>2, ShownFacts
<1>4. history' = Evict(given, source, shown, run.upTo) BY DEF TurnSucceeds, Cursored
<1>5. SectionItems \in Nat \ {0} BY DutiesAssumption
<1> HIDE DEF shown, cursor
<1>6. items \in [{source} -> SUBSET Nat] /\ items[source] = (cursor + 1) .. shown
  BY <1>2, <1>3
<1> HIDE DEF items
<1>7. PICK S \in SUBSET Sources : S = {source} /\ items \in [S -> SUBSET Nat]
  BY <1>1, <1>6
<1>8. /\ given \in Histories /\ given.evicted = history.evicted
      /\ \A s \in S : given.handled[s] = history.handled[s] \cup items[s]
      /\ \A s \in Sources : s \notin S => given.handled[s] = history.handled[s]
  BY <1>1, <1>7, HandleFacts
<1> HIDE DEF given
<1>9. /\ history'.evicted = history.evicted \cup ((shown + 1) .. run.upTo)
      /\ history'.handled = given.handled
  <2>1. PICK from \in Nat, to \in Nat : from = shown /\ to = run.upTo BY <1>1, <1>3
  <2>2. history' = Evict(given, source, from, to) BY <1>4, <2>1
  <2>3. /\ history'.evicted = given.evicted \cup ((from + 1) .. to)
        /\ history'.handled = given.handled
    <3>0. PICK g : g = history'
      OBVIOUS
    <3>1. PICK h \in Histories, s \in Sources : h = given /\ s = source
      BY <1>1, <1>8
    <3>2. g = Evict(h, s, from, to) BY <2>2, <3>0, <3>1
    <3>3. g.evicted = h.evicted \cup ((from + 1) .. to) /\ g.handled = h.handled
      BY <3>2, EvictFacts
    <3> QED BY <3>0, <3>1, <3>3
  <2> QED BY <1>8, <2>1, <2>3
<1>10. history.handled[Symptoms] \subseteq history'.handled[Symptoms]
  BY <1>1, <1>7, <1>8, <1>9
<1>11. CASE shown = run.upTo
  <2>1. (shown + 1) .. run.upTo = {} BY <1>1, <1>11
  <2> QED BY <1>9, <1>10, <2>1, CutKept
<1>12. CASE shown < run.upTo
  <2>1. kind = "analysis" /\ shown = cursor + SectionItems BY <1>3, <1>12
  <2>2. source = Symptoms BY <2>1 DEF SourceOf
  <2>3. ((cursor + 1) .. shown) \subseteq history'.handled[Symptoms]
    BY <1>6, <1>7, <1>8, <1>9, <2>2
  <2>4. ASSUME NEW i \in (shown + 1) .. run.upTo
        PROVE \E first \in 1 .. (i - SectionItems) :
                 (first .. (first + SectionItems - 1)) \subseteq history'.handled[Symptoms]
    <3>1. cursor + 1 \in 1 .. (i - SectionItems) BY <1>1, <1>2, <1>5, <2>1, <2>4
    <3>2. (cursor + 1) + SectionItems - 1 = shown BY <1>2, <1>5, <2>1
    <3> QED BY <2>3, <3>1, <3>2
  <2>5. ASSUME NEW i \in history.evicted
        PROVE \E first \in 1 .. (i - SectionItems) :
                 (first .. (first + SectionItems - 1)) \subseteq history'.handled[Symptoms]
    <3>1. PICK first \in 1 .. (i - SectionItems) :
            (first .. (first + SectionItems - 1)) \subseteq history.handled[Symptoms]
      BY <2>5 DEF CutBehindFullSection
    <3> QED BY <1>10, <3>1
  <2>6. \A i \in history'.evicted : i \in history.evicted \/ i \in (shown + 1) .. run.upTo
    BY <1>9
  <2> QED BY <2>4, <2>5, <2>6 DEF CutBehindFullSection
<1> QED BY <1>1, <1>3, <1>11, <1>12

(* Nothing is lost behind a cursor: everything that a cursor or a          *)
(* watermark has passed, in memory or in the database, went through a turn *)
(* that succeeded, was there when its source was primed, or is a symptom   *)
(* that found the section of its prompt full (dispatch and the distiller's *)
(* run advance to the end that was read before the turn; format_prompt     *)
(* cuts each section to SECTION_MAX_BYTES).  A symptom is cut only behind  *)
(* SectionItems older ones in a row that turns were given.                 *)
THEOREM DutyNothingSkipped == Spec => []NothingSkipped
<1> DEFINE Kept == IInv /\ CutBehindFullSection
<1>1. Init => Kept
  <2>1. Init => CutBehindFullSection BY DEF Init, CutBehindFullSection
  <2> QED BY <2>1, InitHolds
<1>2. Kept /\ [Next]_vars => Kept'
  <2> SUFFICES ASSUME IInv, CutBehindFullSection, [Next]_vars PROVE Kept' OBVIOUS
  <2>1. IInv' BY NextKeeps
  <2>2. CASE \E kind \in Cursored : TurnSucceeds(kind)
    BY <2>1, <2>2, TurnCutsBehind
  <2>3. CASE \A kind \in Cursored : ~ TurnSucceeds(kind)
    BY <2>1, <2>3, OthersCutNothing, CutKept
  <2> QED BY <2>1, <2>2, <2>3
<1>3. Kept => NothingSkipped BY DEF NothingSkipped, IInv
<1> QED BY <1>1, <1>2, <1>3, PTL DEF Spec

(* Nothing goes through two turns that succeed, except what the database   *)
(* did not know of when the daemon died or a write failed (set_cursor and  *)
(* save after the turn, load at the start).                                *)
THEOREM DutyHandledOnce == Spec => []HandledOnce
<1>1. IInv => HandledOnce BY DEF IInv
<1>2. Spec => []IInv BY Inductive
<1> QED BY <1>1, <1>2, PTL

(* A session with a backlog is passed over by fewer passes than there are  *)
(* sessions (session_order starts after the last that was advanced).       *)
THEOREM DutyNotStarved == Spec => []NotStarved
<1>1. IInv => NotStarved
  <2> SUFFICES ASSUME IInv, NEW s \in Sessions PROVE history.waited[s] < NSessions
    BY DEF NotStarved
  <2>1. NSessions \in Nat \ {0} /\ history.waited[s] \in Nat
    BY Numbers DEF IInv, Shapes, Histories
  <2>2. CASE disk.fold = {} BY <2>1, <2>2 DEF IInv, Waiting
  <2>3. CASE disk.fold # {}
    <3>1. PICK doc \in disk.fold : history.waited[s] + Distance(s, doc.last) <= NSessions - 1
      BY <2>3 DEF IInv, Waiting
    <3>2. doc.last \in 0 .. NSessions BY DEF IInv, Shapes, Disks, Marks
    <3>3. Distance(s, doc.last) \in 0 .. (NSessions - 1) BY <3>2, OrderFacts
    <3> QED BY <2>1, <3>1, <3>3
  <2> QED BY <2>2, <2>3
<1>2. Spec => []IInv BY Inductive
<1> QED BY <1>1, <1>2, PTL

(* Anacron semantics: the schedule starts a duty only if one of its times  *)
(* has passed since its last run ended (due and next_due, with last_run    *)
(* advanced by run_one whatever the outcome).                              *)
THEOREM DutyOverdueFiresOnce == Spec => OverdueFiresOnce
<1> DEFINE Fires ==
      (run.stage = "check" /\ run'.stage = "probe") =>
        \A i \in run'.todo :
            history.ran[i] # Never =>
                \E t \in (history.ran[i] + 1) .. clock : Instant(roster[i], history.ran[i], t)
<1>1. IInv /\ [Next]_vars => [Fires]_vars
  <2> SUFFICES ASSUME IInv, [Next]_vars, run.stage = "check", run'.stage = "probe",
                      NEW i \in run'.todo, history.ran[i] # Never
               PROVE \E t \in (history.ran[i] + 1) .. clock :
                        Instant(roster[i], history.ran[i], t)
    OBVIOUS
  <2>1. Check
    <3>1. Asked(TRUE) => run.stage = "turn" BY DEF Asked
    <3>2. ASSUME NEW byDuty \in BOOLEAN, Asked(byDuty), Answer(byDuty) \/ run' = run
          PROVE run'.stage # "probe"
      BY <3>2 DEF Asked, Answer
    <3>3. ASSUME fold.stage = "turn", Answer(fold.duty) PROVE run'.stage # "probe"
      <4>1. fold.duty \in BOOLEAN BY <3>3, NoFoldFacts DEF IInv, Shapes, Passes
      <4>2. ~ fold.duty BY <3>3 DEF IInv, Control
      <4> QED BY <3>3, <4>2 DEF Answer
    <3> QED
      BY <3>2, <3>3
      DEF Next, vars, Boot, Wake, TakeTrigger, Record, ProbePrompt, ProbeWarm, ProbeDistill,
          ProbeFails, Prime, GateClosed, GateOpen, Probing, TurnSucceeds, TurnFails,
          FoldPrime, FoldIdle, FoldStart, FoldSucceeds, FoldFails, Grow, Tick, Trigger, Kill,
          LoseDocument
  <2>2. DueNow # {} /\ run'.todo = DueNow
    BY PlaceFacts, <2>1 DEF Check, Runs
  <2>3. i \in Duties /\ NextDue(roster[i], memory.last[i], clock) <= clock
    BY <2>2 DEF DueNow
  <2>4. history.ran[i] = memory.last[i] BY <2>3 DEF IInv, Ran, Loaded
  <2>5. history.ran[i] \in Nat
    <3>1. history.ran[i] \in Positions BY <2>3 DEF IInv, Shapes, Histories
    <3> QED BY <3>1 DEF Positions
  <2>6. roster \in Rosters /\ clock \in Nat BY PlaceFacts
  <2> QED BY <2>3, <2>4, <2>5, <2>6, DueFacts
<1>2. Spec => []IInv BY Inductive
<1> HIDE DEF IInv
<1>3. Spec => [][Fires]_vars BY <1>1, <1>2, PTL DEF Spec
<1> QED BY <1>3 DEF OverdueFiresOnce
=============================================================================
