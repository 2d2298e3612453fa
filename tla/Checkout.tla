------------------------------- MODULE Checkout -------------------------------
(***************************************************************************)
(* The clone of one repository under projects/ and its review worktree     *)
(* (src/channel/execution_checkout.rs, src/channel/github/review_checkout  *)
(* .rs, src/tools/git/checkout.rs).                                        *)
(*                                                                         *)
(* Before a turn is sent to the agent its poller prepares a checkout, one  *)
(* git command at a time and on its own task: pollers prepare while the    *)
(* agent works, in the same directory, for a turn of another channel.  An  *)
(* execution turn gets the clone detached at the default branch, with what *)
(* a predecessor left parked on a branch; a review gets a worktree.        *)
(*                                                                         *)
(* Abstracted: a work is one change to one file, a commit the works that   *)
(* it has beyond the default branch, whichever version of that was fetched;*)
(* files that .gitignore names and the kept caches are no works; nothing is*)
(* merged, so a commit with works is no ancestor of the default branch; the*)
(* devshell and its warm build change no work.                             *)
(***************************************************************************)
EXTENDS Integers, FiniteSets

CONSTANTS
    Works,       \* changes that turns make
    NewFiles,    \* those that add a file git does not track yet
    Executions,  \* pollers that prepare the clone
    Reviews,     \* pollers that prepare the worktree
    MaxParked,   \* recovery branches that are made
    MaxFaults    \* failing commands and kills together

ASSUME CheckoutAssumption ==
    /\ NewFiles \subseteq Works
    /\ Executions \cap Reviews = {}
    /\ -1 \notin Works   \* see NoCommit
    /\ MaxParked \in Nat /\ MaxFaults \in Nat

Preparers == Executions \cup Reviews

\* Pollers are configured one by one: here an execution poller and another.
Configured ==
    LET first == CHOOSE e \in Executions : TRUE
    IN  {{first, other} : other \in Preparers \ {first}}

VARIABLES
    clone,     \* the directory under projects/
    worktree,  \* what .git is in the directory under reviews/
    prep,      \* where each poller's preparation is
    turn,      \* the turn the agent runs: at most one
    history    \* what the properties remember

checkoutVars == <<clone, worktree, prep, turn, history>>

\* Branches by number: 0 is the turns' own, the others those under
\* kitaebot_recovered/ in the order in which they were made.
Branches == 0 .. MaxParked
Detached == -1

NoCommit == {Detached}   \* of a branch that does not exist

Absent ==
    [health |-> "absent", maker |-> {}, head |-> Detached, at |-> {},
     refs |-> [b \in Branches |-> NoCommit], tree |-> {}, staged |-> {}]

Cloned == [Absent EXCEPT !.health = "healthy"]

Waiting == [at |-> "idle", dirty |-> FALSE]

CheckoutInit ==
    /\ clone \in {Absent, Cloned}
    /\ \E pollers \in Configured :
        /\ prep = [p \in Preparers |->
                      IF p \in pollers THEN Waiting ELSE [Waiting EXCEPT !.at = "off"]]
        /\ worktree \in {"absent", "standalone"}
        /\ worktree = "standalone" => pollers \cap Reviews # {}
    /\ turn = {}
    /\ history = [safe |-> {}, faults |-> 0]

Fault == history.faults < MaxFaults

Blame == [history EXCEPT !.faults = @ + 1]

\* Works that a branch, HEAD or the working tree still holds.
Held == clone.tree \cup clone.at
            \cup UNION {clone.refs[b] : b \in {c \in Branches : clone.refs[c] # NoCommit}}

\* Removing the directory leaves the worktree pointing at nothing.
Removed(w) == IF w = "linked" THEN "dangling" ELSE w

-----------------------------------------------------------------------------
(* Preparing: cloning.                                                     *)

Go(p, step) == prep' = [prep EXCEPT ![p].at = step]

\* The preparation ended with an error: an execution turn is sent all the
\* same, with CLONE_YOURSELF; a review waits for the next tick.
GaveUp(p) == IF p \in Executions THEN "send" ELSE "idle"

\* ensure_cloned looks for a .git directory.
Begin(p) ==
    /\ prep[p].at = "idle" /\ p \notin turn
    /\ prep' = [prep EXCEPT ![p] =
                  [Waiting EXCEPT !.at = IF clone.health = "absent"
                                         THEN "clone" ELSE "probe"]]
    /\ UNCHANGED <<clone, worktree, turn, history>>

\* rev-parse accepts a healthy repository and no other.
Probe(p) ==
    /\ prep[p].at = "probe"
    /\ Go(p, IF clone.health # "healthy" THEN "remove"
             ELSE IF p \in Executions THEN "status" ELSE "fetch")
    /\ UNCHANGED <<clone, worktree, turn, history>>

\* A rev-parse that could not be run counts as one that refused.
ProbeFails(p) ==
    /\ prep[p].at = "probe" /\ Fault
    /\ Go(p, "remove")
    /\ history' = [Blame EXCEPT !.safe = {}]
    /\ UNCHANGED <<clone, worktree, turn>>

Remove(p) ==
    /\ prep[p].at = "remove"
    /\ clone' = Absent
    /\ worktree' = Removed(worktree)
    /\ Go(p, "clone")
    /\ UNCHANGED <<turn, history>>

\* git clone refuses a directory that exists; while it runs, its directory
\* looks to others like one that a dead clone left.
StartClone(p) ==
    /\ prep[p].at = "clone"
    /\ IF clone.health = "absent"
       THEN clone' = [Absent EXCEPT !.health = "skeleton", !.maker = {p}]
            /\ Go(p, "cloning")
       ELSE clone' = clone /\ Go(p, "discard")
    /\ UNCHANGED <<worktree, turn, history>>

FinishClone(p) ==
    /\ prep[p].at = "cloning"
    /\ IF clone.maker = {p}
       THEN clone' = Cloned /\ Go(p, "fetch")
       ELSE clone' = clone /\ Go(p, "discard")
    /\ UNCHANGED <<worktree, turn, history>>

\* A failed clone removes the directory, whoever made it.
Discard(p) ==
    /\ prep[p].at = "discard"
    /\ clone' = Absent
    /\ worktree' = Removed(worktree)
    /\ Go(p, GaveUp(p))
    /\ UNCHANGED <<turn, history>>

-----------------------------------------------------------------------------
(* Preparing: park, fetch, reset.                                          *)

\* A command in a directory that is not a repository (any more) fails.
Runs(p, step) == prep[p].at = step /\ clone.health = "healthy"

\* park_leftovers: is there anything uncommitted?
ReadStatus(p) ==
    /\ Runs(p, "status")
    /\ prep' = [prep EXCEPT ![p].at = "head", ![p].dirty = clone.tree # {}]
    /\ UNCHANGED <<clone, worktree, turn, history>>

\* A status that exits with an error reads as a clean tree.
StatusUnread(p) ==
    /\ prep[p].at = "status" /\ (Fault \/ clone.health # "healthy")
    /\ prep' = [prep EXCEPT ![p].at = "head", ![p].dirty = FALSE]
    /\ history' = IF clone.health = "healthy"
                  THEN [Blame EXCEPT !.safe = @ \ clone.tree]
                  ELSE history
    /\ UNCHANGED <<clone, worktree, turn>>

\* Only a detached HEAD strands commits.
Stranded == clone.head = Detached /\ clone.at # {}

\* Mutant: a clean tree is taken for nothing to lose.
LeftoversDirtyOnly(p) == prep[p].dirty

\* Anything to park?  (symbolic-ref and merge-base; both end here as one
\* step, and a failing one counts as stranded.)
Leftovers(p) == prep[p].dirty \/ Stranded

ReadHead(p) ==
    /\ Runs(p, "head")
    /\ Go(p, IF Leftovers(p) THEN "branch" ELSE "fetch")
    /\ UNCHANGED <<clone, worktree, turn, history>>

Parked == {b \in Branches \ {0} : clone.refs[b] # NoCommit}

\* The clone after checkout -b: the branch starts at HEAD and HEAD is on it.
OnNewBranch(b) == [clone EXCEPT !.refs[b] = clone.at, !.head = b]

\* kitaebot_recovered/<epoch second>, a second in which nothing was parked.
MakeBranch(p) ==
    /\ Runs(p, "branch")
    /\ \E b \in Branches :
        /\ b = Cardinality(Parked) + 1
        /\ clone' = OnNewBranch(b)
    /\ Go(p, IF prep[p].dirty THEN "add" ELSE "fetch")
    /\ UNCHANGED <<worktree, turn, history>>

\* add -A, then the caches are taken out of the index again.
AddAll(p) ==
    /\ Runs(p, "add")
    /\ clone' = [clone EXCEPT !.staged = clone.tree]
    /\ Go(p, "commit")
    /\ UNCHANGED <<worktree, turn, history>>

\* The checkout after a commit of ws: HEAD's branch follows.
WithCommit(ws) ==
    LET made == clone.at \cup ws
    IN  [clone EXCEPT
           !.at = made,
           !.refs = IF clone.head = Detached THEN @
                    ELSE [@ EXCEPT ![clone.head] = made],
           !.tree = @ \ ws,
           !.staged = @ \ ws]

CommitParked(p) ==
    /\ Runs(p, "commit")
    /\ clone' = WithCommit(clone.staged)
    /\ Go(p, "fetch")
    /\ UNCHANGED <<worktree, turn, history>>

FetchOrigin(p) ==
    /\ Runs(p, "fetch")
    /\ Go(p, IF p \in Executions THEN "detach" ELSE "marker")
    /\ UNCHANGED <<clone, worktree, turn, history>>

\* checkout --force --detach origin/HEAD keeps only files that git does not
\* track.
Reset(p) ==
    /\ Runs(p, "detach")
    /\ clone' = [clone EXCEPT
                   !.head = Detached,
                   !.at = {},
                   !.tree = (@ \cap NewFiles) \ clone.staged,
                   !.staged = {}]
    /\ Go(p, "clean")
    /\ UNCHANGED <<worktree, turn, history>>

\* clean -fdx removes those.
Clean(p) ==
    /\ Runs(p, "clean")
    /\ clone' = [clone EXCEPT !.tree = (@ \ NewFiles) \cup clone.staged]
    /\ Go(p, "send")
    /\ UNCHANGED <<worktree, turn, history>>

-----------------------------------------------------------------------------
(* Preparing: the review worktree.                                         *)

\* A .git file is taken for a worktree; a directory, a clone of former days,
\* is removed; then the worktree is added.
EnsureWorktree(p) ==
    /\ Runs(p, "marker")
    /\ worktree' = IF worktree = "dangling" THEN "dangling" ELSE "linked"
    /\ Go(p, "position")
    /\ UNCHANGED <<clone, turn, history>>

\* checkout --force --detach <head sha>, inside the worktree.
Position(p) ==
    /\ prep[p].at = "position"
    /\ Go(p, IF worktree = "linked" THEN "send" ELSE "idle")
    /\ UNCHANGED <<clone, worktree, turn, history>>

-----------------------------------------------------------------------------
(* Failures.                                                               *)

GitSteps == {"head", "branch", "add", "commit", "fetch", "detach", "clean",
             "status", "marker", "position"}

\* A command fails or times out: the error ends the preparation.  checkout
\* -b fails when something was parked in the same second.
CommandFails(p) ==
    /\ prep[p].at \in GitSteps
    /\ \/ Fault /\ history' = Blame
       \/ /\ \/ clone.health # "healthy" /\ prep[p].at # "status"
             \/ prep[p].at = "branch" /\ Parked # {}
          /\ history' = history
    /\ Go(p, GaveUp(p))
    /\ UNCHANGED <<clone, worktree, turn>>

CloneFails(p) ==
    /\ prep[p].at = "cloning" /\ Fault
    /\ history' = Blame
    /\ Go(p, "discard")
    /\ UNCHANGED <<clone, worktree, turn>>

\* The daemon dies or is restarted: only the directories stay.
Kill ==
    /\ Fault
    /\ prep' = [p \in Preparers |->
                   IF prep[p].at = "off" THEN prep[p] ELSE Waiting]
    /\ turn' = {}
    /\ clone' = [clone EXCEPT !.maker = {}]
    /\ history' = Blame
    /\ UNCHANGED <<worktree>>

-----------------------------------------------------------------------------
(* Turns.                                                                  *)

Chat == "chat"   \* a turn that no preparation precedes

\* The agent runs one turn at a time, and preparations while it does.
StartTurn(p) ==
    /\ turn = {}
    /\ \/ p \in Preparers /\ prep[p].at = "send"
          /\ prep' = [prep EXCEPT ![p].at = "idle"]
       \/ p = Chat /\ prep' = prep
    /\ turn' = {p}
    /\ UNCHANGED <<clone, worktree, history>>

EndTurn ==
    /\ turn # {}
    /\ turn' = {}
    /\ UNCHANGED <<clone, worktree, prep, history>>

\* A turn that works in the clone.
Working == turn # {} /\ turn \cap Reviews = {} /\ clone.health = "healthy"

Preparing == \E p \in Preparers : prep[p].at \notin {"off", "idle", "send"}

\* What a turn writes, or moves, while a preparation is under way is exposed.
Exposing(ws) ==
    history' = [history EXCEPT !.safe = IF Preparing THEN @ \ ws ELSE @ \cup ws]

TurnOnly == UNCHANGED <<worktree, prep, turn>>

Write(w) ==
    /\ Working /\ w \notin Held
    /\ clone' = [clone EXCEPT !.tree = @ \cup {w}]
    /\ Exposing({w})
    /\ TurnOnly

\* git add and the git_commit tool: what is staged joins HEAD's commit, and
\* its branch follows.
Commit ==
    /\ Working /\ clone.tree # {}
    /\ clone' = WithCommit(clone.tree)
    /\ Exposing(clone.tree)
    /\ TurnOnly

\* The turn makes its branch where HEAD is, or goes back to it when it would
\* leave nothing behind.
TakeBranch ==
    /\ Working /\ clone.head # 0
    /\ \/ clone.refs[0] = NoCommit
          /\ clone' = [clone EXCEPT !.head = 0, !.refs[0] = clone.at]
       \/ clone.refs[0] # NoCommit /\ clone.tree = {} /\ ~Stranded
          /\ clone' = [clone EXCEPT !.head = 0, !.at = clone.refs[0]]
    /\ Exposing(clone.tree \cup clone.at)
    /\ TurnOnly

PrepareStep(p) ==
    \/ Begin(p) \/ Probe(p) \/ Remove(p) \/ StartClone(p) \/ FinishClone(p)
    \/ Discard(p) \/ ReadStatus(p) \/ ReadHead(p) \/ MakeBranch(p)
    \/ AddAll(p) \/ CommitParked(p) \/ FetchOrigin(p) \/ Reset(p) \/ Clean(p)
    \/ EnsureWorktree(p) \/ Position(p)

Failure(p) ==
    ProbeFails(p) \/ StatusUnread(p) \/ CommandFails(p) \/ CloneFails(p)

TurnStep ==
    \/ \E w \in Works : Write(w)
    \/ Commit \/ TakeBranch

CheckoutNext ==
    \/ \E p \in Preparers : PrepareStep(p) \/ Failure(p)
    \/ \E p \in Preparers \cup {Chat} : StartTurn(p)
    \/ EndTurn \/ TurnStep \/ Kill

CheckoutSpec == CheckoutInit /\ [][CheckoutNext]_checkoutVars

-----------------------------------------------------------------------------

\* Type invariant, with what git keeps true of a checkout: HEAD of a branch
\* is the branch's commit, and what is staged is in the tree.
CheckoutTypeOK ==
    /\ clone.health \in {"absent", "skeleton", "healthy"}
    /\ clone.maker \subseteq Preparers
    /\ clone.head \in {Detached} \cup Branches
    /\ clone.at \subseteq Works
    /\ clone.refs \in [Branches -> {NoCommit} \cup SUBSET Works]
    /\ clone.staged \subseteq clone.tree /\ clone.tree \subseteq Works
    /\ clone.head # Detached => clone.refs[clone.head] = clone.at
    /\ worktree \in {"absent", "standalone", "linked", "dangling"}
    /\ turn \subseteq Preparers \cup {Chat} /\ Cardinality(turn) <= 1

\* No work is lost: what a turn wrote is in the tree, at HEAD or on a branch,
\* whichever command of however many preparations fails and wherever the
\* daemon is killed.  Two things are excused: works written or moved while a
\* preparation was under way, and works present when a rev-parse could not be
\* run (the clone is then removed, checkout.rs:57) or a status exited with an
\* error (its output is then empty, execution_checkout.rs:124).
LeftoversKept == history.safe \subseteq Held

=============================================================================
