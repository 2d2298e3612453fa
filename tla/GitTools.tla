------------------------------- MODULE GitTools -------------------------------
(***************************************************************************)
(* The git tools on a clone whose remote moves: git_commit, git_push,      *)
(* git_fetch (src/tools/git/commit.rs, push.rs, fetch.rs) and the two that *)
(* rewrite history, git_fixup (fixup.rs) and git_rebase (rebase.rs).       *)
(*                                                                         *)
(* A rewriting tool is a sequence of git commands, any of which may fail,  *)
(* and the daemon may die between two of them; what git keeps on disk, a   *)
(* paused rebase included, is what the next call and the next turn find.   *)
(* Meanwhile people push to the same branches, and another call of the     *)
(* same round may fetch.                                                   *)
(*                                                                         *)
(* Abstracted: a branch is the set of patches it has beyond the default    *)
(* branch, and the rewrite they come from, so one tip is an ancestor of    *)
(* another when both have the same rewrite and the other has its patches;  *)
(* people add commits, they do not rewrite; the preparation of a checkout  *)
(* (Checkout) is one step here; hooks, signatures and trailers are left    *)
(* out.  The effect of a git command is that of git 2.5x.                  *)
(***************************************************************************)
EXTENDS Naturals, FiniteSets

CONSTANTS
    Branches,     \* feature branches
    Works,        \* patches that turns commit
    HumanWorks,   \* patches that people push
    MaxRewrites,  \* rewrites of history
    MaxFaults     \* failing commands and kills together

ASSUME GitToolsAssumption ==
    /\ Works \cap HumanWorks = {}
    /\ "none" \notin Works \cup HumanWorks   \* see NoTip
    /\ MaxRewrites \in Nat /\ MaxFaults \in Nat

VARIABLES
    remote,    \* the branches at the remote
    tracking,  \* origin/<branch> in the clone, as of the last fetch or push
    local,     \* the branches of the clone
    head,      \* HEAD: the branch it is on, if any, its commit, and the index
    rebase,    \* what git keeps of a rebase that stopped: at most one
    tool,      \* where the rewriting tool is
    history    \* what the properties remember

gitVars == <<remote, tracking, local, head, rebase, tool, history>>

Patches == Works \cup HumanWorks

Tips == [rewrite : 0 .. MaxRewrites, patches : SUBSET Patches]
NoTip == [rewrite |-> 0, patches |-> {"none"}]
DefaultBranch == [rewrite |-> 0, patches |-> {}]

\* new can replace old at the remote without force.
FastForward(new, old) ==
    old = NoTip \/ (new.rewrite = old.rewrite /\ old.patches \subseteq new.patches)

NoTool == [step |-> "none", branch |-> {}, tweak |-> {}, tip |-> NoTip,
           lease |-> NoTip]

\* The remote after the preparation of a turn, and the clone detached at it.
Fresh == [on |-> {}, at |-> DefaultBranch, staged |-> {}]

GitInit ==
    /\ remote = [b \in Branches |-> NoTip]
    /\ tracking = remote /\ local = remote
    /\ head = Fresh
    /\ rebase = {}
    /\ tool = NoTool
    /\ history = [rewrites |-> 0, faults |-> 0, used |-> {}, seen |-> {},
                  stale |-> FALSE, before |-> Fresh, restored |-> TRUE]

Fault == history.faults < MaxFaults
Blame == [history EXCEPT !.faults = @ + 1]

Rewrite == history.rewrites + 1
CanRewrite == history.rewrites < MaxRewrites

-----------------------------------------------------------------------------
(* The remote.                                                             *)

HumanPushes(b, h) ==
    /\ remote[b] # NoTip /\ h \notin history.used
    /\ remote' = [remote EXCEPT ![b].patches = @ \cup {h}]
    /\ history' = [history EXCEPT !.used = @ \cup {h}]
    /\ UNCHANGED <<tracking, local, head, rebase, tool>>

-----------------------------------------------------------------------------
(* What a turn does between the rewriting tools.                           *)

Quiet == tool.step = "none"

\* HEAD after it moved to tip, and the branches: the one it is on follows.
MoveHead(tip, staged) ==
    /\ head' = [head EXCEPT !.at = tip, !.staged = staged]
    /\ local' = [b \in Branches |-> IF b \in head.on THEN tip ELSE local[b]]

\* A change is made and staged.
StageWork(w) ==
    /\ Quiet /\ w \in Works \ history.used
    /\ head' = [head EXCEPT !.staged = @ \cup {w}]
    /\ history' = [history EXCEPT !.used = @ \cup {w}]
    /\ UNCHANGED <<remote, tracking, local, rebase, tool>>

\* git_commit
Commit ==
    /\ Quiet /\ head.staged # {}
    /\ MoveHead([head.at EXCEPT !.patches = @ \cup head.staged], {})
    /\ UNCHANGED <<remote, tracking, rebase, tool, history>>

\* git checkout [-b] through exec, not away from a conflict nor to the branch
\* that is being rebased.
TakeBranch(b) ==
    /\ Quiet /\ head.on # {b} /\ head.staged = {}
    /\ \A r \in rebase : r.conflict = "gone" /\ r.branch # b
    /\ local' = [local EXCEPT ![b] = IF @ = NoTip THEN head.at ELSE @]
    /\ head' = [on |-> {b}, at |-> local'[b], staged |-> {}]
    /\ UNCHANGED <<remote, tracking, rebase, tool, history>>

\* git_push: without force.
Push(b) ==
    /\ Quiet /\ head.on = {b} /\ FastForward(local[b], remote[b])
    /\ remote' = [remote EXCEPT ![b] = local[b]]
    /\ tracking' = [tracking EXCEPT ![b] = local[b]]
    /\ UNCHANGED <<local, head, rebase, tool, history>>

\* git_fetch, or git_clone on a clone that is there: also while another call
\* of the round is at work.
Fetch ==
    /\ tracking # remote
    /\ tracking' = remote
    /\ UNCHANGED <<remote, local, head, rebase, tool, history>>

\* The files in conflict are edited and staged.
Resolve ==
    /\ Quiet
    /\ \E r \in rebase :
        /\ r.conflict = "open"
        /\ rebase' = {[r EXCEPT !.conflict = "staged"]}
    /\ UNCHANGED <<remote, tracking, local, head, tool, history>>

\* The checkout is prepared for another turn (Checkout): leftovers are parked
\* on a branch of their own and HEAD is detached at the default branch.  What
\* git remembers of a stopped rebase stays.
Prepare ==
    /\ Quiet
    /\ head # Fresh \/ tracking # remote
    /\ tracking' = remote
    /\ head' = Fresh
    /\ rebase' = {[r EXCEPT !.conflict = "gone"] : r \in rebase}
    /\ history' = [history EXCEPT !.stale = rebase # {}]
    /\ UNCHANGED <<remote, local, tool>>

TurnSteps ==
    \/ \E w \in Works : StageWork(w)
    \/ \E b \in Branches : TakeBranch(b) \/ Push(b)
    \/ Commit \/ Fetch \/ Resolve \/ Prepare

-----------------------------------------------------------------------------
(* Rebasing, as git does it.                                               *)

\* A rebase that stopped: the branch it is about, where that was, what is
\* still to be picked, and what became of the files in conflict.
Stopped(b, orig, todo) ==
    [branch |-> b, orig |-> orig, todo |-> todo, conflict |-> "open"]

\* The patches of todo are picked onto the commit base: all of them, and HEAD
\* ends on b, or up to a conflict.  A branch that HEAD was put on in between
\* is moved along.
Pick(b, orig, base, todo, next) ==
    \/ /\ LET tip == [rewrite |-> Rewrite, patches |-> base \cup todo]
          IN  /\ head' = [on |-> {b}, at |-> tip, staged |-> {}]
              /\ local' = [c \in Branches |->
                              IF c = b \/ c \in head.on THEN tip ELSE local[c]]
       /\ rebase' = {}
       /\ tool' = next
    \/ \E left \in SUBSET todo :
        /\ left # {}
        /\ LET tip == [rewrite |-> Rewrite, patches |-> base \cup (todo \ left)]
           IN  /\ head' = [on |-> head.on \ {b}, at |-> tip, staged |-> {}]
               /\ local' = [c \in Branches |->
                               IF c \in head.on \ {b} THEN tip ELSE local[c]]
        /\ rebase' = {Stopped(b, orig, left)}
        /\ tool' = [next EXCEPT !.step = "stopped"]

\* rebase --abort: back to the branch as it was.
AbortRebase(r) ==
    /\ head' = [on |-> {r.branch}, at |-> r.orig, staged |-> {}]
    /\ local' = [local EXCEPT ![r.branch] = r.orig]
    /\ rebase' = {}

-----------------------------------------------------------------------------
(* git_rebase                                                              *)

To(step) == tool' = [tool EXCEPT !.step = step]

\* start refuses a rebase in progress, a detached HEAD and a dirty tree.
RebaseStart(b) ==
    /\ Quiet /\ rebase = {} /\ head.on = {b} /\ head.staged = {}
    /\ tool' = [NoTool EXCEPT !.step = "fetch", !.branch = {b}]
    /\ UNCHANGED <<remote, tracking, local, head, rebase, history>>

RebaseFetch ==
    /\ tool.step = "fetch"
    /\ tracking' = remote
    /\ To("compare")
    /\ UNCHANGED <<remote, local, head, rebase, history>>

\* Mutant: a branch that diverged from its remote is taken.
SameAsRemoteAny(b) == TRUE

\* The local branch equals its remote-tracking ref, if there is one.
SameAsRemote(b) == tracking[b] \in {NoTip, local[b]}

RebaseCompare(b) ==
    /\ tool.step = "compare" /\ tool.branch = {b}
    /\ IF SameAsRemote(b)
       THEN /\ To("rebase")
            /\ history' = [history EXCEPT !.seen = tracking[b].patches \cap Patches,
                                          !.stale = FALSE]
       ELSE tool' = NoTool /\ history' = history
    /\ UNCHANGED <<remote, tracking, local, head, rebase>>

RebaseRun(b) ==
    /\ tool.step = "rebase" /\ tool.branch = {b}
    /\ \/ \* nothing to replay
          To("lease") /\ UNCHANGED <<local, head, rebase, history>>
       \/ /\ CanRewrite
          /\ Pick(b, head.at, {}, head.at.patches, [tool EXCEPT !.step = "lease"])
          /\ history' = [history EXCEPT !.rewrites = Rewrite]
    /\ UNCHANGED <<remote, tracking>>

\* continue: git refuses while files conflict, commits what is staged and
\* picks the rest; a conflict that is gone leaves nothing to commit.
RebaseContinue(b) ==
    /\ Quiet /\ CanRewrite
    /\ \E r \in rebase :
        /\ r.branch = b /\ r.conflict # "open"
        /\ r.conflict = "gone" => head.staged = {}
        /\ \E current \in r.todo :
            LET resolved == IF r.conflict = "staged" THEN {current} ELSE {}
            IN  Pick(b, r.orig, head.at.patches \cup head.staged \cup resolved,
                     r.todo \ {current},
                     [NoTool EXCEPT !.step = "lease", !.branch = {b}])
    /\ history' = [history EXCEPT !.rewrites = Rewrite]
    /\ UNCHANGED <<remote, tracking>>

\* The pause: the tool returns and asks the model to resolve.
RebasePaused ==
    /\ tool.step = "stopped" /\ tool.tweak = {}
    /\ tool' = NoTool
    /\ UNCHANGED <<remote, tracking, local, head, rebase, history>>

RebaseAbort ==
    /\ Quiet
    /\ \E r \in rebase : AbortRebase(r)
    /\ UNCHANGED <<remote, tracking, tool, history>>

\* rev-parse origin/<branch>, now: the lease of the push.
RebaseLease(b) ==
    /\ tool.step = "lease" /\ tool.branch = {b}
    /\ tool' = [tool EXCEPT !.step = "force", !.lease = tracking[b]]
    /\ UNCHANGED <<remote, tracking, local, head, rebase, history>>

\* Mutant: the lease is not checked.
LeaseHoldsAlways(b) == TRUE

\* --force-with-lease; a branch that was never pushed goes without force.
LeaseHolds(b) == remote[b] = tool.lease

ForcePush(b) ==
    /\ tool.step = "force" /\ tool.branch = {b}
    /\ IF LeaseHolds(b)
       THEN /\ remote' = [remote EXCEPT ![b] = local[b]]
            /\ tracking' = [tracking EXCEPT ![b] = local[b]]
       ELSE UNCHANGED <<remote, tracking>>
    /\ tool' = NoTool
    /\ UNCHANGED <<local, head, rebase, history>>

-----------------------------------------------------------------------------
(* git_fixup                                                               *)

\* preflight: something staged, on a branch, with a commit to meld it into.
FixupStart(b) ==
    /\ Quiet /\ head.staged # {} /\ head.on = {b} /\ head.at.patches # {}
    /\ tool' = [NoTool EXCEPT !.step = "commit", !.branch = {b},
                              !.tweak = head.staged]
    /\ history' = [history EXCEPT !.before = head, !.restored = rebase = {}]
    /\ UNCHANGED <<remote, tracking, local, head, rebase>>

\* commit --fixup, which makes a commit like any other.
FixupCommit ==
    /\ tool.step = "commit"
    /\ MoveHead([head.at EXCEPT !.patches = @ \cup head.staged], {})
    /\ To("resolve")
    /\ UNCHANGED <<remote, tracking, rebase, history>>

\* rev-parse HEAD and its tree.
FixupResolve ==
    /\ tool.step = "resolve"
    /\ tool' = [tool EXCEPT !.step = "squash", !.tip = head.at]
    /\ UNCHANGED <<remote, tracking, local, head, rebase, history>>

\* rebase --autosquash: melded, or stopped at a conflict.
FixupSquash(b) ==
    /\ tool.step = "squash" /\ tool.branch = {b}
    /\ CanRewrite /\ rebase = {}
    /\ Pick(b, head.at, {}, head.at.patches, [tool EXCEPT !.step = "tree"])
    /\ history' = [history EXCEPT
                     !.rewrites = Rewrite,
                     !.seen = history.before.at.patches \cup tool.tweak,
                     !.stale = FALSE]
    /\ UNCHANGED <<remote, tracking>>

\* git does not begin a rebase while another one is in progress.
FixupRefused ==
    /\ tool.step = "squash" /\ rebase # {}
    /\ To("undo")
    /\ UNCHANGED <<remote, tracking, local, head, rebase, history>>

\* A stop is undone, and so is a meld that changed the tree.
FixupTree(b) ==
    /\ tool.branch = {b} /\ tool.tweak # {}
    /\ \/ tool.step = "tree"
          /\ \/ tool' = [tool EXCEPT !.step = "force", !.lease = tracking[b]]
             \/ To("undo")
       \/ tool.step = "stopped" /\ To("undo")
    /\ UNCHANGED <<remote, tracking, local, head, rebase, history>>

\* restore: abort whatever is in progress, back to the fixup commit, and
\* undo that with its changes staged.
UndoAbort ==
    /\ tool.step = "undo"
    /\ \/ rebase = {} /\ UNCHANGED <<local, head, rebase>>
       \/ \E r \in rebase : AbortRebase(r)
    /\ To("undo hard")
    /\ UNCHANGED <<remote, tracking, history>>

UndoHard ==
    /\ tool.step = "undo hard"
    /\ MoveHead(tool.tip, {})
    /\ rebase' = {[r EXCEPT !.conflict = "gone"] : r \in rebase}
    /\ To("undo soft")
    /\ history' = [history EXCEPT !.stale = rebase # {}]
    /\ UNCHANGED <<remote, tracking>>

\* Mutant: reset --hard HEAD^ drops the changes with the commit.
ParentHard(last) ==
    [tip |-> [head.at EXCEPT !.patches = @ \ last], staged |-> {}]

\* reset --soft HEAD^: HEAD's last commit is undone, its changes are staged.
Parent(last) ==
    [tip |-> [head.at EXCEPT !.patches = @ \ last], staged |-> last]

UndoSoft ==
    /\ tool.step = "undo soft"
    /\ \E last \in IF head.at = tool.tip THEN {tool.tweak}
                    ELSE {{p} : p \in head.at.patches} :
          MoveHead(Parent(last).tip, Parent(last).staged)
    /\ tool' = NoTool
    /\ history' = [history EXCEPT !.stale = rebase # {}]
    /\ UNCHANGED <<remote, tracking, rebase>>

-----------------------------------------------------------------------------
(* Failures.                                                               *)

\* A command fails.  restore ignores that and goes on; everywhere else it
\* ends the call, and what was done stays.
CommandFails ==
    /\ ~Quiet /\ Fault
    /\ tool' = CASE tool.step = "undo" -> [tool EXCEPT !.step = "undo hard"]
                 [] tool.step = "undo hard" -> [tool EXCEPT !.step = "undo soft"]
                 [] OTHER -> NoTool
    /\ history' = [Blame EXCEPT !.restored = FALSE]
    /\ UNCHANGED <<remote, tracking, local, head, rebase>>

\* A rebase runs out of time and is killed before its first pick: it is left
\* in progress, and the error returns before anything is undone.
RebaseKilled(b) ==
    /\ tool.step \in {"squash", "rebase"} /\ tool.branch = {b}
    /\ Fault /\ rebase = {} /\ head.at.patches # {}
    /\ rebase' = {[Stopped(b, head.at, head.at.patches) EXCEPT !.conflict = "staged"]}
    /\ head' = Fresh
    /\ tool' = NoTool
    /\ history' = [Blame EXCEPT !.restored = FALSE, !.stale = FALSE,
                               !.seen = head.at.patches]
    /\ UNCHANGED <<remote, tracking, local>>

\* The daemon dies: git's files stay.
Kill ==
    /\ ~Quiet /\ Fault
    /\ tool' = NoTool
    /\ history' = Blame
    /\ UNCHANGED <<remote, tracking, local, head, rebase>>

-----------------------------------------------------------------------------

RebaseTool ==
    \/ \E b \in Branches :
          RebaseStart(b) \/ RebaseCompare(b) \/ RebaseRun(b)
              \/ RebaseContinue(b) \/ RebaseLease(b)
    \/ RebaseFetch \/ RebasePaused \/ RebaseAbort

FixupTool ==
    \/ \E b \in Branches : FixupStart(b) \/ FixupSquash(b) \/ FixupTree(b)
    \/ FixupCommit \/ FixupResolve \/ FixupRefused \/ UndoAbort \/ UndoHard \/ UndoSoft

GitNext ==
    \/ \E b \in Branches, h \in HumanWorks : HumanPushes(b, h)
    \/ \E b \in Branches : ForcePush(b) \/ RebaseKilled(b)
    \/ TurnSteps \/ RebaseTool \/ FixupTool \/ CommandFails \/ Kill

GitSpec == GitInit /\ [][GitNext]_gitVars

-----------------------------------------------------------------------------

AllTips == Tips \cup {NoTip}

\* Type invariant, with what git keeps true: the branch that HEAD is on is at
\* HEAD's commit, and the clone knows of no commit that nobody made.
GitTypeOK ==
    /\ remote \in [Branches -> AllTips] /\ tracking \in [Branches -> AllTips]
    /\ local \in [Branches -> AllTips]
    /\ head.on \subseteq Branches /\ Cardinality(head.on) <= 1
    /\ head.at \in Tips /\ head.staged \subseteq Works
    /\ \A b \in head.on : local[b] = head.at
    /\ Cardinality(rebase) <= 1
    /\ \A r \in rebase : /\ r.branch \in Branches /\ r.orig \in Tips
                         /\ r.todo \subseteq Patches /\ r.todo # {}
                         /\ r.conflict \in {"open", "staged", "gone"}
    /\ tool.branch \subseteq Branches /\ tool.tweak \subseteq Works
    /\ \A b \in Branches : remote[b].patches \subseteq history.used \cup NoTip.patches

\* A forced push overwrites no commit that was not fetched before, whoever
\* pushed it and at whichever moment (--force-with-lease, rebase.rs:307 and
\* fixup.rs:210).
OverwritesSeen ==
    [][\A b \in Branches :
          ForcePush(b) => remote[b].patches \subseteq
                             remote'[b].patches \cup tracking[b].patches]_gitVars

\* A rewriting tool publishes all that it set out from: what the branch had
\* at the remote when the rebase started, or locally when the fixup did, also
\* when it is continued after conflicts, a kill or a timeout.  Excused is a
\* rebase that another turn, or the rollback of a fixup, left behind.
ReplayIsWhole ==
    [][\A b \in Branches :
          ForcePush(b) /\ remote' # remote /\ ~history.stale
             => history.seen \subseteq remote'[b].patches]_gitVars

\* A fixup that is rolled back leaves the branch and the staged tweak as they
\* were (fixup.rs:232), if the commands of the rollback succeed and no other
\* rebase was in progress.
FixupUndone ==
    [][UndoSoft /\ history.restored => head' = history.before]_gitVars

=============================================================================
