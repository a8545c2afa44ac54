---------------------------- MODULE PullRequest ----------------------------
(***************************************************************************)
(* The life of one pull request.  A task lands its branch and proposes it, *)
(* or a person does.  The event loop triages it: a branch that fell behind *)
(* is updated by GitHub, a conflicted or failing one gets an unblock task, *)
(* a clean one a review that may merge it.  All these tasks work in work   *)
(* trees of their own that share ONE local branch.                         *)
(*                                                                         *)
(* What a behavior does between two awaits is a step, except around calls  *)
(* to GitHub: people push, a base moves, labels change, a call raises and  *)
(* the process crashes at any of them.  Queues and routing are in Harness; *)
(* here a task is the step it is at.                                       *)
(***************************************************************************)
EXTENDS Git, FiniteSets

CONSTANTS
    Tasks,          \* the tasks there may be; 1 is the one that proposes
    Targets,        \* the bases a person's pull request may have
    DefaultBranch,  \* the base that landing takes, and proposes against
    MaxAttempts,    \* the budget of the unhealthy-PRs check
    MaxPushes, MaxRearms, MaxRetries, MaxCrashes, MaxErrors,   \* bounds, of each
    MaxEvents       \* bound of all these together

ASSUME PullRequestAssumption ==
    /\ Tasks \subseteq Nat \ {0} /\ 1 \in Tasks
    /\ DefaultBranch \in Targets
    /\ MaxAttempts \in Nat \ {0}

VARIABLES
    origin,   \* the branch at GitHub
    bases,    \* bases[b]: a base branch at GitHub
    pr,       \* the pull request: state, target, attempt labels, give-up label
    local,    \* the branch in the clone, which every work tree has checked out
    trees,    \* trees[t]: the task's work tree
    tasks,    \* tasks[t]: the task
    seen,     \* what the two checks have observed since the start
    loop,     \* what the event loop is in the middle of
    next,     \* the next commit
    pushes, rearms, retries, crashes, errors,   \* counters for the bounds
    pushed,      \* observer: every change that was ever on the branch
    overlapped,  \* observer: a task moved the branch while another needed it
    attempted,   \* observer: the heads tried since the pull request was opened
                 \* or re-armed
    made,        \* observer: made[t] is the commit t's unblock step made
    read         \* observer: read[t] is what t's reviewer had in front of it

counters == <<pushes, rearms, retries, crashes, errors>>
remote == <<origin, bases, pr>>
clone == <<local, trees>>
observers == <<pushed, overlapped, attempted, made, read>>
vars == <<remote, clone, tasks, seen, loop, next, counters, observers>>

None == [hist |-> {}, tree |-> {}]      \* no such branch
Free == [at |-> "free"]
Absent == [kind |-> "none", stage |-> "none", from |-> "none",
           pin |-> {}, conflicted |-> FALSE, failing |-> FALSE]
Task(kind, stage, pin, failing) ==
    [kind |-> kind, stage |-> stage, from |-> stage,
     pin |-> pin, conflicted |-> FALSE, failing |-> failing]
NoPr == [state |-> "none", target |-> DefaultBranch,
         attempts |-> {}, giveUp |-> "no"]

\* A harness task about to land, or a person's pull request.
Init ==
    /\ bases = [b \in Targets |-> Commit({0})]
    /\ \/ /\ origin = None /\ pr = NoPr
          /\ local = Commit({0, 1})
          /\ tasks = [t \in Tasks |-> IF t = 1 THEN Task("build", "land", {}, FALSE)
                                      ELSE Absent]
          /\ trees = [t \in Tasks |-> IF t = 1 THEN Clean(local) ELSE NoTree]
          /\ pushed = {}
       \/ /\ \E b \in Targets : pr = [NoPr EXCEPT !.state = "open", !.target = b]
          /\ origin = Commit({0, 1})
          /\ local = None
          /\ tasks = [t \in Tasks |-> Absent]
          /\ trees = [t \in Tasks |-> NoTree]
          /\ pushed = {0, 1}
    /\ seen = {} /\ loop = Free /\ next = 2
    /\ pushes = 0 /\ rearms = 0 /\ retries = 0 /\ crashes = 0 /\ errors = 0
    /\ overlapped = FALSE /\ attempted = {}
    /\ made = [t \in Tasks |-> {}] /\ read = [t \in Tasks |-> {}]

-----------------------------------------------------------------------------
(* What the actions share.                                                 *)

\* The branch moved in t's work tree while another task had work on it.
MoveBranch(t, head) ==
    /\ local' = head
    /\ overlapped' = \/ overlapped
                     \/ /\ head # local
                        /\ \E u \in Tasks \ {t} :
                              /\ trees[u].exists
                              /\ tasks[u].stage \notin {"none", "done"}

\* Bounds: one more push, base moved, re-arming, retry, crash or failing call.
Bound(count, max) ==
    /\ count < max
    /\ pushes + rearms + retries + crashes + errors < MaxEvents

Stage(t, stage) == [tasks EXCEPT ![t].stage = stage]
Fail(t) == [tasks EXCEPT ![t].stage = "failed", ![t].from = tasks[t].stage]

OnPr(t) == tasks[t].kind # "build"      \* data.branch: a branch to share

\* Attaching raises when both sides have moved on since.
Diverged(t) ==
    /\ OnPr(t) /\ trees[t].exists
    /\ ~IsAncestor(local, origin) /\ ~IsAncestor(origin, local)

\* Mutant: a shared branch is always taken as GitHub has it.
AttachedAsOrigin(t) == IF OnPr(t) THEN origin ELSE local

\* A task's own branch is reset to its HEAD.  A shared one is taken as GitHub
\* has it, unless the clone is ahead of that.
AttachedHead(t) ==
    IF OnPr(t) /\ (~trees[t].exists \/ IsAncestor(local, origin))
    THEN origin ELSE local
AttachedTree(t) ==
    IF OnPr(t) /\ trees[t].exists /\ ~IsAncestor(local, origin)
    THEN trees[t] ELSE Clean(AttachedHead(t))

UpToDate(head, base) == IsAncestor(base, head)

\* commit(), in t's work tree `work' on the branch at `head'.
CommitFiles(t, work, head, new) ==
    LET commit == Committed(work, head, new, next)
    IN  IF NothingStaged(work, head, new)
        THEN /\ MoveBranch(t, head)
             /\ trees' = [trees EXCEPT ![t] = work]
             /\ UNCHANGED next
        ELSE /\ MoveBranch(t, commit)
             /\ trees' = [trees EXCEPT ![t] = Clean(commit)]
             /\ next' = next + 1

\* The merge cannot start while another one is not concluded.
AttachRaises(t) == Diverged(t) \/ AttachedTree(t).merging # {}

-----------------------------------------------------------------------------
(* People, and GitHub.                                                     *)

Pushing == Bound(pushes, MaxPushes) /\ pushes' = pushes + 1

PersonPushes ==
    /\ Pushing
    /\ pr.state = "open"
    /\ origin' = [hist |-> origin.hist \cup {next},
                  tree |-> origin.tree \cup {next}]
    /\ pushed' = pushed \cup {next}
    /\ next' = next + 1
    /\ UNCHANGED <<bases, pr, clone, tasks, seen, loop, rearms, retries,
                   crashes, errors, overlapped, attempted, made, read>>

BaseMoves(b) ==
    /\ Pushing
    /\ bases' = [bases EXCEPT ![b] = Commit(@.hist \cup {next})]
    /\ next' = next + 1
    /\ UNCHANGED <<origin, pr, clone, tasks, seen, loop, rearms, retries,
                   crashes, errors, observers>>

\* A person deletes the labels of the triage, so that it tries again.
Rearm ==
    /\ Bound(rearms, MaxRearms)
    /\ pr.attempts # {} \/ pr.giveUp # "no"
    /\ pr' = [pr EXCEPT !.attempts = {}, !.giveUp = "no"]
    /\ attempted' = {}
    /\ rearms' = rearms + 1
    /\ UNCHANGED <<origin, bases, clone, tasks, seen, loop, next, pushes,
                   retries, crashes, errors, pushed, overlapped, made, read>>

\* An operator sends a failed task back to the step it failed in.
Retry(t) ==
    /\ Bound(retries, MaxRetries)
    /\ tasks[t].stage = "failed"
    /\ tasks' = Stage(t, tasks[t].from)
    /\ retries' = retries + 1
    /\ UNCHANGED <<remote, clone, seen, loop, next, pushes, rearms, crashes,
                   errors, observers>>

-----------------------------------------------------------------------------
(* Triage: GithubUnhealthyPrsCheck.evaluate(), and the poller that puts.   *)

Key(kind, head) == <<kind, head.hist>>

\* The poller drops a task of a head that has one, in this run or on disk.
FreeIds == {t \in Tasks \ {1} : tasks[t] = Absent}
PutTask(kind, head, failing) ==
    IF \E t \in Tasks : tasks[t].kind = kind /\ tasks[t].pin = head.hist
    THEN UNCHANGED tasks
    ELSE LET t == CHOOSE u \in FreeIds : \A v \in FreeIds : u <= v
         IN tasks' = [tasks EXCEPT ![t] = Task(kind, "queued", head.hist, failing)]

Listed == loop = Free /\ pr.state = "open"
Base == bases[pr.target]

\* Behind: GitHub merges the base into the branch, and no task is made.
UpdateBranch ==
    /\ Listed /\ pr.giveUp = "no"
    /\ ~UpToDate(origin, Base)
    /\ origin' = MergeCommit(origin, Base, next)
    /\ pushed' = pushed \cup Base.tree
    /\ next' = next + 1
    /\ UNCHANGED <<bases, pr, clone, tasks, seen, loop, counters,
                   overlapped, attempted, made, read>>

\* The highest count wins; one naming the head is not spent again.
Spent(labels) ==
    IF labels = {} THEN 0
    ELSE CHOOSE n \in {l.n : l \in labels} : \A l \in labels : l.n <= n
IsFresh(labels, head) ==
    \A l \in labels : l.n = Spent(labels) => l.head # head.hist

\* Mutant: the new head is not counted.
AttemptSame(labels, head) == Spent(labels)

Attempt(labels, head) ==
    Spent(labels) + (IF IsFresh(labels, head) THEN 1 ELSE 0)

OverBudget(attempt) == attempt > MaxAttempts

\* Conflicted, or with a check that failed.  The list is read once; what
\* follows in the same tick goes by it.
Triage(dirty, failing) ==
    /\ Listed /\ pr.giveUp = "no"
    /\ dirty \/ failing
    /\ dirty => ~UpToDate(origin, Base)
    /\ LET attempt == Attempt(pr.attempts, origin)
       IN IF OverBudget(attempt)
          THEN /\ loop' = [at |-> "giveup"]
               /\ UNCHANGED <<tasks, seen, attempted>>
          ELSE /\ FreeIds # {}      \* bound
               /\ Key("unblock", origin) \notin seen
               /\ seen' = seen \cup {Key("unblock", origin)}
               /\ IF IsFresh(pr.attempts, origin)
                  THEN /\ loop' = [at |-> "bump", head |-> origin, failing |-> failing,
                                   old |-> pr.attempts,
                                   fresh |-> [n |-> attempt, head |-> origin.hist]]
                       /\ UNCHANGED <<tasks, attempted>>
                  ELSE /\ PutTask("unblock", origin, failing)
                       /\ attempted' = attempted \cup {origin.hist}
                       /\ UNCHANGED loop
    /\ UNCHANGED <<remote, clone, next, counters, pushed, overlapped, made, read>>

GiveUp ==
    /\ loop.at = "giveup"
    /\ pr' = [pr EXCEPT !.giveUp = "budget"]
    /\ loop' = Free
    /\ UNCHANGED <<origin, bases, clone, tasks, seen, next, counters, observers>>

\* The new counter is added before the old ones are removed.
BumpAdd ==
    /\ loop.at = "bump"
    /\ pr' = [pr EXCEPT !.attempts = @ \cup {loop.fresh}]
    /\ loop' = [loop EXCEPT !.at = "clear"]
    /\ UNCHANGED <<origin, bases, clone, tasks, seen, next, counters, observers>>

\* Mutant: every counter is cleared, the new one too.
BumpClearAll ==
    /\ loop.at = "clear"
    /\ pr' = [pr EXCEPT !.attempts = {}]
    /\ PutTask("unblock", loop.head, loop.failing)
    /\ attempted' = attempted \cup {loop.head.hist}
    /\ loop' = Free
    /\ UNCHANGED <<origin, bases, clone, seen, next, counters,
                   pushed, overlapped, made, read>>

BumpClear ==
    /\ loop.at = "clear"
    /\ pr' = [pr EXCEPT !.attempts = @ \ loop.old]
    /\ PutTask("unblock", loop.head, loop.failing)
    /\ attempted' = IF loop.fresh \in pr.attempts      \* not re-armed since
                    THEN attempted \cup {loop.head.hist} ELSE attempted
    /\ loop' = Free
    /\ UNCHANGED <<origin, bases, clone, seen, next, counters,
                   pushed, overlapped, made, read>>

\* A call raises, carried out or not; evaluate() goes on to the next request.
TriageRaises ==
    /\ Bound(errors, MaxErrors)
    /\ errors' = errors + 1
    /\ \/ /\ loop.at = "giveup"
          /\ pr' \in {pr, [pr EXCEPT !.giveUp = "budget"]}
       \/ /\ loop.at = "bump"
          /\ pr' \in {pr, [pr EXCEPT !.attempts = @ \cup {loop.fresh}]}
       \/ /\ loop.at = "clear"
          /\ \E gone \in SUBSET loop.old :
                pr' = [pr EXCEPT !.attempts = @ \ gone]
    /\ loop' = Free
    /\ UNCHANGED <<origin, bases, clone, tasks, seen, next, pushes, rearms,
                   retries, crashes, observers>>

\* GithubMergeableCheck.evaluate(): a review of each head found clean.
ScanClean ==
    /\ Listed
    /\ FreeIds # {}      \* bound
    /\ Key("review", origin) \notin seen
    /\ seen' = seen \cup {Key("review", origin)}
    /\ PutTask("review", origin, FALSE)
    /\ UNCHANGED <<remote, clone, loop, next, counters, observers>>

-----------------------------------------------------------------------------
(* UnblockPrBehavior.run(), before and after its agent.                    *)

AttachFails(t) ==
    /\ loop = Free
    /\ tasks[t].stage \in {"queued", "land"}
    /\ AttachRaises(t)
    /\ tasks' = Fail(t)
    /\ UNCHANGED <<remote, clone, seen, loop, next, counters, observers>>

UnblockStart(t) ==
    /\ loop = Free
    /\ tasks[t].kind = "unblock" /\ tasks[t].stage = "queued"
    /\ ~AttachRaises(t)
    /\ \E conflicted \in BOOLEAN :
          LET head == AttachedHead(t)
              upToDate == UpToDate(head, Base)
              work == IF upToDate THEN AttachedTree(t)
                      ELSE Merging(AttachedTree(t), head, Base)
          IN /\ conflicted => ~upToDate
             /\ IF conflicted \/ tasks[t].failing
                THEN /\ MoveBranch(t, head)
                     /\ trees' = [trees EXCEPT ![t] = work]
                     /\ tasks' = [tasks EXCEPT ![t].stage = "agent",
                                               ![t].conflicted = conflicted]
                     /\ UNCHANGED next
                ELSE /\ CommitFiles(t, work, head, {})
                     /\ tasks' = Stage(t, "land")
    /\ made' = [made EXCEPT ![t] = {}]
    /\ UNCHANGED <<remote, seen, loop, counters, pushed, attempted, read>>

UnblockDone(t) ==
    /\ loop = Free
    /\ tasks[t].kind = "unblock" /\ tasks[t].stage = "agent"
    /\ CommitFiles(t, trees[t], local, {next})
    /\ made' = [made EXCEPT ![t] = {next}]
    /\ tasks' = Stage(t, "land")
    /\ UNCHANGED <<remote, seen, loop, counters, pushed, attempted, read>>

\* The agent is stuck: the label is best effort, a conflicted merge is aborted.
UnblockStuck(t) ==
    /\ loop = Free
    /\ tasks[t].kind = "unblock" /\ tasks[t].stage = "agent"
    /\ \/ /\ pr' = [pr EXCEPT !.giveUp = "stuck"]
          /\ UNCHANGED errors
       \/ /\ Bound(errors, MaxErrors) /\ errors' = errors + 1
          /\ UNCHANGED pr
    /\ IF tasks[t].conflicted
       THEN /\ MoveBranch(t, local)
            /\ trees' = [trees EXCEPT ![t] = Clean(local)]
            /\ UNCHANGED next
       ELSE CommitFiles(t, trees[t], local, {next})
    /\ tasks' = Stage(t, "done")
    /\ UNCHANGED <<origin, bases, seen, loop, pushes, rearms, retries, crashes,
                   pushed, attempted, made, read>>

\* A time-out, or a verdict that cannot be read: back to the step's start.
AgentRaises(t) ==
    /\ loop = Free
    /\ Bound(errors, MaxErrors) /\ errors' = errors + 1
    /\ tasks[t].stage = "agent"
    /\ tasks' = [tasks EXCEPT ![t].stage = "failed", ![t].from = "queued"]
    /\ UNCHANGED <<remote, clone, seen, loop, next, pushes, rearms, retries,
                   crashes, observers>>

-----------------------------------------------------------------------------
(* The review, by an ordinary agent step, and the merge.                   *)

ReviewStart(t) ==
    /\ loop = Free
    /\ tasks[t].kind = "review" /\ tasks[t].stage = "queued"
    /\ ~Diverged(t)
    /\ MoveBranch(t, AttachedHead(t))
    /\ trees' = [trees EXCEPT ![t] = AttachedTree(t)]
    /\ read' = [read EXCEPT ![t] = AttachedTree(t).files]
    /\ tasks' = Stage(t, "agent")
    /\ UNCHANGED <<remote, seen, loop, next, counters, pushed, attempted, made>>

\* The worker commits the reviewer's report, approved or not.
ReviewEnd(t) ==
    /\ loop = Free
    /\ tasks[t].kind = "review" /\ tasks[t].stage = "agent"
    /\ CommitFiles(t, trees[t], local, {next})
    /\ \/ tasks' = Stage(t, "merge")
       \/ tasks' = Stage(t, "done")
    /\ UNCHANGED <<remote, seen, loop, counters, pushed, attempted, made, read>>

\* Mutant: the call does not pass the head on.
PinnedToAny(t) == t \in Tasks

\* GitHub merges only the head that it is told.
Pinned(t) == origin.hist = tasks[t].pin

\* What the reviewer's report says: a verdict that is confident enough to
\* merge, one that is not, or none that can be read.
Verdicts == {"merge", "hold", "unreadable"}

\* Merged, refused, or an error; the result is delivered afterwards.
MergeCall(t) ==
    /\ loop = Free
    /\ tasks[t].stage = "merge"
    /\ \E verdict \in Verdicts :
          \/ /\ verdict = "merge"
             /\ pr.state = "open" /\ Pinned(t)
             /\ pr' = [pr EXCEPT !.state = "merged"]
             /\ loop' = [at |-> "merged", task |-> t]
             /\ UNCHANGED errors
          \/ /\ verdict \in {"merge", "hold"}
             /\ loop' = [at |-> "refused", task |-> t]
             /\ UNCHANGED <<pr, errors>>
          \/ /\ verdict \in {"merge", "unreadable"}
             /\ Bound(errors, MaxErrors) /\ errors' = errors + 1
             /\ \/ UNCHANGED pr
                \/ /\ verdict = "merge" /\ pr.state = "open" /\ Pinned(t)
                   /\ pr' = [pr EXCEPT !.state = "merged"]
             /\ loop' = [at |-> "raised", task |-> t]
    /\ UNCHANGED <<origin, bases, clone, tasks, seen, next, pushes, rearms,
                   retries, crashes, observers>>

MergeSettles ==
    /\ loop.at \in {"merged", "refused", "raised"}
    /\ tasks' = IF loop.at = "raised" THEN Fail(loop.task)
                ELSE Stage(loop.task, "done")
    /\ loop' = Free
    /\ UNCHANGED <<remote, clone, seen, next, counters, observers>>

-----------------------------------------------------------------------------
(* LandingBehavior.run(): sync with the base, push, propose.               *)

\* Landing takes the repository's default branch, whatever the pull request's.
LandingBase == bases[DefaultBranch]

LandSync(t) ==
    /\ loop = Free
    /\ tasks[t].stage = "land"
    /\ ~AttachRaises(t)
    /\ LET head == AttachedHead(t)
           base == LandingBase
           work == Merging(AttachedTree(t), head, base)
       IN \/ /\ ~UpToDate(head, base)
             /\ CommitFiles(t, work, head, {})
          \/ \* up to date, or a conflict: the merge is aborted
             /\ MoveBranch(t, head)
             /\ trees' = [trees EXCEPT ![t] = Clean(head)]
             /\ UNCHANGED next
    /\ loop' = [at |-> "push", task |-> t]
    /\ UNCHANGED <<remote, tasks, seen, counters, pushed, attempted, made, read>>

\* Mutant: the push is forced.
AcceptedAlways == loop.at = "push"

Accepted == IsAncestor(origin, local)

LandPush ==
    /\ loop.at = "push"
    /\ IF Accepted
       THEN /\ origin' = local
            /\ pushed' = pushed \cup local.tree
            /\ loop' = [loop EXCEPT !.at = "propose"]
            /\ UNCHANGED tasks
       ELSE /\ tasks' = Fail(loop.task)
            /\ loop' = Free
            /\ UNCHANGED <<origin, pushed>>
    /\ UNCHANGED <<bases, pr, clone, seen, next, counters,
                   overlapped, attempted, made, read>>

\* The open pull request of the branch is found, or one is opened.
Found == pr.state = "open"
Opened == [NoPr EXCEPT !.state = "open"]
Proposed == IF Found THEN pr ELSE Opened

\* The labels of a new pull request count from nothing.
CountsAnew == attempted' = IF pr' = pr THEN attempted ELSE {}

LandPropose ==
    /\ loop.at = "propose"
    /\ pr' = Proposed
    /\ CountsAnew
    /\ tasks' = Stage(loop.task, "done")
    /\ loop' = Free
    /\ UNCHANGED <<origin, bases, clone, seen, next, counters, pushed,
                   overlapped, made, read>>

\* One of the calls raises, carried out or not.
LandRaises ==
    /\ Bound(errors, MaxErrors) /\ errors' = errors + 1
    /\ \/ /\ loop.at = "push" /\ Accepted
          /\ \/ UNCHANGED <<origin, pushed>>
             \/ origin' = local /\ pushed' = pushed \cup local.tree
          /\ UNCHANGED pr
       \/ /\ loop.at = "propose"
          /\ pr' \in {pr, Proposed}
          /\ UNCHANGED <<origin, pushed>>
    /\ CountsAnew
    /\ tasks' = Fail(loop.task)
    /\ loop' = Free
    /\ UNCHANGED <<bases, clone, seen, next, pushes, rearms, retries, crashes,
                   overlapped, made, read>>

-----------------------------------------------------------------------------

\* The process dies and is started again: what was claimed is taken back, the
\* ledgers are empty.  It may die between adding a work tree and resetting it.
Crash ==
    /\ Bound(crashes, MaxCrashes) /\ crashes' = crashes + 1
    /\ \/ UNCHANGED trees
       \/ /\ loop = Free /\ local # None
          /\ \E t \in Tasks : /\ OnPr(t) /\ tasks[t].stage = "queued"
                              /\ ~trees[t].exists
                              /\ trees' = [trees EXCEPT ![t] = Clean(local)]
    /\ tasks' = [t \in Tasks |-> IF tasks[t].stage = "agent"
                                 THEN [tasks[t] EXCEPT !.stage = "queued"]
                                 ELSE tasks[t]]
    /\ loop' = Free
    /\ seen' = {}
    /\ UNCHANGED <<remote, local, next, pushes, rearms, retries, errors, observers>>

Next ==
    \/ PersonPushes \/ Rearm
    \/ \E b \in Targets : BaseMoves(b)
    \/ \E t \in Tasks : Retry(t)
    \/ UpdateBranch
    \/ \E dirty, failing \in BOOLEAN : Triage(dirty, failing)
    \/ GiveUp \/ BumpAdd \/ BumpClear \/ TriageRaises \/ ScanClean
    \/ \E t \in Tasks :
          \/ AttachFails(t) \/ UnblockStart(t) \/ UnblockDone(t)
          \/ UnblockStuck(t) \/ AgentRaises(t)
          \/ ReviewStart(t) \/ ReviewEnd(t) \/ MergeCall(t) \/ LandSync(t)
    \/ MergeSettles \/ LandPush \/ LandPropose \/ LandRaises
    \/ Crash

Spec == Init /\ [][Next]_vars

-----------------------------------------------------------------------------
(* Properties.                                                             *)

Changes == 0 .. next - 1
Commits == [hist : SUBSET Changes, tree : SUBSET Changes]
Labels == [n : Nat \ {0}, head : SUBSET Changes]
Stages == {"none", "queued", "agent", "merge", "land", "done", "failed"}
Loops ==
    [at : {"free", "giveup"}]
    \cup [at : {"bump", "clear"}, head : Commits, failing : BOOLEAN,
          old : SUBSET Labels, fresh : Labels]
    \cup [at : {"push", "propose", "merged", "refused", "raised"}, task : Tasks]

\* Every variable has its type; changes are numbered from 0.
TypeOK ==
    /\ next \in Nat \ {0, 1}
    /\ origin \in Commits /\ local \in Commits
    /\ bases \in [Targets -> Commits]
    /\ pr.attempts \subseteq Labels
    /\ pr \in [state : {"none", "open", "merged"}, target : Targets,
               attempts : {pr.attempts}, giveUp : {"no", "budget", "stuck"}]
    /\ trees \in [Tasks -> [files : SUBSET Changes, merging : SUBSET Changes,
                            exists : BOOLEAN]]
    /\ tasks \in [Tasks -> [kind : {"none", "build", "unblock", "review"},
                            stage : Stages, from : Stages,
                            pin : SUBSET Changes, conflicted : BOOLEAN,
                            failing : BOOLEAN]]
    /\ loop \in Loops
    /\ seen \subseteq {"unblock", "review"} \X SUBSET Changes
    /\ counters \in Nat \X Nat \X Nat \X Nat \X Nat
    /\ pushed \subseteq Changes /\ overlapped \in BOOLEAN
    /\ attempted \subseteq SUBSET Changes
    /\ made \in [Tasks -> SUBSET Changes] /\ read \in [Tasks -> SUBSET Changes]

\* Whatever was ever on the branch is in its tree still: landing never pushes
\* over what people, GitHub or another task pushed, as long as no two tasks
\* worked on the branch at once.
NothingPushedIsLost == overlapped \/ origin = None \/ pushed \subseteq origin.tree

\* An unblock task that made a commit and finished has it on the pull request:
\* landing, which attaches again, does not start over from GitHub's head.
ResolutionReachesPr ==
    \A t \in Tasks :
        tasks[t].kind = "unblock" /\ tasks[t].stage = "done"
            => overlapped \/ made[t] \subseteq origin.hist

\* A task merges only what its reviewer had in front of it, whatever was pushed
\* in between, as long as no two tasks worked on the branch at once.
MergesWhatWasRead ==
    [][pr.state # "merged" /\ pr'.state = "merged"
        => overlapped \/ \E t \in Tasks : tasks[t].stage = "merge"
                                     /\ origin.tree \subseteq read[t]]_vars

\* Between two re-armings no more heads are tried than the budget has, through
\* crashes and through calls that raise half way.
BudgetHolds == Cardinality(attempted) <= MaxAttempts

\* A pull request is given up for its budget only after that many heads were
\* really tried; a crash or a call that raises costs at most one attempt.
GiveUpMeansTried ==
    pr.giveUp = "budget" /\ rearms = 0
        => Cardinality(attempted) + crashes + errors >= MaxAttempts

\* The labels on the pull request count what was tried, neither less nor more.
BudgetMeansTries == BudgetHolds /\ GiveUpMeansTried
=============================================================================
