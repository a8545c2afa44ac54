-------------------------- MODULE PullRequestProofs --------------------------
(***************************************************************************)
(* What holds of a pull request for any number of tasks and of bases, any  *)
(* budget, and however often people push, a base moves, the labels are     *)
(* deleted, a call raises, a task is retried and the process crashes.      *)
(***************************************************************************)
EXTENDS PullRequest, FiniteSetTheorems, TLAPS

-----------------------------------------------------------------------------
(* Who is where: what the tasks, the trees and the loop know of each other. *)

Kept(t) == trees[t].exists /\ tasks[t].stage \notin {"none", "done"}

\* The step a task is at, or will be at when it is retried.
IsAt(t, stage) ==
    \/ tasks[t].stage = stage
    \/ tasks[t].stage = "failed" /\ tasks[t].from = stage

\* Only a review merges, and only what is not there has no stage.
Staged ==
    \A t \in Tasks :
        /\ IsAt(t, "merge") => tasks[t].kind = "review"
        /\ tasks[t].stage = "none" <=> tasks[t] = Absent
        /\ tasks[t].stage = "failed" => tasks[t].from \notin {"none", "done", "failed"}
        /\ tasks[t] = Absent => ~trees[t].exists
        /\ ~trees[t].exists => tasks[t].kind # "build" /\ ~IsAt(t, "land")
                               /\ ~IsAt(t, "agent")

\* The tick under way: the task of a landing or a merge, room for the task of a
\* bump.
Ticking ==
    /\ loop.at \in {"push", "propose"} => tasks[loop.task].stage = "land"
    /\ loop.at \in {"merged", "refused", "raised"} => tasks[loop.task].stage = "merge"
    /\ loop.at \in {"bump", "clear"} => FreeIds # {}

-----------------------------------------------------------------------------
(* What git holds: nothing is lost as long as no two tasks overlapped.     *)

\* Changes that some base has; no commit of the branch is among them.
BaseChanges == UNION {bases[b].hist : b \in Targets}

\* Bases drop nothing.
BasesWhole == \A b \in Targets : bases[b].tree = bases[b].hist

\* Histories tell commits apart, and GitHub's head apart from what merging any
\* of the bases adds.
Told ==
    /\ local.hist = origin.hist => local = origin
    /\ origin.hist \ BaseChanges \subseteq local.hist => IsAncestor(origin, local)

\* A commit has the changes of every base it contains.
Whole(c) == c.hist \cap BaseChanges \subseteq c.tree

\* What is on GitHub was pushed; a merge under way is one of a base.
Traced ==
    /\ origin.tree \subseteq pushed
    /\ \A t \in Tasks : trees[t].merging \subseteq BaseChanges

\* Nothing is lost: not on GitHub, not in the clone when it is ahead, and not
\* in the files of a task at work.
Safe ==
    /\ pushed \subseteq origin.tree /\ Whole(origin) /\ Whole(local)
    /\ IsAncestor(origin, local) => pushed \subseteq local.tree
    /\ \A t \in Tasks : Kept(t) =>
          local.tree \cup trees[t].merging \subseteq trees[t].files

GitHolds == BasesWhole /\ Told /\ Traced /\ (~overlapped => Safe)

-----------------------------------------------------------------------------
(* What the tasks made and read.                                           *)

\* A pin is a head that GitHub had.
Pins ==
    /\ \A t \in Tasks : tasks[t].pin \subseteq origin.hist
    /\ loop.at \in {"bump", "clear"} => loop.head.hist \subseteq origin.hist

\* What an unblock task made is on the branch until it is on GitHub.
MadeKept ==
    /\ \A t \in Tasks : tasks[t].kind = "unblock" =>
          /\ IsAt(t, "agent") => made[t] = {}
          /\ ~overlapped /\ IsAt(t, "land") => made[t] \subseteq local.hist
          /\ ~overlapped /\ tasks[t].stage = "done" => made[t] \subseteq origin.hist
    /\ loop.at = "propose" /\ ~overlapped /\ tasks[loop.task].kind = "unblock" =>
          made[loop.task] \subseteq origin.hist

\* What a reviewer reads is what its pin has.
ReadRight ==
    ~overlapped =>
        \A t \in Tasks :
            /\ tasks[t].kind = "review"
            /\ IsAt(t, "agent") \/ IsAt(t, "merge")
            /\ Pinned(t)
            => origin.tree \subseteq read[t]

-----------------------------------------------------------------------------
(* What the labels count.                                                  *)

Numbered(labels) ==
    /\ \A l \in labels : l.n <= MaxAttempts
    /\ \A l, m \in labels : l.n = m.n => l = m

Newest(l, labels) == l \in labels /\ \A m \in labels : m.n <= l.n

\* The heads that were tried, all up to the newest label's.
Counts ==
    /\ IsFiniteSet(attempted)
    /\ pr.attempts = {} => attempted = {}
    /\ \A l \in pr.attempts : Newest(l, pr.attempts) =>
          /\ \A h \in attempted : h \subseteq l.head
          /\ Cardinality(attempted \ {l.head}) + 1 <= l.n
    /\ \A l \in pr.attempts : l.head \subseteq origin.hist

\* What the tries may be short of the count, for it was a call that raised or a
\* crash that cost them.
Slack == crashes + errors + (IF loop.at = "clear" THEN 1 ELSE 0)

Spends ==
    rearms = 0 =>
        /\ \A l \in pr.attempts : l.n <= Cardinality(attempted) + Slack
        /\ loop.at = "giveup" \/ pr.giveUp = "budget" =>
              Cardinality(attempted) + crashes + errors >= MaxAttempts

\* The new label, before it is written and after.
Bumps ==
    /\ loop.at \in {"bump", "clear"} =>
          /\ loop.fresh.n <= MaxAttempts /\ loop.fresh.head = loop.head.hist
          /\ loop.fresh.head \notin attempted
          /\ \A h \in attempted : h \subseteq loop.fresh.head
          /\ \A l \in loop.old : l.n < loop.fresh.n
    /\ loop.at = "bump" =>
          /\ pr.attempts = loop.old \/ (pr.attempts = {} /\ rearms > 0)
          /\ Cardinality(attempted) + 1 <= loop.fresh.n
          /\ rearms = 0 => loop.fresh.n <= Cardinality(attempted) + crashes + errors + 1
    /\ loop.at = "clear" =>
          \/ pr.attempts = loop.old \cup {loop.fresh}
          \/ pr.attempts \subseteq {loop.fresh} /\ rearms > 0

LabelsHold == Numbered(pr.attempts) /\ Counts /\ Spends /\ Bumps

IInv ==
    TypeOK /\ Staged /\ Ticking /\ GitHolds /\ Pins /\ MadeKept /\ ReadRight /\ LabelsHold

-----------------------------------------------------------------------------
(* Types.                                                                  *)

Trees == [files : SUBSET Changes, merging : SUBSET Changes, exists : BOOLEAN]
TaskType == [kind : {"none", "build", "unblock", "review"}, stage : Stages,
             from : Stages, pin : SUBSET Changes, conflicted : BOOLEAN,
             failing : BOOLEAN]

PrTyped ==
    /\ pr.attempts \subseteq Labels
    /\ pr \in [state : {"none", "open", "merged"}, target : Targets,
               attempts : {pr.attempts}, giveUp : {"no", "budget", "stuck"}]

CountersTyped ==
    pushes \in Nat /\ rearms \in Nat /\ retries \in Nat /\ crashes \in Nat /\ errors \in Nat

LEMMA TypeIs ==
    TypeOK <=>
        /\ next \in Nat \ {0, 1}
        /\ origin \in Commits /\ local \in Commits /\ bases \in [Targets -> Commits]
        /\ PrTyped /\ trees \in [Tasks -> Trees] /\ tasks \in [Tasks -> TaskType]
        /\ loop \in Loops /\ seen \subseteq {"unblock", "review"} \X SUBSET Changes
        /\ CountersTyped
        /\ pushed \subseteq Changes /\ overlapped \in BOOLEAN
        /\ attempted \subseteq SUBSET Changes
        /\ made \in [Tasks -> SUBSET Changes] /\ read \in [Tasks -> SUBSET Changes]
BY DEF TypeOK, PrTyped, Trees, TaskType, counters, CountersTyped

LEMMA LoopShape ==
    ASSUME loop \in Loops
    PROVE  /\ loop.at \in {"bump", "clear"} =>
                 /\ loop.head \in Commits /\ loop.failing \in BOOLEAN
                 /\ loop.old \subseteq Labels /\ loop.fresh \in Labels
           /\ loop.at \in {"push", "propose", "merged", "refused", "raised"} => loop.task \in Tasks
           /\ loop.at \in {"free", "giveup", "bump", "clear", "push", "propose",
                           "merged", "refused", "raised"}
           /\ loop = Free <=> loop.at = "free"
BY DEF Loops, Free

LEMMA Grows ==
    ASSUME next \in Nat, next' = next \/ next' = next + 1
    PROVE  /\ Changes \subseteq Changes' /\ Commits \subseteq Commits'
           /\ Labels \subseteq Labels' /\ Loops \subseteq Loops'
           /\ Trees \subseteq Trees' /\ TaskType \subseteq TaskType'
<1>1. Changes \subseteq Changes'  BY DEF Changes
<1>2. Commits \subseteq Commits'  BY <1>1 DEF Commits
<1>3. Labels \subseteq Labels'  BY <1>1 DEF Labels
<1>4. SUBSET Labels \subseteq SUBSET Labels'  BY <1>3
<1>5. Loops \subseteq Loops'  BY <1>2, <1>3, <1>4 DEF Loops
<1>6. Trees \subseteq Trees' /\ TaskType \subseteq TaskType'  BY <1>1 DEF Trees, TaskType
<1> QED  BY <1>1, <1>2, <1>3, <1>5, <1>6

LEMMA StaysTyped ==
    ASSUME TypeOK, next' = next \/ next' = next + 1,
           origin' = origin \/ origin' \in Commits',
           local' = local \/ local' \in Commits',
           bases' = bases \/ bases' \in [Targets -> Commits'],
           pr' = pr \/ PrTyped',
           trees' = trees \/ trees' \in [Tasks -> Trees'],
           tasks' = tasks \/ tasks' \in [Tasks -> TaskType'],
           loop' = loop \/ loop' \in Loops',
           seen' = seen \/ seen' \subseteq {"unblock", "review"} \X SUBSET Changes',
           CountersTyped',
           pushed' = pushed \/ pushed' \subseteq Changes',
           overlapped' \in BOOLEAN,
           attempted' = attempted \/ attempted' \subseteq SUBSET Changes',
           made' = made \/ made' \in [Tasks -> SUBSET Changes'],
           read' = read \/ read' \in [Tasks -> SUBSET Changes']
    PROVE  TypeOK'
<1>1. next \in Nat \ {0, 1} /\ next' \in Nat \ {0, 1}  BY TypeIs
<1>2. /\ Changes \subseteq Changes' /\ Commits \subseteq Commits'
      /\ Labels \subseteq Labels' /\ Loops \subseteq Loops'
      /\ Trees \subseteq Trees' /\ TaskType \subseteq TaskType'
  BY <1>1, Grows
<1>3. origin' \in Commits' /\ local' \in Commits' /\ bases' \in [Targets -> Commits']
  BY <1>2, TypeIs
<1>4. PrTyped'
  <2>1. CASE pr' = pr
    <3>1. pr'.attempts \subseteq Labels'  BY <1>2, <2>1, TypeIs DEF PrTyped
    <3> QED  BY <2>1, <3>1, TypeIs DEF PrTyped
  <2> QED  BY <2>1
<1>5. trees' \in [Tasks -> Trees'] /\ tasks' \in [Tasks -> TaskType'] /\ loop' \in Loops'
  BY <1>2, TypeIs
<1>6. seen' \subseteq {"unblock", "review"} \X SUBSET Changes'  BY <1>2, TypeIs
<1>7. pushed' \subseteq Changes' /\ attempted' \subseteq SUBSET Changes'  BY <1>2, TypeIs
<1>8. made' \in [Tasks -> SUBSET Changes'] /\ read' \in [Tasks -> SUBSET Changes']
  BY <1>2, TypeIs
<1>9. (next \in Nat \ {0, 1})'  BY <1>1
<1> HIDE DEF TypeOK
<1> QED  BY <1>3, <1>4, <1>5, <1>6, <1>7, <1>8, <1>9 DEF TypeOK, PrTyped, Trees, TaskType, counters, CountersTyped

-----------------------------------------------------------------------------
(* What a behavior does in its work tree.                                  *)

\* Files and a head that t may leave, or commit, in its work tree.
Fit(t, work, head) ==
    /\ work \in Trees /\ work.exists /\ work.merging \subseteq BaseChanges
    /\ head \in {local, origin}
    /\ trees[t].exists => IsAncestor(local, head)
    /\ ~overlapped => head.tree \cup work.merging \subseteq work.files

Leaves(t, work, head) ==
    /\ Fit(t, work, head) /\ MoveBranch(t, head)
    /\ trees' = [trees EXCEPT ![t] = work] /\ UNCHANGED next

Commits1(t, work, head, new) ==
    /\ Fit(t, work, head) /\ new \in {{}, {next}}
    /\ MoveBranch(t, Committed(work, head, new, next))
    /\ trees' = [trees EXCEPT ![t] = Clean(Committed(work, head, new, next))]
    /\ next' = next + 1

Works(t) ==
    \/ \E work, head : Leaves(t, work, head)
    \/ \E work, head, new : Commits1(t, work, head, new)

LEMMA CommitWorks ==
    ASSUME NEW t, NEW work, NEW head, NEW new \in {{}, {next}},
           Fit(t, work, head), CommitFiles(t, work, head, new)
    PROVE  Works(t)
BY DEF CommitFiles, Works, Leaves, Commits1

LEMMA LeaveWorks ==
    ASSUME NEW t, NEW work, NEW head, Fit(t, work, head), MoveBranch(t, head),
           trees' = [trees EXCEPT ![t] = work], UNCHANGED next
    PROVE  Works(t)
BY DEF Works, Leaves

LEMMA CleanFits ==
    ASSUME TypeOK, NEW t, NEW head \in {local, origin},
           trees[t].exists => IsAncestor(local, head)
    PROVE  Fit(t, Clean(head), head)
<1>1. head \in Commits /\ head.tree \subseteq Changes  BY TypeIs DEF Commits
<1>2. Clean(head) \in Trees  BY <1>1 DEF Clean, Trees
<1> QED  BY <1>1, <1>2 DEF Fit, Clean

LEMMA AttachedFits ==
    ASSUME IInv, NEW t \in Tasks, tasks[t].stage \notin {"none", "done"}
    PROVE  Fit(t, AttachedTree(t), AttachedHead(t))
<1>1. trees[t] \in Trees /\ TypeOK  BY TypeIs DEF IInv
<1>2. AttachedHead(t) \in {local, origin}  BY DEF AttachedHead
<1>3. trees[t].exists => IsAncestor(local, AttachedHead(t))
  BY DEF AttachedHead, IsAncestor
<1>4. CASE OnPr(t) /\ trees[t].exists /\ ~IsAncestor(local, origin)
  <2>1. AttachedTree(t) = trees[t] /\ AttachedHead(t) = local
    BY <1>4 DEF AttachedTree, AttachedHead
  <2>2. ~overlapped => local.tree \cup trees[t].merging \subseteq trees[t].files
    BY <1>4 DEF IInv, GitHolds, Safe, Kept
  <2>3. trees[t].merging \subseteq BaseChanges  BY DEF IInv, GitHolds, Traced
  <2> QED  BY <1>1, <1>3, <1>4, <2>1, <2>2, <2>3 DEF Fit
<1>5. CASE ~(OnPr(t) /\ trees[t].exists /\ ~IsAncestor(local, origin))
  <2>1. AttachedTree(t) = Clean(AttachedHead(t))  BY <1>5 DEF AttachedTree
  <2> QED  BY <1>1, <1>2, <1>3, <2>1, CleanFits
<1> QED  BY <1>4, <1>5

LEMMA KeptFits ==
    ASSUME IInv, NEW t \in Tasks, Kept(t)
    PROVE  Fit(t, trees[t], local)
BY TypeIs DEF IInv, GitHolds, Safe, Traced, Kept, Fit, IsAncestor

\* Nothing is dropped by merging a base into a branch that has all that it has
\* of it.
LEMMA MergingKeeps ==
    ASSUME NEW b \in Targets, BasesWhole, NEW tree, NEW head, head.tree \subseteq tree
    PROVE  /\ head.tree \subseteq MergedTree(tree, head, bases[b])
           /\ Whole(head) => bases[b].hist \subseteq MergedTree(tree, head, bases[b])
<1>1. bases[b].tree = bases[b].hist  BY DEF BasesWhole
<1>2. bases[b].hist \subseteq BaseChanges  BY DEF BaseChanges
<1>3. Whole(head) => \A n \in bases[b].hist : n \in head.hist => n \in head.tree
  BY <1>2 DEF Whole
<1>4. ASSUME NEW n \in head.tree  PROVE n \in MergedTree(tree, head, bases[b])
  BY <1>1 DEF MergedTree
<1>5. ASSUME NEW n \in bases[b].hist, Whole(head)
      PROVE  n \in MergedTree(tree, head, bases[b])
  BY <1>1, <1>3, <1>5 DEF MergedTree
<1> QED  BY <1>4, <1>5

LEMMA MergingFits ==
    ASSUME IInv, NEW t \in Tasks, NEW b \in Targets, NEW work, NEW head, Fit(t, work, head)
    PROVE  Fit(t, Merging(work, head, bases[b]), head)
<1> DEFINE base == bases[b]
           merged == Merging(work, head, base)
<1>1. work \in Trees /\ work.files \subseteq Changes /\ head \in {local, origin}
  BY DEF Fit, Trees
<1>2. base \in Commits /\ base.hist \subseteq Changes /\ base.tree \subseteq Changes
  BY TypeIs DEF IInv, Commits
<1>3. merged.files = MergedTree(work.files, head, base) /\ merged.merging = base.hist
      /\ merged.exists = work.exists
  BY <1>1 DEF Merging, Trees
<1>4. MergedTree(work.files, head, base) \subseteq Changes  BY <1>1, <1>2 DEF MergedTree
<1>5. merged \in Trees  BY <1>1, <1>2, <1>4 DEF Merging, Trees
<1>6. base.hist \subseteq BaseChanges  BY DEF BaseChanges
<1>7. BasesWhole /\ (~overlapped => Whole(head))
  BY <1>1 DEF IInv, GitHolds, Safe
<1>8. ~overlapped => head.tree \subseteq work.files  BY DEF Fit
<1> HIDE DEF merged
<1>9. ~overlapped => head.tree \cup merged.merging \subseteq merged.files
  BY <1>3, <1>7, <1>8, MergingKeeps
<1>10. Fit(t, merged, head)  BY <1>3, <1>5, <1>6, <1>9 DEF Fit
<1> QED  BY <1>10 DEF merged

LEMMA UnblockStartWorks ==
    ASSUME IInv, NEW t \in Tasks, UnblockStart(t)  PROVE Works(t)
<1> DEFINE head == AttachedHead(t)
           work == IF UpToDate(head, Base) THEN AttachedTree(t)
                   ELSE Merging(AttachedTree(t), head, Base)
<1>1. Fit(t, AttachedTree(t), head)  BY AttachedFits DEF UnblockStart
<1>2. pr.target \in Targets  BY TypeIs DEF IInv, PrTyped
<1>3. Fit(t, Merging(AttachedTree(t), head, Base), head)  BY <1>1, <1>2, MergingFits DEF Base
<1>4. Fit(t, work, head)  BY <1>1, <1>3
<1>5. \/ MoveBranch(t, head) /\ trees' = [trees EXCEPT ![t] = work] /\ UNCHANGED next
      \/ CommitFiles(t, work, head, {})
  BY DEF UnblockStart
<1> HIDE DEF work, head
<1> QED  BY <1>4, <1>5, CommitWorks, LeaveWorks

LEMMA UnblockDoneWorks ==
    ASSUME IInv, NEW t \in Tasks, UnblockDone(t) \/ ReviewEnd(t)  PROVE Works(t)
<1>1. Kept(t)  BY DEF UnblockDone, ReviewEnd, IInv, Staged, IsAt, Kept
<1>2. CommitFiles(t, trees[t], local, {next})  BY DEF UnblockDone, ReviewEnd
<1> QED  BY <1>1, <1>2, KeptFits, CommitWorks

LEMMA UnblockStuckWorks ==
    ASSUME IInv, NEW t \in Tasks, UnblockStuck(t)  PROVE Works(t)
<1>1. Kept(t)  BY DEF UnblockStuck, IInv, Staged, IsAt, Kept
<1>2. Fit(t, trees[t], local) /\ Fit(t, Clean(local), local)
  BY <1>1, KeptFits, CleanFits DEF IInv, IsAncestor
<1>3. \/ /\ MoveBranch(t, local) /\ trees' = [trees EXCEPT ![t] = Clean(local)]
         /\ UNCHANGED next
      \/ CommitFiles(t, trees[t], local, {next})
  BY DEF UnblockStuck
<1> QED  BY <1>2, <1>3, CommitWorks, LeaveWorks

LEMMA ReviewStartWorks ==
    ASSUME IInv, NEW t \in Tasks, ReviewStart(t)  PROVE Works(t)
<1>1. Fit(t, AttachedTree(t), AttachedHead(t))  BY AttachedFits DEF ReviewStart
<1> QED  BY <1>1, LeaveWorks DEF ReviewStart

LEMMA LandSyncWorks ==
    ASSUME IInv, NEW t \in Tasks, LandSync(t)  PROVE Works(t)
<1> DEFINE head == AttachedHead(t)
           work == Merging(AttachedTree(t), head, LandingBase)
<1>1. Fit(t, AttachedTree(t), head)  BY AttachedFits DEF LandSync
<1>2. Fit(t, work, head)  BY <1>1, PullRequestAssumption, MergingFits DEF LandingBase
<1>3. Fit(t, Clean(head), head)  BY <1>1, CleanFits DEF Fit, IInv
<1>4. \/ MoveBranch(t, head) /\ trees' = [trees EXCEPT ![t] = Clean(head)] /\ UNCHANGED next
      \/ CommitFiles(t, work, head, {})
  BY DEF LandSync
<1> HIDE DEF work, head
<1> QED  BY <1>2, <1>3, <1>4, CommitWorks, LeaveWorks

Acts(t) ==
    \/ UnblockStart(t) \/ UnblockDone(t) \/ UnblockStuck(t)
    \/ ReviewStart(t) \/ ReviewEnd(t) \/ LandSync(t)

LEMMA ActsWork == ASSUME IInv, NEW t \in Tasks, Acts(t) PROVE Works(t)
BY UnblockStartWorks, UnblockDoneWorks, UnblockStuckWorks, ReviewStartWorks,
   LandSyncWorks DEF Acts

\* What work comes to: a branch that went on from a head that the task saw, a
\* tree that has all of it, and nobody else's work under way unless noted.
LEMMA WorkMeans ==
    ASSUME IInv, NEW t \in Tasks, Works(t)
    PROVE  /\ next' = next \/ next' = next + 1
           /\ local' \in Commits' /\ trees' \in [Tasks -> Trees'] /\ overlapped' \in BOOLEAN
           /\ trees'[t].exists /\ \A u \in Tasks \ {t} : trees'[u] = trees[u]
           /\ overlapped => overlapped'
           /\ ~overlapped' /\ local' # local => \A u \in Tasks \ {t} : ~Kept(u)
           /\ trees[t].exists => local.hist \subseteq local'.hist
           /\ trees'[t].merging \subseteq BaseChanges
           /\ ~overlapped => local'.tree \cup trees'[t].merging \subseteq trees'[t].files
           /\ \E head \in {local, origin} :
                 \/ local' = head
                 \/ /\ next' = next + 1 /\ next \in local'.hist
                    /\ head.hist \subseteq local'.hist
                    /\ local'.hist \subseteq head.hist \cup BaseChanges \cup {next}
                    /\ ~overlapped =>
                          /\ head.tree \subseteq local'.tree
                          /\ local'.hist \cap BaseChanges \subseteq
                                (head.hist \cap BaseChanges) \cup local'.tree \cup {next}
<1>1. TypeOK /\ trees \in [Tasks -> Trees] /\ local \in Commits /\ origin \in Commits
      /\ overlapped \in BOOLEAN /\ next \in Nat
  BY TypeIs DEF IInv
<1>2. ASSUME NEW h, MoveBranch(t, h)
      PROVE  /\ local' = h /\ overlapped' \in BOOLEAN /\ (overlapped => overlapped')
             /\ ~overlapped' /\ local' # local => \A u \in Tasks \ {t} : ~Kept(u)
  BY <1>1, <1>2 DEF MoveBranch, Kept
<1>3. ASSUME NEW work, NEW head, Leaves(t, work, head)
      PROVE  /\ next' = next /\ local' = head /\ head \in {local, origin}
             /\ work \in Trees /\ trees' = [trees EXCEPT ![t] = work]
             /\ MoveBranch(t, head) /\ Fit(t, work, head)
  BY <1>3, <1>2 DEF Leaves, Fit
<1>4. ASSUME NEW work, NEW head, Leaves(t, work, head)
      PROVE  /\ local' \in Commits' /\ trees' \in [Tasks -> Trees'] /\ trees'[t] = work
             /\ \A u \in Tasks \ {t} : trees'[u] = trees[u]
  <2>1. trees' \in [Tasks -> Trees] /\ local' \in Commits  BY <1>1, <1>3, <1>4
  <2>2. Trees \subseteq Trees' /\ Commits \subseteq Commits'  BY <1>1, <1>3, <1>4, Grows
  <2> QED  BY <1>1, <1>3, <1>4, <2>1, <2>2
<1>5. CASE \E work, head : Leaves(t, work, head)
  <2>1. PICK work, head : Leaves(t, work, head)  BY <1>5
  <2>2. MoveBranch(t, head) /\ Fit(t, work, head) /\ next' = next /\ local' = head
        /\ head \in {local, origin} /\ trees'[t] = work
    BY <1>3, <1>4, <2>1
  <2> QED  BY <1>2, <1>4, <2>1, <2>2 DEF Fit, IsAncestor
<1>6. ASSUME NEW work, NEW head, NEW new, Commits1(t, work, head, new)
      PROVE  /\ next' = next + 1 /\ local' = Committed(work, head, new, next)
             /\ local'.hist = head.hist \cup work.merging \cup {next}
             /\ local'.tree = work.files \cup new /\ new \subseteq {next}
             /\ head \in {local, origin} /\ work \in Trees
             /\ trees' = [trees EXCEPT ![t] = Clean(local')]
             /\ MoveBranch(t, local') /\ Fit(t, work, head)
  <2> DEFINE c == Committed(work, head, new, next)
  <2>1. /\ Fit(t, work, head) /\ new \in {{}, {next}} /\ MoveBranch(t, c)
        /\ trees' = [trees EXCEPT ![t] = Clean(c)] /\ next' = next + 1
    BY <1>6 DEF Commits1
  <2>2. c.hist = head.hist \cup work.merging \cup {next} /\ c.tree = work.files \cup new
    BY DEF Committed
  <2> HIDE DEF c
  <2>3. local' = c  BY <1>2, <2>1
  <2>4. new \subseteq {next} /\ head \in {local, origin} /\ work \in Trees
    BY <2>1 DEF Fit
  <2> QED  BY <2>1, <2>2, <2>3, <2>4 DEF c
<1>7. ASSUME NEW work, NEW head, NEW new, Commits1(t, work, head, new)
      PROVE  /\ local' \in Commits' /\ trees' \in [Tasks -> Trees']
             /\ trees'[t] = Clean(local')
             /\ \A u \in Tasks \ {t} : trees'[u] = trees[u]
  <2>1. Trees \subseteq Trees' /\ Commits \subseteq Commits' /\ Changes \subseteq Changes'
    BY <1>1, <1>6, <1>7, Grows
  <2>2. next \in Changes'  BY <1>1, <1>6, <1>7 DEF Changes
  <2>3. head.hist \subseteq Changes /\ work.merging \subseteq Changes /\ work.files \subseteq Changes
    BY <1>1, <1>6, <1>7 DEF Commits, Trees
  <2>4. local'.hist \subseteq Changes' /\ local'.tree \subseteq Changes'
    BY <1>6, <1>7, <2>1, <2>2, <2>3
  <2>5. local' \in Commits'  BY <1>6, <1>7, <2>4 DEF Committed, Commits
  <2>6. Clean(local') \in Trees'  BY <2>4 DEF Clean, Trees
  <2>7. trees' = [trees EXCEPT ![t] = Clean(local')]  BY <1>6, <1>7
  <2> QED  BY <1>1, <2>1, <2>5, <2>6, <2>7
<1>8. CASE \E work, head, new : Commits1(t, work, head, new)
  <2>1. PICK work, head, new : Commits1(t, work, head, new)  BY <1>8
  <2> DEFINE l == local'
  <2>2. /\ next' = next + 1 /\ head \in {local, origin}
        /\ l.hist = head.hist \cup work.merging \cup {next}
        /\ l.tree = work.files \cup new /\ new \subseteq {next}
        /\ MoveBranch(t, l) /\ Fit(t, work, head)
        /\ trees'[t] = Clean(l)
    BY <1>6, <1>7, <2>1
  <2>3. trees'[t].exists /\ trees'[t].merging = {} /\ trees'[t].files = l.tree
    BY <2>2 DEF Clean
  <2>4. trees[t].exists => local.hist \subseteq l.hist  BY <2>2 DEF Fit, IsAncestor
  <2>5. next \in l.hist /\ head.hist \subseteq l.hist
        /\ l.hist \subseteq head.hist \cup BaseChanges \cup {next}
    BY <2>2 DEF Fit
  <2>6. ASSUME ~overlapped
        PROVE  /\ head.tree \subseteq l.tree
               /\ l.hist \cap BaseChanges \subseteq
                     (head.hist \cap BaseChanges) \cup l.tree \cup {next}
    BY <2>2, <2>6 DEF Fit
  <2> HIDE DEF l
  <2> QED  BY <1>2, <1>7, <2>1, <2>2, <2>3, <2>4, <2>5, <2>6 DEF l
<1> QED  BY <1>5, <1>8 DEF Works

-----------------------------------------------------------------------------
(* GitHolds is inductive: one lemma per kind of step.                      *)

LEMMA Fresh ==
    ASSUME TypeOK
    PROVE  /\ BaseChanges \subseteq Changes /\ next \notin Changes /\ next \in Nat
           /\ \A c \in Commits : c.hist \subseteq Changes /\ c.tree \subseteq Changes
           /\ next \notin BaseChanges /\ next \notin origin.hist /\ next \notin local.hist
<1>1. next \in Nat /\ next \notin Changes  BY TypeIs DEF Changes
<1>2. \A c \in Commits : c.hist \subseteq Changes /\ c.tree \subseteq Changes  BY DEF Commits
<1>3. \A b \in Targets : bases[b] \in Commits  BY TypeIs
<1>4. BaseChanges \subseteq Changes  BY <1>2, <1>3 DEF BaseChanges
<1>5. origin.hist \subseteq Changes /\ local.hist \subseteq Changes  BY <1>2, TypeIs
<1> QED  BY <1>1, <1>2, <1>4, <1>5

LEMMA SameGit ==
    ASSUME IInv, UNCHANGED <<origin, bases, local, pushed>>, overlapped => overlapped',
           \A t \in Tasks : trees'[t] = trees[t] /\ (Kept(t)' => Kept(t))
    PROVE  GitHolds'
<1>1. BaseChanges' = BaseChanges  BY DEF BaseChanges
<1>2. (BasesWhole /\ Told /\ Traced)'
  BY <1>1 DEF IInv, GitHolds, BasesWhole, Told, Traced, IsAncestor
<1>3. ~overlapped' => Safe'
  BY <1>1 DEF IInv, GitHolds, Safe, Whole, IsAncestor
<1> QED  BY <1>2, <1>3 DEF GitHolds

LEMMA WorkKeepsGit ==
    ASSUME IInv, NEW t \in Tasks, Works(t), UNCHANGED <<origin, bases, pushed>>,
           \A u \in Tasks \ {t} : Kept(u)' => Kept(u)
    PROVE  GitHolds'
<1>1. PICK head \in {local, origin} :
         \/ local' = head
         \/ /\ next' = next + 1 /\ next \in local'.hist
            /\ head.hist \subseteq local'.hist
            /\ local'.hist \subseteq head.hist \cup BaseChanges \cup {next}
            /\ ~overlapped =>
                  /\ head.tree \subseteq local'.tree
                  /\ local'.hist \cap BaseChanges \subseteq
                        (head.hist \cap BaseChanges) \cup local'.tree \cup {next}
  BY WorkMeans
<1>2. /\ overlapped => overlapped'
      /\ ~overlapped' /\ local' # local => \A u \in Tasks \ {t} : ~Kept(u)
      /\ \A u \in Tasks \ {t} : trees'[u] = trees[u]
      /\ trees'[t].merging \subseteq BaseChanges
      /\ ~overlapped => local'.tree \cup trees'[t].merging \subseteq trees'[t].files
  BY WorkMeans
<1>3. next \notin BaseChanges /\ next \notin origin.hist  BY Fresh DEF IInv
<1>4. BaseChanges' = BaseChanges  BY DEF BaseChanges
<1>5. BasesWhole /\ Told /\ Traced /\ (~overlapped => Safe)  BY DEF IInv, GitHolds
<1>6. BasesWhole'  BY <1>5 DEF BasesWhole
<1>7. origin.hist \ BaseChanges \subseteq local'.hist => origin.hist \subseteq head.hist
  <2>1. origin.hist \ BaseChanges \subseteq local'.hist
           => origin.hist \ BaseChanges \subseteq head.hist
    BY <1>1, <1>3
  <2>2. CASE head = origin  BY <2>2
  <2>3. CASE head = local  BY <1>5, <2>1, <2>3 DEF Told, IsAncestor
  <2> QED  BY <2>2, <2>3
<1>8. Told'
  <2>1. local'.hist = origin.hist => local' = origin
    BY <1>1, <1>3, <1>5 DEF Told
  <2>2. head.hist \subseteq local'.hist  BY <1>1
  <2> QED  BY <1>4, <1>7, <2>1, <2>2 DEF Told, IsAncestor
<1>9. Traced'  BY <1>2, <1>4, <1>5 DEF Traced
<1>10. ASSUME ~overlapped'  PROVE Safe'
  <2>1. ~overlapped /\ Safe  BY <1>2, <1>5, <1>10
  <2>2. pushed \subseteq origin.tree /\ Whole(origin) /\ Whole(head)
    BY <2>1 DEF Safe
  <2>3. head.tree \subseteq local'.tree  BY <1>1, <2>1
  <2>4. Whole(local')  BY <1>1, <1>3, <2>1, <2>2, <2>3 DEF Whole
  <2>5. origin.hist \subseteq head.hist => pushed \subseteq head.tree
    BY <1>1, <2>1, <2>2 DEF Safe, IsAncestor
  <2>6. origin.hist \subseteq local'.hist => pushed \subseteq local'.tree
    BY <1>7, <2>3, <2>5
  <2>7. ASSUME NEW u \in Tasks, Kept(u)'
        PROVE  local'.tree \cup trees'[u].merging \subseteq trees'[u].files
    <3>1. CASE u = t  BY <1>2, <2>1, <3>1
    <3>2. CASE u # t
      <4>1. Kept(u) /\ local' = local /\ trees'[u] = trees[u]  BY <1>2, <1>10, <2>7, <3>2
      <4> QED  BY <2>1, <4>1 DEF Safe
    <3> QED  BY <3>1, <3>2
  <2> QED  BY <1>4, <2>2, <2>4, <2>6, <2>7 DEF Safe, IsAncestor, Whole
<1> QED  BY <1>6, <1>8, <1>9, <1>10 DEF GitHolds

\* GitHub's head goes on by a change of its own: a push, or a base merged in.
LEMMA HeadMovesKeepsGit ==
    ASSUME IInv, UNCHANGED <<bases, local, trees, overlapped>>,
           \A t \in Tasks : Kept(t)' => Kept(t),
           next \in origin'.hist, origin'.tree \subseteq pushed',
           ~overlapped => pushed' \subseteq origin'.tree /\ Whole(origin')
    PROVE  GitHolds'
<1>1. BaseChanges' = BaseChanges  BY DEF BaseChanges
<1>2. next \notin BaseChanges /\ next \notin local.hist  BY Fresh DEF IInv
<1>3. BasesWhole /\ Told /\ Traced /\ (~overlapped => Safe)  BY DEF IInv, GitHolds
<1>4. (BasesWhole /\ Traced)'  BY <1>1, <1>3 DEF BasesWhole, Traced
<1>5. Told'  BY <1>1, <1>2 DEF Told
<1>6. ~overlapped => Safe'  BY <1>1, <1>2, <1>3 DEF Safe, IsAncestor, Whole
<1> QED  BY <1>3, <1>4, <1>5, <1>6 DEF GitHolds

LEMMA PersonPushesGit == ASSUME IInv, PersonPushes PROVE GitHolds'
<1>1. next \notin BaseChanges  BY Fresh DEF IInv
<1>2. origin' = [hist |-> origin.hist \cup {next}, tree |-> origin.tree \cup {next}]
      /\ pushed' = pushed \cup {next}
      /\ UNCHANGED <<bases, local, trees, tasks, overlapped>>
  BY DEF PersonPushes, clone
<1>3. origin'.hist = origin.hist \cup {next} /\ origin'.tree = origin.tree \cup {next}
  BY <1>2
<1>4. origin.tree \subseteq pushed /\ (~overlapped => pushed \subseteq origin.tree /\ Whole(origin))
  BY DEF IInv, GitHolds, Traced, Safe
<1>5. ~overlapped => Whole(origin')  BY <1>1, <1>3, <1>4 DEF Whole
<1>6. next \in origin'.hist /\ origin'.tree \subseteq pushed'  BY <1>2, <1>3, <1>4
<1>7. ~overlapped => pushed' \subseteq origin'.tree  BY <1>2, <1>3, <1>4
<1>8. \A t \in Tasks : Kept(t)' => Kept(t)  BY <1>2 DEF Kept
<1> QED  BY <1>2, <1>5, <1>6, <1>7, <1>8, HeadMovesKeepsGit

LEMMA UpdateBranchGit == ASSUME IInv, UpdateBranch PROVE GitHolds'
<1>1. next \notin BaseChanges  BY Fresh DEF IInv
<1>2. pr.target \in Targets  BY TypeIs DEF IInv, PrTyped
<1>3. Base.tree = Base.hist /\ Base.hist \subseteq BaseChanges
  BY <1>2 DEF Base, BaseChanges, IInv, GitHolds, BasesWhole
<1>4. origin'.hist = origin.hist \cup Base.hist \cup {next}
      /\ origin'.tree = MergedTree(origin.tree, origin, Base)
      /\ pushed' = pushed \cup Base.tree
      /\ UNCHANGED <<bases, local, trees, tasks, overlapped>>
  BY DEF UpdateBranch, MergeCommit, clone
<1>5. origin.tree \subseteq pushed /\ (~overlapped => pushed \subseteq origin.tree /\ Whole(origin))
  BY DEF IInv, GitHolds, Traced, Safe
<1>6. origin'.tree \subseteq pushed'  BY <1>4, <1>5 DEF MergedTree
<1>7. BasesWhole  BY DEF IInv, GitHolds
<1>8. ~overlapped => origin.tree \cup Base.hist \subseteq origin'.tree
  BY <1>2, <1>4, <1>5, <1>7, MergingKeeps, SMTT(30) DEF Base
<1>9. ~overlapped => pushed' \subseteq origin'.tree  BY <1>3, <1>4, <1>5, <1>8
<1>10. ~overlapped => Whole(origin')  BY <1>1, <1>3, <1>4, <1>5, <1>8 DEF Whole
<1>11. \A t \in Tasks : Kept(t)' => Kept(t)  BY <1>4 DEF Kept
<1> QED  BY <1>4, <1>6, <1>9, <1>10, <1>11, HeadMovesKeepsGit

\* The clone's branch is pushed.
LEMMA PushKeepsGit ==
    ASSUME IInv, Accepted, origin' = local, pushed' = pushed \cup local.tree,
           UNCHANGED <<bases, local, trees, overlapped>>,
           \A t \in Tasks : Kept(t)' => Kept(t)
    PROVE  GitHolds'
<1>1. BaseChanges' = BaseChanges  BY DEF BaseChanges
<1>2. BasesWhole /\ Traced /\ (~overlapped => Safe)  BY DEF IInv, GitHolds
<1>3. (BasesWhole /\ Traced)'  BY <1>1, <1>2 DEF BasesWhole, Traced
<1>4. Told'  BY <1>1 DEF Told, IsAncestor
<1>5. ~overlapped => Safe'  BY <1>1, <1>2 DEF Safe, IsAncestor, Whole, Accepted
<1> QED  BY <1>2, <1>3, <1>4, <1>5 DEF GitHolds

LEMMA BaseMovesGit == ASSUME IInv, NEW b \in Targets, BaseMoves(b) PROVE GitHolds'
<1> DEFINE grown == Commit(bases[b].hist \cup {next})
<1>1. TypeOK /\ bases \in [Targets -> Commits] /\ next \in Nat  BY TypeIs, Fresh DEF IInv
<1>2. bases' = [bases EXCEPT ![b] = grown]
      /\ UNCHANGED <<origin, local, trees, tasks, pushed, overlapped>>
  BY DEF BaseMoves, clone, observers
<1>3. bases' = [c \in Targets |-> IF c = b THEN grown ELSE bases[c]]  BY <1>1, <1>2
<1>4. grown.hist = bases[b].hist \cup {next} /\ grown.tree = grown.hist  BY DEF Commit
<1> HIDE DEF grown
<1>5. \A c \in Targets : bases'[c].hist \subseteq BaseChanges \cup {next}
                         /\ bases[c].hist \subseteq bases'[c].hist
  BY <1>3, <1>4 DEF BaseChanges
<1>6. BaseChanges' \subseteq BaseChanges \cup {next} /\ BaseChanges \subseteq BaseChanges'
  BY <1>5 DEF BaseChanges
<1>7. BasesWhole /\ Told /\ Traced /\ (~overlapped => Safe)  BY DEF IInv, GitHolds
<1>8. next \notin origin.hist /\ next \notin local.hist  BY <1>1, Fresh
<1>9. BasesWhole'  BY <1>3, <1>4, <1>7 DEF BasesWhole
<1>10. Traced'  BY <1>2, <1>6, <1>7 DEF Traced
<1>11. Told'  BY <1>2, <1>6, <1>7, <1>8 DEF Told, IsAncestor
<1>12. ~overlapped => Safe'
  <2>1. ~overlapped => (Whole(origin) /\ Whole(local))'
    BY <1>2, <1>6, <1>7, <1>8 DEF Safe, Whole
  <2> QED  BY <1>2, <1>7, <2>1 DEF Safe, IsAncestor, Kept
<1> QED  BY <1>2, <1>9, <1>10, <1>11, <1>12 DEF GitHolds

LEMMA CrashGit == ASSUME IInv, Crash PROVE GitHolds'
<1>1. TypeOK /\ tasks \in [Tasks -> TaskType] /\ trees \in [Tasks -> Trees]  BY TypeIs DEF IInv
<1>2. UNCHANGED <<origin, bases, local, pushed, overlapped>>  BY DEF Crash, remote, observers
<1>3. \A u \in Tasks : tasks'[u].stage \in {"none", "done"} <=> tasks[u].stage \in {"none", "done"}
  BY <1>1 DEF Crash, TaskType
<1>4. CASE UNCHANGED trees
  BY <1>2, <1>3, <1>4, SameGit DEF Kept
<1>5. ASSUME NEW t \in Tasks, trees' = [trees EXCEPT ![t] = Clean(local)]
      PROVE  GitHolds'
  <2>1. /\ trees'[t].files = local.tree /\ trees'[t].merging = {}
        /\ \A u \in Tasks \ {t} : trees'[u] = trees[u]
    BY <1>1, <1>5 DEF Clean
  <2>2. BaseChanges' = BaseChanges  BY <1>2 DEF BaseChanges
  <2>3. BasesWhole /\ Told /\ Traced /\ (~overlapped => Safe)  BY DEF IInv, GitHolds
  <2>4. (BasesWhole /\ Told)'  BY <1>2, <2>2, <2>3 DEF BasesWhole, Told, IsAncestor
  <2>5. Traced'  BY <1>2, <2>1, <2>2, <2>3 DEF Traced
  <2>6. ASSUME ~overlapped, NEW u \in Tasks, Kept(u)'
        PROVE  local.tree \cup trees'[u].merging \subseteq trees'[u].files
    <3>1. CASE u = t  BY <2>1, <3>1
    <3>2. CASE u # t  BY <1>3, <2>1, <2>3, <2>6, <3>2 DEF Safe, Kept
    <3> QED  BY <3>1, <3>2
  <2>7. ~overlapped => Safe'
    BY <1>2, <2>2, <2>3, <2>6 DEF Safe, Whole, IsAncestor
  <2> QED  BY <1>2, <2>4, <2>5, <2>7 DEF GitHolds
<1> QED  BY <1>4, <1>5 DEF Crash

-----------------------------------------------------------------------------
(* How a task goes from step to step.                                      *)

From(u, s) == tasks[u].stage = s
To(u, s) == tasks'[u].stage = s
FailsAt(u, s) == tasks'[u].stage = "failed" /\ tasks'[u].from = s

SameTask(u) == tasks'[u].kind = tasks[u].kind /\ tasks'[u].pin = tasks[u].pin

IsPut(u) ==
    /\ tasks[u] = Absent /\ To(u, "queued")
    /\ tasks'[u].kind \in {"unblock", "review"} /\ tasks'[u].pin \subseteq origin.hist

Stumbles(u) ==
    \/ \E s \in {"queued", "land", "merge"} : From(u, s) /\ FailsAt(u, s)
    \/ From(u, "agent") /\ FailsAt(u, "queued")
    \/ From(u, "agent") /\ To(u, "queued")
    \/ From(u, "failed") /\ To(u, tasks[u].from)

Advances(u) ==
    \/ From(u, "queued") /\ To(u, "agent")
    \/ From(u, "queued") /\ To(u, "land") /\ tasks[u].kind = "unblock"
    \/ From(u, "agent") /\ To(u, "land") /\ tasks[u].kind = "unblock"
    \/ From(u, "agent") /\ To(u, "merge") /\ tasks[u].kind = "review"
    \/ From(u, "agent") /\ To(u, "done")

Ends(u) == \E s \in {"merge", "land"} : From(u, s) /\ To(u, "done")

\* No work is done on it in the step.
Rests(u) ==
    \/ tasks'[u] = tasks[u]
    \/ IsPut(u)
    \/ SameTask(u) /\ (Stumbles(u) \/ Ends(u))

LEMMA PutTurns ==
    ASSUME TypeOK, FreeIds # {}, NEW kind \in {"unblock", "review"},
           NEW head \in Commits, head.hist \subseteq origin.hist, NEW failing \in BOOLEAN,
           PutTask(kind, head, failing)
    PROVE  /\ \A u \in Tasks : tasks'[u] = tasks[u] \/ IsPut(u)
           /\ tasks' \in [Tasks -> TaskType]
<1>1. tasks \in [Tasks -> TaskType]  BY TypeIs
<1>2. CASE UNCHANGED tasks  BY <1>1, <1>2
<1>3. CASE ~(UNCHANGED tasks)
  <2> DEFINE t == CHOOSE u \in FreeIds : \A v \in FreeIds : u <= v
             new == Task(kind, "queued", head.hist, failing)
  <2>1. tasks' = [tasks EXCEPT ![t] = new]  BY <1>3 DEF PutTask
  <2>2. FreeIds \subseteq Nat  BY PullRequestAssumption DEF FreeIds
  <2>3. \E u \in FreeIds : \A v \in FreeIds : u <= v
    <3> DEFINE P(n) == n \in FreeIds
    <3>1. PICK n \in Nat : P(n)  BY <2>2
    <3>2. IsWellFoundedOn({ss \in Nat \X Nat : ss[1] < ss[2]}, Nat)
      BY NatLessThanWellFounded DEF OpToRel
    <3>3. PICK m \in FreeIds : \A v \in FreeIds :
              <<v, m>> \notin {ss \in Nat \X Nat : ss[1] < ss[2]}
      BY <2>2, <3>2, WFMin
    <3>4. ASSUME NEW v \in FreeIds  PROVE m <= v
      <4>1. m \in Nat /\ v \in Nat /\ ~(v < m)  BY <2>2, <3>3
      <4> QED  BY <4>1
    <3> QED  BY <3>4
  <2>4. t \in FreeIds  BY <2>3
  <2> HIDE DEF t
  <2>5. t \in Tasks /\ tasks[t] = Absent  BY <2>4 DEF FreeIds
  <2>6. /\ new \in TaskType /\ new.stage = "queued" /\ new.kind = kind
        /\ new.pin = head.hist
    BY DEF Task, TaskType, Stages, Commits
  <2> HIDE DEF new
  <2>7. \A u \in Tasks : tasks'[u] = IF u = t THEN new ELSE tasks[u]  BY <1>1, <2>1
  <2> QED  BY <1>1, <2>1, <2>5, <2>6, <2>7 DEF IsPut, To
<1> QED  BY <1>2, <1>3

LEMMA StageGoes ==
    ASSUME TypeOK, NEW t \in Tasks, NEW s \in Stages
    PROVE  /\ tasks' = Stage(t, s) =>
                 /\ tasks' \in [Tasks -> TaskType] /\ To(t, s) /\ SameTask(t)
                 /\ tasks'[t].from = tasks[t].from
                 /\ \A u \in Tasks \ {t} : tasks'[u] = tasks[u]
           /\ tasks' = Fail(t) =>
                 /\ tasks' \in [Tasks -> TaskType] /\ FailsAt(t, tasks[t].stage) /\ SameTask(t)
                 /\ \A u \in Tasks \ {t} : tasks'[u] = tasks[u]
<1>1. tasks \in [Tasks -> TaskType] /\ tasks[t] \in TaskType  BY TypeIs
<1>2. ASSUME tasks' = Stage(t, s)
      PROVE  /\ tasks' \in [Tasks -> TaskType] /\ To(t, s) /\ SameTask(t)
             /\ tasks'[t].from = tasks[t].from
             /\ \A u \in Tasks \ {t} : tasks'[u] = tasks[u]
  BY <1>1, <1>2 DEF Stage, TaskType, To, SameTask
<1>3. ASSUME tasks' = Fail(t)
      PROVE  /\ tasks' \in [Tasks -> TaskType] /\ FailsAt(t, tasks[t].stage) /\ SameTask(t)
             /\ \A u \in Tasks \ {t} : tasks'[u] = tasks[u]
  BY <1>1, <1>3 DEF Fail, TaskType, Stages, FailsAt, SameTask
<1> QED  BY <1>2, <1>3

LEMMA ActsTurn ==
    ASSUME IInv, NEW t \in Tasks, Acts(t)
    PROVE  /\ tasks' \in [Tasks -> TaskType]
           /\ \A u \in Tasks \ {t} : tasks'[u] = tasks[u]
           /\ tasks'[t] = tasks[t] \/ (Advances(t) /\ SameTask(t))
           /\ tasks'[t].from = tasks[t].from
<1>1. TypeOK /\ tasks \in [Tasks -> TaskType] /\ tasks[t] \in TaskType  BY TypeIs DEF IInv
<1>2. {"queued", "agent", "merge", "land", "done"} \subseteq Stages  BY DEF Stages
<1>3. ASSUME NEW s \in Stages, tasks' = Stage(t, s), Advances(t)
      PROVE  /\ tasks' \in [Tasks -> TaskType]
             /\ \A u \in Tasks \ {t} : tasks'[u] = tasks[u]
             /\ tasks'[t] = tasks[t] \/ (Advances(t) /\ SameTask(t))
             /\ tasks'[t].from = tasks[t].from
  BY <1>1, <1>3, StageGoes
<1>4. CASE UnblockStart(t)
  <2>1. PICK conflicted \in BOOLEAN :
           \/ tasks' = [tasks EXCEPT ![t].stage = "agent", ![t].conflicted = conflicted]
           \/ tasks' = Stage(t, "land")
    BY <1>4 DEF UnblockStart
  <2>2. From(t, "queued") /\ tasks[t].kind = "unblock"  BY <1>4 DEF UnblockStart, From
  <2>3. CASE tasks' = [tasks EXCEPT ![t].stage = "agent", ![t].conflicted = conflicted]
    <3>1. /\ tasks' \in [Tasks -> TaskType] /\ To(t, "agent") /\ SameTask(t)
          /\ tasks'[t].from = tasks[t].from
          /\ \A u \in Tasks \ {t} : tasks'[u] = tasks[u]
      BY <1>1, <2>3 DEF TaskType, Stages, To, SameTask
    <3> QED  BY <2>2, <3>1 DEF Advances
  <2>4. CASE tasks' = Stage(t, "land")
    <3>1. Advances(t)  BY <1>1, <1>2, <2>2, <2>4, StageGoes DEF Advances
    <3> QED  BY <1>2, <1>3, <2>4, <3>1
  <2> QED  BY <2>1, <2>3, <2>4
<1>5. CASE UnblockDone(t)
  <2>1. tasks' = Stage(t, "land") /\ From(t, "agent") /\ tasks[t].kind = "unblock"
    BY <1>5 DEF UnblockDone, From
  <2>2. Advances(t)  BY <1>1, <1>2, <2>1, StageGoes DEF Advances
  <2> QED  BY <1>2, <1>3, <2>1, <2>2
<1>6. CASE UnblockStuck(t)
  <2>1. tasks' = Stage(t, "done") /\ From(t, "agent")  BY <1>6 DEF UnblockStuck, From
  <2>2. Advances(t)  BY <1>1, <1>2, <2>1, StageGoes DEF Advances
  <2> QED  BY <1>2, <1>3, <2>1, <2>2
<1>7. CASE ReviewStart(t)
  <2>1. tasks' = Stage(t, "agent") /\ From(t, "queued")  BY <1>7 DEF ReviewStart, From
  <2>2. Advances(t)  BY <1>1, <1>2, <2>1, StageGoes DEF Advances
  <2> QED  BY <1>2, <1>3, <2>1, <2>2
<1>8. CASE ReviewEnd(t)
  <2>1. (tasks' = Stage(t, "merge") \/ tasks' = Stage(t, "done")) /\ From(t, "agent")
        /\ tasks[t].kind = "review"
    BY <1>8 DEF ReviewEnd, From
  <2>2. Advances(t)  BY <1>1, <1>2, <2>1, StageGoes DEF Advances
  <2> QED  BY <1>2, <1>3, <2>1, <2>2
<1>9. CASE LandSync(t)
  <2>1. tasks' = tasks  BY <1>9 DEF LandSync
  <2> QED  BY <1>1, <2>1
<1> QED  BY <1>4, <1>5, <1>6, <1>7, <1>8, <1>9 DEF Acts

AllRest == tasks' \in [Tasks -> TaskType] /\ \A u \in Tasks : Rests(u)

\* Steps that are no behavior's work.
LEMMA OthersRest ==
    ASSUME IInv, [Next]_vars, ~(\E t \in Tasks : Acts(t)), ~Crash
    PROVE  AllRest
<1>1. TypeOK /\ tasks \in [Tasks -> TaskType] /\ origin \in Commits  BY TypeIs DEF IInv
<1>2. CASE UNCHANGED tasks  BY <1>1, <1>2 DEF AllRest, Rests
<1>3. ASSUME NEW t \in Tasks, tasks' = Fail(t), tasks[t].stage \in {"queued", "land", "merge"}
      PROVE  AllRest
  BY <1>1, <1>3, StageGoes DEF AllRest, Rests, Stumbles, From, Stages
<1>4. ASSUME NEW t \in Tasks, tasks' = Stage(t, "done"), tasks[t].stage \in {"merge", "land"}
      PROVE  AllRest
  BY <1>1, <1>4, StageGoes DEF AllRest, Rests, Ends, From, Stages
<1>5. loop \in Loops  BY TypeIs DEF IInv
<1>6. ASSUME NEW t \in Tasks, Retry(t)  PROVE AllRest
  <2>1. tasks' = Stage(t, tasks[t].from) /\ From(t, "failed") /\ tasks[t].from \in Stages
    BY <1>1, <1>6 DEF Retry, From, TaskType
  <2> QED  BY <1>1, <2>1, StageGoes DEF AllRest, Rests, Stumbles
<1>7. ASSUME NEW kind \in {"unblock", "review"}, NEW failing \in BOOLEAN, FreeIds # {},
             PutTask(kind, origin, failing)
      PROVE  AllRest
  BY <1>1, <1>7, PutTurns DEF AllRest, Rests
<1>8. ASSUME NEW dirty \in BOOLEAN, NEW failing \in BOOLEAN, Triage(dirty, failing)
      PROVE  AllRest
  <2>1. UNCHANGED tasks \/ (FreeIds # {} /\ PutTask("unblock", origin, failing))
    BY <1>8 DEF Triage
  <2> QED  BY <1>2, <1>7, <2>1
<1>9. CASE BumpClear
  <2>1. /\ FreeIds # {} /\ loop.head \in Commits /\ loop.head.hist \subseteq origin.hist
        /\ loop.failing \in BOOLEAN /\ PutTask("unblock", loop.head, loop.failing)
    BY <1>5, <1>9, LoopShape DEF BumpClear, IInv, Ticking, Pins
  <2> QED  BY <1>1, <2>1, PutTurns DEF AllRest, Rests
<1>10. CASE ScanClean
  <2>1. FreeIds # {} /\ PutTask("review", origin, FALSE)  BY <1>10 DEF ScanClean
  <2> QED  BY <1>7, <2>1
<1>11. ASSUME NEW t \in Tasks, AttachFails(t)  PROVE AllRest
  BY <1>3, <1>11 DEF AttachFails
<1>12. ASSUME NEW t \in Tasks, AgentRaises(t)  PROVE AllRest
  <2>1. /\ tasks' \in [Tasks -> TaskType] /\ From(t, "agent") /\ FailsAt(t, "queued")
        /\ SameTask(t) /\ \A u \in Tasks \ {t} : tasks'[u] = tasks[u]
    <3>1. [tasks[t] EXCEPT !.stage = "failed", !.from = "queued"] \in TaskType
      BY <1>1 DEF TaskType, Stages
    <3> QED  BY <1>1, <1>12, <3>1 DEF AgentRaises, From, FailsAt, SameTask
  <2> QED  BY <2>1 DEF AllRest, Rests, Stumbles
<1>13. ASSUME NEW t \in Tasks, MergeCall(t)  PROVE AllRest
  BY <1>2, <1>13 DEF MergeCall
<1>14. CASE MergeSettles
  <2>1. loop.task \in Tasks /\ tasks[loop.task].stage = "merge"
    BY <1>5, <1>14, LoopShape DEF MergeSettles, IInv, Ticking
  <2> QED  BY <1>3, <1>4, <1>14, <2>1 DEF MergeSettles
<1>15. CASE LandPush \/ LandPropose \/ LandRaises
  <2>1. loop.task \in Tasks /\ tasks[loop.task].stage = "land"
    BY <1>5, <1>15, LoopShape DEF LandPush, LandPropose, LandRaises, IInv, Ticking
  <2> QED  BY <1>2, <1>3, <1>4, <1>15, <2>1 DEF LandPush, LandPropose, LandRaises
<1>16. CASE \/ PersonPushes \/ Rearm \/ \E b \in Targets : BaseMoves(b)
            \/ UpdateBranch \/ GiveUp \/ BumpAdd \/ TriageRaises \/ UNCHANGED vars
  BY <1>2, <1>16 DEF PersonPushes, Rearm, BaseMoves, UpdateBranch, GiveUp, BumpAdd,
     TriageRaises, vars
<1> QED
  BY <1>6, <1>8, <1>9, <1>10, <1>11, <1>12, <1>13, <1>14, <1>15, <1>16 DEF Next, Acts

LEMMA CrashRests == ASSUME IInv, Crash PROVE AllRest
<1>1. tasks \in [Tasks -> TaskType]  BY TypeIs DEF IInv
<1>2. tasks' = [t \in Tasks |-> IF tasks[t].stage = "agent"
                                THEN [tasks[t] EXCEPT !.stage = "queued"]
                                ELSE tasks[t]]
  BY DEF Crash
<1>3. ASSUME NEW u \in Tasks, tasks[u].stage = "agent"
      PROVE  /\ tasks'[u] \in TaskType /\ From(u, "agent") /\ To(u, "queued") /\ SameTask(u)
  BY <1>1, <1>2, <1>3 DEF TaskType, Stages, From, To, SameTask
<1>4. \A u \in Tasks : tasks'[u] \in TaskType /\ Rests(u)
  BY <1>1, <1>2, <1>3 DEF Rests, Stumbles
<1> QED  BY <1>2, <1>4 DEF AllRest

LEMMA NextTurns ==
    ASSUME IInv, [Next]_vars
    PROVE  /\ tasks' \in [Tasks -> TaskType]
           /\ \A u \in Tasks : Rests(u) \/ (Acts(u) /\ SameTask(u) /\ Advances(u))
<1>1. ASSUME NEW t \in Tasks, Acts(t)
      PROVE  /\ tasks' \in [Tasks -> TaskType]
             /\ \A u \in Tasks : Rests(u) \/ (Acts(u) /\ SameTask(u) /\ Advances(u))
  BY <1>1, ActsTurn DEF Rests
<1> QED  BY <1>1, OthersRest, CrashRests DEF AllRest

\* Where the work trees are after any step.
LEMMA NextTrees ==
    ASSUME IInv, [Next]_vars
    PROVE  \A u \in Tasks :
              \/ trees'[u] = trees[u] /\ ~Acts(u)
              \/ Acts(u) /\ trees'[u].exists
              \/ /\ trees'[u].exists /\ From(u, "queued") /\ tasks'[u] = tasks[u]
                 /\ trees'[u] = Clean(local) /\ ~trees[u].exists /\ local' = local
<1>1. TypeOK /\ trees \in [Tasks -> Trees] /\ tasks \in [Tasks -> TaskType]  BY TypeIs DEF IInv
<1>2. ASSUME NEW t \in Tasks, Acts(t)
      PROVE  trees'[t].exists /\ \A u \in Tasks \ {t} : trees'[u] = trees[u]
  BY <1>2, ActsWork, WorkMeans
<1>3. CASE Crash
  <2>1. tasks' = [t \in Tasks |-> IF tasks[t].stage = "agent"
                                  THEN [tasks[t] EXCEPT !.stage = "queued"]
                                  ELSE tasks[t]]
    BY <1>3 DEF Crash
  <2>2. CASE UNCHANGED trees  BY <1>2, <2>2
  <2>3. ASSUME NEW t \in Tasks, trees' = [trees EXCEPT ![t] = Clean(local)],
               tasks[t].stage = "queued", ~trees[t].exists
        PROVE  \A u \in Tasks :
                  \/ trees'[u] = trees[u]
                  \/ /\ trees'[u].exists /\ From(u, "queued") /\ tasks'[u] = tasks[u]
                     /\ trees'[u] = Clean(local) /\ ~trees[u].exists
    <3>1. trees' = [u \in Tasks |-> IF u = t THEN Clean(local) ELSE trees[u]]
      BY <1>1, <2>3
    <3> QED  BY <2>1, <2>3, <3>1 DEF Clean, From
  <2>4. local' = local  BY <1>3 DEF Crash
  <2> QED  BY <1>2, <1>3, <2>2, <2>3, <2>4 DEF Crash
<1>4. CASE trees' = trees  BY <1>2, <1>4
<1>5. CASE ~Crash /\ ~(\E t \in Tasks : Acts(t))
  <2>1. trees' = trees
    BY <1>5 DEF Next, Acts, PersonPushes, BaseMoves, Rearm, Retry, UpdateBranch, Triage,
       GiveUp, BumpAdd, BumpClear, TriageRaises, ScanClean, AttachFails, AgentRaises,
       MergeCall, MergeSettles, LandPush, LandPropose, LandRaises, remote, clone, vars
  <2> QED  BY <1>4, <2>1
<1> QED  BY <1>2, <1>3, <1>5

LEMMA NextStaged == ASSUME IInv, [Next]_vars PROVE Staged'
<1> SUFFICES ASSUME NEW t \in Tasks
             PROVE  /\ IsAt(t, "merge")' => tasks'[t].kind = "review"
                    /\ tasks'[t].stage = "none" <=> tasks'[t] = Absent
                    /\ tasks'[t].stage = "failed" =>
                          tasks'[t].from \notin {"none", "done", "failed"}
                    /\ tasks'[t] = Absent => ~trees'[t].exists
                    /\ ~trees'[t].exists => tasks'[t].kind # "build" /\ ~IsAt(t, "land")'
                                            /\ ~IsAt(t, "agent")'
  BY DEF Staged
<1>1. Rests(t) \/ (Acts(t) /\ SameTask(t) /\ Advances(t))  BY NextTurns
<1>2. \/ trees'[t] = trees[t] /\ ~Acts(t)
      \/ Acts(t) /\ trees'[t].exists
      \/ trees'[t].exists /\ From(t, "queued") /\ tasks'[t] = tasks[t]
  BY NextTrees
<1>3. /\ IsAt(t, "merge") => tasks[t].kind = "review"
      /\ tasks[t].stage = "none" <=> tasks[t] = Absent
      /\ tasks[t].stage = "failed" => tasks[t].from \notin {"none", "done", "failed"}
      /\ tasks[t] = Absent => ~trees[t].exists
      /\ ~trees[t].exists => tasks[t].kind # "build" /\ ~IsAt(t, "land") /\ ~IsAt(t, "agent")
  BY DEF IInv, Staged
<1>4. Absent.stage = "none"  BY DEF Absent
<1>5. Acts(t) => tasks[t].stage \in {"queued", "agent", "land"}
  BY DEF Acts, UnblockStart, UnblockDone, UnblockStuck, ReviewStart, ReviewEnd, LandSync
<1>6. IsAt(t, "merge")' => tasks'[t].kind = "review"
  BY <1>1, <1>3 DEF Rests, IsPut, SameTask, Stumbles, Ends, Advances, From, To, FailsAt, IsAt
<1>7. tasks'[t].stage = "none" => tasks'[t] = tasks[t]
  BY <1>1, <1>3 DEF Rests, IsPut, SameTask, Stumbles, Ends, Advances, From, To, FailsAt
<1>8. tasks'[t].stage = "failed" => tasks'[t].from \notin {"none", "done", "failed"}
  BY <1>1, <1>3 DEF Rests, IsPut, SameTask, Stumbles, Ends, Advances, From, To, FailsAt
<1>9. tasks'[t] = Absent => ~trees'[t].exists
  BY <1>2, <1>3, <1>4, <1>5, <1>7 DEF From
<1>10. ASSUME ~trees'[t].exists
       PROVE  tasks'[t].kind # "build" /\ ~IsAt(t, "land")' /\ ~IsAt(t, "agent")'
  <2>1. Rests(t) /\ ~trees[t].exists  BY <1>1, <1>2, <1>10
  <2> QED  BY <1>3, <2>1 DEF Rests, IsPut, SameTask, Stumbles, Ends, From, To, FailsAt, IsAt
<1> QED  BY <1>3, <1>4, <1>6, <1>7, <1>8, <1>9, <1>10

\* The loop, busy, is left alone by people, by GitHub and by the operator.
LEMMA BusyLoop ==
    ASSUME IInv, [Next]_vars, loop # Free, loop' = loop
    PROVE  \/ UNCHANGED <<tasks, local, trees, attempted>> /\ UNCHANGED <<read, made>>
              /\ UNCHANGED <<pr, rearms>>
           \/ UNCHANGED <<tasks, local, trees, read, made>> /\ Rearm
           \/ \E t \in Tasks : Retry(t)
<1>1. loop \in Loops /\ TypeOK  BY TypeIs DEF IInv
<1>2. loop.at # "free"  BY <1>1, LoopShape
<1>3. Free.at = "free"  BY DEF Free
<1>4. CASE UNCHANGED vars  BY <1>4 DEF vars, remote, clone, counters, observers
<1>5. CASE PersonPushes \/ \E b \in Targets : BaseMoves(b)
  BY <1>5 DEF PersonPushes, BaseMoves, clone, observers
<1>6. CASE Rearm  BY <1>6 DEF Rearm, clone
<1>7. ~(\E dirty, failing \in BOOLEAN : Triage(dirty, failing)) /\ ~UpdateBranch /\ ~ScanClean
  BY DEF Triage, UpdateBranch, ScanClean, Listed
<1>8. ~(GiveUp \/ BumpClear \/ TriageRaises \/ MergeSettles \/ LandPropose \/ LandRaises \/ Crash)
  BY DEF GiveUp, BumpClear, TriageRaises, MergeSettles, LandPropose, LandRaises, Crash
<1>9. ~BumpAdd
  <2>1. ASSUME BumpAdd PROVE FALSE
    <3>1. loop.at = "bump" /\ loop' = [loop EXCEPT !.at = "clear"]  BY <2>1 DEF BumpAdd
    <3>2. loop \in [at : {"bump", "clear"}, head : Commits, failing : BOOLEAN,
                    old : SUBSET Labels, fresh : Labels]
      BY <1>1, <3>1 DEF Loops
    <3>3. loop'.at = "clear"  BY <3>1, <3>2
    <3> QED  BY <3>1, <3>3
  <2> QED  BY <2>1
<1>10. ~LandPush
  <2>1. ASSUME LandPush PROVE FALSE
    <3>1. loop.at = "push" /\ (loop' = [loop EXCEPT !.at = "propose"] \/ loop' = Free)
      BY <2>1 DEF LandPush
    <3>2. loop \in [at : {"push", "propose", "merged", "refused", "raised"}, task : Tasks]
      BY <1>1, <3>1 DEF Loops
    <3>3. loop'.at \in {"propose", "free"}  BY <1>3, <3>1, <3>2
    <3> QED  BY <3>1, <3>3
  <2> QED  BY <2>1
<1>11. \A t \in Tasks :
          ~(\/ AttachFails(t) \/ UnblockStart(t) \/ UnblockDone(t) \/ UnblockStuck(t)
            \/ AgentRaises(t) \/ ReviewStart(t) \/ ReviewEnd(t) \/ MergeCall(t) \/ LandSync(t))
  BY DEF AttachFails, UnblockStart, UnblockDone, UnblockStuck, AgentRaises, ReviewStart,
     ReviewEnd, MergeCall, LandSync
<1> QED  BY <1>4, <1>5, <1>6, <1>7, <1>8, <1>9, <1>10, <1>11 DEF Next

LEMMA NextTicking == ASSUME IInv, [Next]_vars PROVE Ticking'
<1>1. TypeOK /\ loop \in Loops /\ tasks \in [Tasks -> TaskType]  BY TypeIs DEF IInv
<1>2. Free.at = "free"  BY DEF Free
<1>3. CASE loop' = Free  BY <1>2, <1>3 DEF Ticking
<1>4. CASE loop' = loop /\ loop # Free
  <2>1. CASE UNCHANGED tasks  BY <1>4, <2>1 DEF IInv, Ticking, FreeIds
  <2>2. ASSUME NEW t \in Tasks, Retry(t)  PROVE Ticking'
    <3>1. /\ tasks[t].stage = "failed" /\ tasks'[t].stage = tasks[t].from
          /\ \A u \in Tasks \ {t} : tasks'[u] = tasks[u]
      <4>1. tasks' = Stage(t, tasks[t].from) /\ tasks[t].from \in Stages
        BY <1>1, <2>2 DEF Retry, TaskType
      <4> QED  BY <1>1, <2>2, <4>1, StageGoes DEF Retry, To
    <3>2. Absent.stage # "failed"  BY <3>1 DEF Absent
    <3>3. FreeIds \subseteq FreeIds'  BY <3>1, <3>2 DEF FreeIds
    <3>4. loop.at \in {"push", "propose", "merged", "refused", "raised"} =>
             loop.task \in Tasks /\ loop.task # t
      BY <1>1, <3>1, LoopShape DEF IInv, Ticking
    <3> QED  BY <1>4, <3>1, <3>3, <3>4 DEF IInv, Ticking
  <2> QED  BY <1>4, <2>1, <2>2, BusyLoop
<1>5. ASSUME NEW dirty \in BOOLEAN, NEW failing \in BOOLEAN, Triage(dirty, failing), loop' # loop
      PROVE  Ticking'
  <2>1. UNCHANGED tasks /\ (loop'.at = "giveup" \/ (loop'.at = "bump" /\ FreeIds # {}))
    BY <1>5 DEF Triage
  <2> QED  BY <2>1 DEF Ticking, FreeIds
<1>6. CASE BumpAdd
  <2>1. loop \in [at : {"bump", "clear"}, head : Commits, failing : BOOLEAN,
                  old : SUBSET Labels, fresh : Labels]
    BY <1>1, <1>6 DEF Loops, BumpAdd
  <2>2. loop'.at = "clear" /\ tasks' = tasks /\ FreeIds # {}
    BY <1>6, <2>1 DEF BumpAdd, IInv, Ticking
  <2> QED  BY <2>2 DEF Ticking, FreeIds
<1>7. ASSUME NEW t \in Tasks, LandSync(t)  PROVE Ticking'
  <2>1. loop' = [at |-> "push", task |-> t] /\ tasks' = tasks /\ tasks[t].stage = "land"
    BY <1>7 DEF LandSync
  <2> QED  BY <2>1 DEF Ticking
<1>8. CASE LandPush /\ loop' # Free
  <2>1. loop \in [at : {"push", "propose", "merged", "refused", "raised"}, task : Tasks]
    BY <1>1, <1>8 DEF Loops, LandPush
  <2>2. loop' = [loop EXCEPT !.at = "propose"] /\ tasks' = tasks
        /\ tasks[loop.task].stage = "land"
    BY <1>8 DEF LandPush, IInv, Ticking
  <2> QED  BY <2>1, <2>2 DEF Ticking
<1>9. ASSUME NEW t \in Tasks, MergeCall(t)  PROVE Ticking'
  <2>1. /\ loop'.at \in {"merged", "refused", "raised"} /\ loop'.task = t
        /\ tasks' = tasks /\ tasks[t].stage = "merge"
    BY <1>9 DEF MergeCall
  <2> QED  BY <2>1 DEF Ticking
<1>10. \/ loop' = Free \/ loop' = loop \/ BumpAdd \/ LandPush
       \/ \E dirty, failing \in BOOLEAN : Triage(dirty, failing)
       \/ \E t \in Tasks : LandSync(t) \/ MergeCall(t)
  BY DEF Next, PersonPushes, BaseMoves, Rearm, Retry, UpdateBranch, GiveUp, BumpClear,
     TriageRaises, ScanClean, AttachFails, UnblockStart, UnblockDone, UnblockStuck,
     AgentRaises, ReviewStart, ReviewEnd, MergeSettles, LandPropose, LandRaises, Crash, vars
<1> QED  BY <1>3, <1>4, <1>5, <1>6, <1>7, <1>8, <1>9, <1>10

\* Nobody takes up work that was done, or that another left.
LEMMA KeptBefore ==
    ASSUME IInv, [Next]_vars, NEW u \in Tasks, trees'[u] = trees[u], ~Acts(u), Kept(u)'
    PROVE  Kept(u)
<1>1. Rests(u)  BY NextTurns
<1>2. /\ tasks[u] = Absent => ~trees[u].exists
      /\ tasks[u].stage = "none" <=> tasks[u] = Absent
      /\ tasks[u].stage = "failed" => tasks[u].from \notin {"none", "done", "failed"}
  BY DEF IInv, Staged
<1> QED  BY <1>1, <1>2 DEF Kept, Rests, IsPut, Stumbles, Ends, From, To

LEMMA NextGit == ASSUME IInv, [Next]_vars PROVE GitHolds'
<1>1. ASSUME NEW t \in Tasks, Acts(t)  PROVE GitHolds'
  <2>1. UNCHANGED <<origin, bases, pushed>>
    BY <1>1 DEF Acts, UnblockStart, UnblockDone, UnblockStuck, ReviewStart, ReviewEnd,
       LandSync, remote
  <2>2. \A u \in Tasks \ {t} : tasks'[u] = tasks[u] /\ trees'[u] = trees[u]
    BY <1>1, ActsTurn, ActsWork, WorkMeans
  <2>3. \A u \in Tasks \ {t} : Kept(u)' => Kept(u)  BY <2>2 DEF Kept
  <2> QED  BY <1>1, <2>1, <2>3, ActsWork, WorkKeepsGit
<1>2. ASSUME trees' = trees, ~(\E t \in Tasks : Acts(t))
      PROVE  \A t \in Tasks : trees'[t] = trees[t] /\ (Kept(t)' => Kept(t))
  BY <1>2, KeptBefore
<1>3. CASE (LandPush \/ LandRaises) /\ ~(UNCHANGED <<origin, pushed>>)
  <2>1. /\ Accepted /\ origin' = local /\ pushed' = pushed \cup local.tree
        /\ UNCHANGED <<bases, local, trees, overlapped>>
    BY <1>3 DEF LandPush, LandRaises, clone
  <2>2. ~(\E t \in Tasks : Acts(t))
    <3>1. loop # Free  BY <1>3 DEF LandPush, LandRaises, Free
    <3> QED  BY <3>1 DEF Acts, UnblockStart, UnblockDone, UnblockStuck, ReviewStart,
             ReviewEnd, LandSync
  <2> QED  BY <1>2, <2>1, <2>2, PushKeepsGit
<1>4. CASE /\ ~(\E t \in Tasks : Acts(t))
           /\ UNCHANGED <<origin, bases, local, pushed, overlapped, trees>>
  BY <1>2, <1>4, SameGit
<1>5. CASE PersonPushes \/ UpdateBranch \/ Crash \/ \E b \in Targets : BaseMoves(b)
  BY <1>5, PersonPushesGit, UpdateBranchGit, CrashGit, BaseMovesGit
<1>6. CASE Rearm \/ GiveUp \/ BumpAdd \/ BumpClear \/ TriageRaises \/ ScanClean \/ MergeSettles
           \/ UNCHANGED vars
  <2>1. UNCHANGED <<origin, bases, local, pushed, overlapped, trees>>
    BY <1>6 DEF Rearm, GiveUp, BumpAdd, BumpClear, TriageRaises, ScanClean, MergeSettles,
       vars, remote, clone, observers
  <2> QED  BY <1>1, <1>4, <2>1
<1>7. ASSUME NEW t \in Tasks, Retry(t) \/ AttachFails(t) \/ AgentRaises(t) \/ MergeCall(t)
      PROVE  GitHolds'
  <2>1. UNCHANGED <<origin, bases, local, pushed, overlapped, trees>>
    BY <1>7 DEF Retry, AttachFails, AgentRaises, MergeCall, remote, clone, observers
  <2> QED  BY <1>1, <1>4, <2>1
<1>8. ASSUME NEW dirty \in BOOLEAN, NEW failing \in BOOLEAN, Triage(dirty, failing)
      PROVE  GitHolds'
  <2>1. UNCHANGED <<origin, bases, local, pushed, overlapped, trees>>
    BY <1>8 DEF Triage, remote, clone
  <2> QED  BY <1>1, <1>4, <2>1
<1>9. CASE LandPropose \/ ((LandPush \/ LandRaises) /\ UNCHANGED <<origin, pushed>>)
  <2>1. UNCHANGED <<origin, bases, local, pushed, overlapped, trees>>
    BY <1>9 DEF LandPropose, LandPush, LandRaises, clone
  <2> QED  BY <1>1, <1>4, <2>1
<1> QED  BY <1>1, <1>3, <1>5, <1>6, <1>7, <1>8, <1>9 DEF Next, Acts

-----------------------------------------------------------------------------
(* Pins, MadeKept and ReadRight are inductive.                             *)

\* GitHub's history only grows, and a head that grew is a new one.
LEMMA HeadGrows ==
    ASSUME IInv, [Next]_vars
    PROVE  /\ origin.hist \subseteq origin'.hist
           /\ \/ origin' = origin
              \/ next \in origin'.hist
              \/ origin' = local
<1>1. CASE PersonPushes \/ UpdateBranch
  BY <1>1 DEF PersonPushes, UpdateBranch, MergeCommit
<1>2. CASE LandPush \/ LandRaises
  BY <1>2 DEF LandPush, LandRaises, Accepted, IsAncestor
<1>3. CASE ~(PersonPushes \/ UpdateBranch \/ LandPush \/ LandRaises)
  <2>1. origin' = origin
    BY <1>3 DEF Next, BaseMoves, Rearm, Retry, Triage, GiveUp, BumpAdd, BumpClear,
       TriageRaises, ScanClean, AttachFails, UnblockStart, UnblockDone, UnblockStuck,
       AgentRaises, ReviewStart, ReviewEnd, MergeCall, MergeSettles, LandSync, LandPropose,
       Crash, remote, vars
  <2> QED  BY <2>1
<1> QED  BY <1>1, <1>2, <1>3

LEMMA NextPins == ASSUME IInv, [Next]_vars PROVE Pins'
<1>1. origin.hist \subseteq origin'.hist  BY HeadGrows
<1>2. ASSUME NEW t \in Tasks  PROVE tasks'[t].pin \subseteq origin'.hist
  <2>1. tasks[t].pin \subseteq origin.hist  BY DEF IInv, Pins
  <2>2. tasks'[t].pin \subseteq origin.hist
    BY <2>1, NextTurns DEF Rests, SameTask, IsPut
  <2> QED  BY <1>1, <2>2
<1>3. loop \in Loops  BY TypeIs DEF IInv
<1>4. loop' = loop \/ BumpAdd \/ loop'.at \notin {"bump", "clear"}
      \/ \E dirty, failing \in BOOLEAN : Triage(dirty, failing)
  <2>1. Free.at = "free"  BY DEF Free
  <2>2. CASE LandPush
    <3>1. loop \in [at : {"push", "propose", "merged", "refused", "raised"}, task : Tasks]
      BY <1>3, <2>2 DEF Loops, LandPush
    <3> QED  BY <2>1, <2>2, <3>1 DEF LandPush
  <2>3. CASE \E t \in Tasks : LandSync(t)  BY <2>3 DEF LandSync
  <2>4. CASE \E t \in Tasks : MergeCall(t)  BY <2>4 DEF MergeCall
  <2>5. CASE loop' = Free  BY <2>1, <2>5
  <2>6. \/ loop' = Free \/ loop' = loop \/ BumpAdd \/ LandPush
        \/ \E dirty, failing \in BOOLEAN : Triage(dirty, failing)
        \/ \E t \in Tasks : LandSync(t) \/ MergeCall(t)
    BY DEF Next, PersonPushes, BaseMoves, Rearm, Retry, UpdateBranch, GiveUp, BumpClear,
       TriageRaises, ScanClean, AttachFails, UnblockStart, UnblockDone, UnblockStuck,
       AgentRaises, ReviewStart, ReviewEnd, MergeSettles, LandPropose, LandRaises, Crash, vars
  <2> QED  BY <2>2, <2>3, <2>4, <2>5, <2>6
<1>5. ASSUME loop'.at \in {"bump", "clear"}  PROVE loop'.head.hist \subseteq origin'.hist
  <2>1. CASE loop' = loop  BY <1>1, <1>5, <2>1 DEF IInv, Pins
  <2>2. CASE BumpAdd
    <3>1. loop \in [at : {"bump", "clear"}, head : Commits, failing : BOOLEAN,
                    old : SUBSET Labels, fresh : Labels]
      BY <1>3, <2>2 DEF Loops, BumpAdd
    <3>2. loop'.head = loop.head  BY <2>2, <3>1 DEF BumpAdd
    <3> QED  BY <1>1, <2>2, <3>2 DEF BumpAdd, IInv, Pins
  <2>3. ASSUME NEW dirty \in BOOLEAN, NEW failing \in BOOLEAN, Triage(dirty, failing)
        PROVE  loop'.head.hist \subseteq origin'.hist
    <3>1. CASE loop' = loop  BY <2>1, <3>1
    <3>2. CASE loop' # loop
      <4>1. loop'.head = origin  BY <1>5, <2>3, <3>2 DEF Triage
      <4> QED  BY <1>1, <4>1
    <3> QED  BY <3>1, <3>2
  <2> QED  BY <1>4, <1>5, <2>1, <2>2, <2>3
<1> QED  BY <1>2, <1>5 DEF Pins

LEMMA BranchMoves ==
    ASSUME IInv, [Next]_vars
    PROVE  /\ overlapped => overlapped'
           /\ local' = local \/ \E t \in Tasks : Acts(t)
           /\ \A u \in Tasks : ~overlapped' /\ Kept(u) /\ ~Acts(u) => local' = local
<1>1. ASSUME NEW t \in Tasks, Acts(t)
      PROVE  /\ overlapped => overlapped'
             /\ \A u \in Tasks \ {t} : ~overlapped' /\ Kept(u) => local' = local
  BY <1>1, ActsWork, WorkMeans
<1>2. CASE ~(\E t \in Tasks : Acts(t))
  <2>1. local' = local /\ overlapped' = overlapped
    BY <1>2 DEF Next, Acts, PersonPushes, BaseMoves, Rearm, Retry, UpdateBranch, Triage,
       GiveUp, BumpAdd, BumpClear, TriageRaises, ScanClean, AttachFails, AgentRaises,
       MergeCall, MergeSettles, LandPush, LandPropose, LandRaises, Crash, remote, clone,
       observers, vars
  <2> QED  BY <2>1
<1> QED  BY <1>1, <1>2

LEMMA NextMade ==
    ASSUME IInv, [Next]_vars
    PROVE  \A u \in Tasks : \/ made'[u] = made[u]
                            \/ UnblockStart(u) /\ made'[u] = {}
                            \/ UnblockDone(u) /\ made'[u] = {next}
<1>1. made \in [Tasks -> SUBSET Changes]  BY TypeIs DEF IInv
<1>2. ASSUME NEW t \in Tasks, UnblockStart(t)
      PROVE  made' = [u \in Tasks |-> IF u = t THEN {} ELSE made[u]]
  BY <1>1, <1>2 DEF UnblockStart
<1>3. ASSUME NEW t \in Tasks, UnblockDone(t)
      PROVE  made' = [u \in Tasks |-> IF u = t THEN {next} ELSE made[u]]
  BY <1>1, <1>3 DEF UnblockDone
<1>4. CASE ~(\E t \in Tasks : UnblockStart(t) \/ UnblockDone(t))
  <2>1. made' = made
    BY <1>4 DEF Next, PersonPushes, BaseMoves, Rearm, Retry, UpdateBranch, Triage,
       GiveUp, BumpAdd, BumpClear, TriageRaises, ScanClean, AttachFails, UnblockStuck,
       AgentRaises, ReviewStart, ReviewEnd, MergeCall, MergeSettles, LandSync, LandPush,
       LandPropose, LandRaises, Crash, observers, vars
  <2> QED  BY <2>1
<1> QED  BY <1>2, <1>3, <1>4

\* A landing ends when its proposal is made.
LEMMA LandingEnds ==
    ASSUME IInv, [Next]_vars, NEW t \in Tasks, From(t, "land"), To(t, "done")
    PROVE  loop.at = "propose" /\ loop.task = t
<1>1. TypeOK /\ loop \in Loops /\ tasks \in [Tasks -> TaskType]  BY TypeIs DEF IInv
<1>2. CASE LandPropose
  <2>1. loop.at = "propose" /\ loop.task \in Tasks /\ tasks' = Stage(loop.task, "done")
    BY <1>1, <1>2, LoopShape DEF LandPropose
  <2>2. \A u \in Tasks \ {loop.task} : tasks'[u] = tasks[u]
    BY <1>1, <2>1, StageGoes DEF Stages
  <2> QED  BY <2>1, <2>2 DEF From, To
<1>3. ~(\E u \in Tasks : Acts(u))
  <2>1. ASSUME NEW u \in Tasks, Acts(u)  PROVE FALSE
    <3>1. tasks'[t] = tasks[t] \/ (t = u /\ Advances(t))  BY <2>1, ActsTurn
    <3> QED  BY <3>1 DEF Advances, From, To
  <2> QED  BY <2>1
<1>4. ~Crash  BY <1>1 DEF Crash, From, To, TaskType
<1>5. ASSUME NEW u \in Tasks, NEW s \in Stages, tasks' = Stage(u, s), s = "done" => tasks[u].stage # "land",
             s # "done" => tasks[u].stage = "failed"
      PROVE  FALSE
  BY <1>1, <1>5, StageGoes DEF From, To
<1>6. ~(\E u \in Tasks : Retry(u))
  <2>1. ASSUME NEW u \in Tasks, Retry(u)  PROVE FALSE
    <3>1. tasks' = Stage(u, tasks[u].from) /\ tasks[u].stage = "failed" /\ tasks[u].from \in Stages
      BY <1>1, <2>1 DEF Retry, TaskType
    <3> QED  BY <1>1, <3>1, StageGoes DEF From, To
  <2> QED  BY <2>1
<1>7. ~MergeSettles
  <2>1. ASSUME MergeSettles  PROVE FALSE
    <3>1. loop.task \in Tasks /\ tasks[loop.task].stage = "merge"
      BY <1>1, <2>1, LoopShape DEF MergeSettles, IInv, Ticking
    <3>2. (tasks' = Stage(loop.task, "done") \/ tasks' = Fail(loop.task)) /\ "done" \in Stages
      BY <2>1 DEF MergeSettles, Stages
    <3> QED  BY <1>1, <3>1, <3>2, StageGoes DEF From, To, FailsAt
  <2> QED  BY <2>1
<1>8. ASSUME NEW u \in Tasks, tasks' = Fail(u)  PROVE FALSE
  BY <1>1, <1>8, StageGoes DEF From, To, FailsAt, Stages
<1>9. ~(\E u \in Tasks : AttachFails(u))  BY <1>8 DEF AttachFails
<1>10. ~LandPush /\ ~LandRaises
  <2>1. LandPush \/ LandRaises => loop.task \in Tasks /\ (tasks' = Fail(loop.task) \/ tasks' = tasks)
    BY <1>1, LoopShape DEF LandPush, LandRaises
  <2> QED  BY <1>8, <2>1 DEF From, To
<1>11. ~(\E u \in Tasks : AgentRaises(u))
  BY <1>1 DEF AgentRaises, From, To, TaskType
<1>12. tasks' # tasks  BY DEF From, To
<1>13. ~(tasks'[t] = tasks[t] \/ IsPut(t))  BY DEF From, To, IsPut
<1>14. ~BumpClear
  <2>1. BumpClear => /\ FreeIds # {} /\ loop.head \in Commits /\ loop.head.hist \subseteq origin.hist
                     /\ loop.failing \in BOOLEAN /\ PutTask("unblock", loop.head, loop.failing)
    BY <1>1, LoopShape DEF BumpClear, IInv, Ticking, Pins
  <2> QED  BY <1>1, <1>13, <2>1, PutTurns
<1>15. origin \in Commits  BY TypeIs DEF IInv
<1>16. ~ScanClean
  <2>1. ScanClean => FreeIds # {} /\ PutTask("review", origin, FALSE)  BY DEF ScanClean
  <2> QED  BY <1>1, <1>13, <1>15, <2>1, PutTurns
<1>17. ~(\E dirty, failing \in BOOLEAN : Triage(dirty, failing))
  <2>1. ASSUME NEW dirty \in BOOLEAN, NEW failing \in BOOLEAN, Triage(dirty, failing)  PROVE FALSE
    <3>1. UNCHANGED tasks \/ (FreeIds # {} /\ PutTask("unblock", origin, failing))
      BY <2>1 DEF Triage
    <3> QED  BY <1>1, <1>12, <1>13, <1>15, <3>1, PutTurns
  <2> QED  BY <2>1
<1>18. CASE \/ PersonPushes \/ Rearm \/ \E b \in Targets : BaseMoves(b)
            \/ UpdateBranch \/ GiveUp \/ BumpAdd \/ TriageRaises \/ UNCHANGED vars
            \/ \E u \in Tasks : MergeCall(u)
  BY <1>12, <1>18 DEF PersonPushes, Rearm, BaseMoves, UpdateBranch, GiveUp, BumpAdd,
     TriageRaises, MergeCall, vars
<1> QED
  BY <1>2, <1>3, <1>4, <1>6, <1>7, <1>9, <1>10, <1>11, <1>14, <1>16, <1>17, <1>18 DEF Next, Acts

\* What an unblock task made lands on the branch at once.
LEMMA DoneLands ==
    ASSUME IInv, NEW t \in Tasks, UnblockDone(t)
    PROVE  next \in local'.hist /\ made'[t] = {next} /\ To(t, "land")
<1>1. TypeOK /\ local.tree \subseteq Changes /\ made \in [Tasks -> SUBSET Changes]
  BY TypeIs, Fresh DEF IInv
<1>2. next \notin local.tree  BY <1>1, Fresh
<1>3. ~NothingStaged(trees[t], local, {next})  BY <1>2 DEF NothingStaged
<1>4. MoveBranch(t, Committed(trees[t], local, {next}, next))
  BY <1>3 DEF UnblockDone, CommitFiles
<1>5. next \in local'.hist  BY <1>4 DEF MoveBranch, Committed
<1>6. made'[t] = {next}  BY <1>1 DEF UnblockDone
<1>7. tasks' = Stage(t, "land") /\ "land" \in Stages  BY DEF UnblockDone, Stages
<1> QED  BY <1>1, <1>5, <1>6, <1>7, StageGoes

\* A task at a step was there before, unless it did the step before that.
LEMMA WasAt ==
    ASSUME IInv, [Next]_vars, NEW t \in Tasks, ~Acts(t), NEW s \in {"agent", "merge", "land"},
           IsAt(t, s)'
    PROVE  IsAt(t, s) /\ SameTask(t)
<1>1. Rests(t)  BY NextTurns
<1>2. tasks[t].stage = "failed" => tasks[t].from \notin {"none", "done", "failed"}
  BY DEF IInv, Staged
<1> QED  BY <1>1, <1>2 DEF Rests, IsPut, Stumbles, Ends, SameTask, From, To, FailsAt, IsAt

LEMMA NextMadeKept ==
    ASSUME IInv, [Next]_vars
    PROVE  \A t \in Tasks : tasks'[t].kind = "unblock" =>
              /\ IsAt(t, "agent")' => made'[t] = {}
              /\ ~overlapped' /\ IsAt(t, "land")' => made'[t] \subseteq local'.hist
              /\ ~overlapped' /\ tasks'[t].stage = "done" => made'[t] \subseteq origin'.hist
<1> SUFFICES ASSUME NEW t \in Tasks, tasks'[t].kind = "unblock"
             PROVE  /\ IsAt(t, "agent")' => made'[t] = {}
                    /\ ~overlapped' /\ IsAt(t, "land")' => made'[t] \subseteq local'.hist
                    /\ ~overlapped' /\ tasks'[t].stage = "done" => made'[t] \subseteq origin'.hist
  OBVIOUS
<1>1. /\ tasks[t].kind = "unblock" =>
            /\ IsAt(t, "agent") => made[t] = {}
            /\ ~overlapped /\ IsAt(t, "land") => made[t] \subseteq local.hist
            /\ ~overlapped /\ tasks[t].stage = "done" => made[t] \subseteq origin.hist
      /\ loop.at = "propose" /\ ~overlapped /\ tasks[loop.task].kind = "unblock" =>
            made[loop.task] \subseteq origin.hist
  BY DEF IInv, MadeKept
<1>2. overlapped => overlapped'  BY BranchMoves
<1>3. origin.hist \subseteq origin'.hist  BY HeadGrows
<1>4. \/ made'[t] = made[t]
      \/ UnblockStart(t) /\ made'[t] = {}
      \/ UnblockDone(t) /\ made'[t] = {next}
  BY NextMade
<1>5. IsAt(t, "land") => trees[t].exists /\ Kept(t)
  BY DEF IInv, Staged, Kept, IsAt
<1>6. CASE Acts(t)
  <2>1. tasks[t].kind = "unblock" /\ (tasks'[t] = tasks[t] \/ Advances(t))
    BY <1>6, ActsTurn DEF SameTask
  <2>2. CASE UnblockStart(t)
    <3>1. made'[t] = {}
      <4>1. made \in [Tasks -> SUBSET Changes]  BY TypeIs DEF IInv
      <4> QED  BY <2>2, <4>1 DEF UnblockStart
    <3> QED  BY <3>1
  <2>3. CASE UnblockDone(t)
    <3>1. next \in local'.hist /\ made'[t] = {next} /\ To(t, "land")  BY <2>3, DoneLands
    <3> QED  BY <3>1 DEF To, IsAt
  <2>4. CASE UnblockStuck(t)
    <3>1. tasks[t].stage = "agent" /\ tasks' = Stage(t, "done") /\ made' = made
      BY <2>4 DEF UnblockStuck
    <3>2. To(t, "done")  BY <3>1, StageGoes DEF IInv, Stages
    <3>3. made'[t] = {}  BY <1>1, <2>1, <3>1 DEF IsAt
    <3> QED  BY <3>3
  <2>5. CASE LandSync(t)
    <3>1. tasks' = tasks /\ made' = made /\ origin' = origin /\ tasks[t].stage = "land"
      BY <2>5 DEF LandSync, remote
    <3>2. local.hist \subseteq local'.hist
      BY <1>5, <1>6, <3>1, ActsWork, WorkMeans DEF IsAt
    <3> QED  BY <1>1, <1>2, <2>1, <3>1, <3>2 DEF IsAt
  <2> QED  BY <1>6, <2>1, <2>2, <2>3, <2>4, <2>5 DEF Acts, ReviewStart, ReviewEnd
<1>7. CASE ~Acts(t)
  <2>1. made'[t] = made[t]  BY <1>4, <1>7 DEF Acts
  <2>2. IsAt(t, "agent")' => made'[t] = {}
    BY <1>1, <1>7, <2>1, WasAt DEF SameTask
  <2>3. ASSUME ~overlapped', IsAt(t, "land")'  PROVE made'[t] \subseteq local'.hist
    <3>1. IsAt(t, "land") /\ SameTask(t)  BY <1>7, <2>3, WasAt
    <3>2. local' = local  BY <1>5, <1>7, <2>3, <3>1, BranchMoves
    <3> QED  BY <1>1, <1>2, <2>1, <2>3, <3>1, <3>2 DEF SameTask
  <2>4. ASSUME ~overlapped', tasks'[t].stage = "done"  PROVE made'[t] \subseteq origin'.hist
    <3>1. Rests(t)  BY <1>7, NextTurns
    <3>2. /\ tasks[t].stage = "failed" => tasks[t].from \notin {"none", "done", "failed"}
          /\ tasks[t].stage = "merge" => tasks[t].kind = "review"
      BY DEF IInv, Staged, IsAt
    <3>3. tasks'[t] = tasks[t] \/ (SameTask(t) /\ From(t, "land") /\ To(t, "done"))
      BY <2>4, <3>1, <3>2 DEF Rests, IsPut, SameTask, Stumbles, Ends, From, To, FailsAt
    <3>4. CASE tasks'[t] = tasks[t]  BY <1>1, <1>2, <1>3, <2>1, <2>4, <3>4
    <3>5. CASE SameTask(t) /\ From(t, "land") /\ To(t, "done")
      <4>1. loop.at = "propose" /\ loop.task = t  BY <3>5, LandingEnds
      <4> QED  BY <1>1, <1>2, <1>3, <2>1, <2>4, <3>5, <4>1 DEF SameTask
    <3> QED  BY <3>3, <3>4, <3>5
  <2> QED  BY <2>2, <2>3, <2>4
<1> QED  BY <1>6, <1>7

\* What is proposed was pushed.
LEMMA NextProposes ==
    ASSUME IInv, [Next]_vars, loop'.at = "propose"
    PROVE  \/ /\ LandPush /\ loop.at = "push" /\ origin' = local
              /\ UNCHANGED <<tasks, made, overlapped>>
              /\ loop'.task = loop.task
           \/ loop' = loop
<1>1. loop \in Loops  BY TypeIs DEF IInv
<1>2. Free.at = "free"  BY DEF Free
<1>3. CASE LandPush
  <2>1. loop \in [at : {"push", "propose", "merged", "refused", "raised"}, task : Tasks]
    BY <1>1, <1>3 DEF Loops, LandPush
  <2>2. loop' # Free  BY <1>2
  <2>3. loop' = [loop EXCEPT !.at = "propose"] /\ Accepted  BY <1>3, <2>2 DEF LandPush
  <2>4. loop'.task = loop.task  BY <2>1, <2>3
  <2> QED  BY <1>3, <2>3, <2>4 DEF LandPush
<1>4. CASE BumpAdd
  <2>1. loop \in [at : {"bump", "clear"}, head : Commits, failing : BOOLEAN,
                  old : SUBSET Labels, fresh : Labels]
    BY <1>1, <1>4 DEF Loops, BumpAdd
  <2> QED  BY <1>4, <2>1 DEF BumpAdd
<1>5. CASE \E t \in Tasks : LandSync(t)  BY <1>5 DEF LandSync
<1>6. CASE \E t \in Tasks : MergeCall(t)  BY <1>6 DEF MergeCall
<1>7. CASE \E dirty, failing \in BOOLEAN : Triage(dirty, failing)  BY <1>7 DEF Triage
<1>8. \/ loop' = Free \/ loop' = loop \/ BumpAdd \/ LandPush
      \/ \E dirty, failing \in BOOLEAN : Triage(dirty, failing)
      \/ \E t \in Tasks : LandSync(t) \/ MergeCall(t)
  BY DEF Next, PersonPushes, BaseMoves, Rearm, Retry, UpdateBranch, GiveUp, BumpClear,
     TriageRaises, ScanClean, AttachFails, UnblockStart, UnblockDone, UnblockStuck,
     AgentRaises, ReviewStart, ReviewEnd, MergeSettles, LandPropose, LandRaises, Crash, vars
<1> QED  BY <1>2, <1>3, <1>4, <1>5, <1>6, <1>7, <1>8

LEMMA NextMadePushed ==
    ASSUME IInv, [Next]_vars
    PROVE  loop'.at = "propose" /\ ~overlapped' /\ tasks'[loop'.task].kind = "unblock" =>
              made'[loop'.task] \subseteq origin'.hist
<1> DEFINE t == loop'.task
<1> SUFFICES ASSUME loop'.at = "propose", ~overlapped', tasks'[t].kind = "unblock"
             PROVE  made'[t] \subseteq origin'.hist
  OBVIOUS
<1> HIDE DEF t
<1>1. TypeOK /\ loop \in Loops /\ tasks \in [Tasks -> TaskType]  BY TypeIs DEF IInv
<1>2. CASE /\ LandPush /\ loop.at = "push" /\ origin' = local
           /\ UNCHANGED <<tasks, made, overlapped>> /\ t = loop.task
  <2>1. t \in Tasks /\ tasks[t].stage = "land"
    BY <1>1, <1>2, LoopShape DEF IInv, Ticking
  <2> QED  BY <1>2, <2>1 DEF IInv, MadeKept, IsAt
<1>3. CASE loop' = loop
  <2>1. loop.at = "propose" /\ t = loop.task /\ t \in Tasks /\ loop # Free
    BY <1>1, <1>3, LoopShape DEF t
  <2>2. tasks[t].kind = "unblock" /\ made' = made
    <3>1. CASE UNCHANGED <<tasks, made>>  BY <3>1
    <3>2. ASSUME NEW u \in Tasks, Retry(u)  PROVE tasks[t].kind = "unblock" /\ made' = made
      <4>1. tasks' = Stage(u, tasks[u].from) /\ tasks[u].from \in Stages /\ made' = made
        BY <1>1, <3>2 DEF Retry, TaskType, observers
      <4> QED  BY <1>1, <2>1, <4>1, StageGoes DEF SameTask
    <3> QED  BY <1>3, <2>1, <3>1, <3>2, BusyLoop
  <2>3. ~overlapped /\ origin.hist \subseteq origin'.hist  BY BranchMoves, HeadGrows
  <2> QED  BY <2>1, <2>2, <2>3 DEF IInv, MadeKept
<1> QED  BY <1>2, <1>3, NextProposes DEF t

\* A reviewer is shown what is in the work tree as its step begins.
LEMMA NextRead ==
    ASSUME IInv, [Next]_vars
    PROVE  \A u \in Tasks : \/ read'[u] = read[u]
                            \/ ReviewStart(u) /\ read'[u] = AttachedTree(u).files
<1>1. read \in [Tasks -> SUBSET Changes]  BY TypeIs DEF IInv
<1>2. ASSUME NEW t \in Tasks, ReviewStart(t)
      PROVE  read' = [u \in Tasks |-> IF u = t THEN AttachedTree(t).files ELSE read[u]]
  BY <1>1, <1>2 DEF ReviewStart
<1>3. CASE ~(\E t \in Tasks : ReviewStart(t))
  <2>1. read' = read
    BY <1>3 DEF Next, PersonPushes, BaseMoves, Rearm, Retry, UpdateBranch, Triage,
       GiveUp, BumpAdd, BumpClear, TriageRaises, ScanClean, AttachFails, UnblockStart,
       UnblockDone, UnblockStuck, AgentRaises, ReviewEnd, MergeCall, MergeSettles, LandSync,
       LandPush, LandPropose, LandRaises, Crash, observers, vars
  <2> QED  BY <2>1
<1> QED  BY <1>2, <1>3

\* And that has all that GitHub's head has.
LEMMA AttachedHasAll ==
    ASSUME IInv, ~overlapped, NEW t \in Tasks, OnPr(t), ~Diverged(t),
           tasks[t].stage \notin {"none", "done"}
    PROVE  origin.tree \subseteq AttachedTree(t).files
<1>1. CASE trees[t].exists /\ ~IsAncestor(local, origin)
  <2>1. AttachedTree(t) = trees[t] /\ IsAncestor(origin, local) /\ Kept(t)
    BY <1>1 DEF AttachedTree, Diverged, Kept
  <2>2. origin.tree \subseteq pushed /\ pushed \subseteq local.tree
        /\ local.tree \subseteq trees[t].files
    BY <2>1 DEF IInv, GitHolds, Traced, Safe
  <2> QED  BY <2>1, <2>2
<1>2. CASE ~(trees[t].exists /\ ~IsAncestor(local, origin))
  <2>1. AttachedHead(t) = origin  BY <1>2 DEF AttachedHead
  <2>2. AttachedTree(t) = Clean(origin)  BY <1>2, <2>1 DEF AttachedTree
  <2> QED  BY <2>2 DEF Clean
<1> QED  BY <1>1, <1>2

\* A head that a task is pinned to was GitHub's head then: a new one has
\* another history.
LEMMA PinnedBefore ==
    ASSUME IInv, [Next]_vars, NEW t \in Tasks, tasks'[t].pin = tasks[t].pin, Pinned(t)'
    PROVE  Pinned(t) /\ origin' = origin
<1>1. origin'.hist = tasks[t].pin  BY DEF Pinned
<1>2. tasks[t].pin \subseteq origin.hist /\ next \notin origin.hist
  BY Fresh DEF IInv, Pins
<1>3. origin'.hist = origin.hist  BY <1>1, <1>2, HeadGrows
<1>4. origin' = origin \/ origin' = local  BY <1>1, <1>2, HeadGrows
<1>5. origin' = origin  BY <1>3, <1>4 DEF IInv, GitHolds, Told
<1> QED  BY <1>1, <1>5 DEF Pinned

LEMMA NextReadRight == ASSUME IInv, [Next]_vars PROVE ReadRight'
<1> SUFFICES ASSUME ~overlapped', NEW t \in Tasks, tasks'[t].kind = "review",
                    IsAt(t, "agent")' \/ IsAt(t, "merge")', Pinned(t)'
             PROVE  origin'.tree \subseteq read'[t]
  BY DEF ReadRight
<1>1. ~overlapped  BY BranchMoves
<1>2. CASE ReviewStart(t)
  <2>1. origin' = origin /\ read'[t] = AttachedTree(t).files
    <3>1. read \in [Tasks -> SUBSET Changes]  BY TypeIs DEF IInv
    <3> QED  BY <1>2, <3>1 DEF ReviewStart, remote
  <2>2. OnPr(t) /\ ~Diverged(t) /\ tasks[t].stage \notin {"none", "done"}
    BY <1>2 DEF ReviewStart, OnPr
  <2> QED  BY <1>1, <2>1, <2>2, AttachedHasAll
<1>3. CASE ~ReviewStart(t)
  <2>1. read'[t] = read[t]  BY <1>3, NextRead
  <2>2. (IsAt(t, "agent") \/ IsAt(t, "merge")) /\ SameTask(t)
    <3>1. CASE ~Acts(t)  BY <3>1, WasAt
    <3>2. CASE Acts(t)
      <4>1. tasks'[t].kind = tasks[t].kind  BY <3>2, ActsTurn DEF SameTask
      <4>2. ReviewEnd(t) \/ LandSync(t)
        BY <1>3, <3>2, <4>1 DEF Acts, UnblockStart, UnblockDone, UnblockStuck
      <4>3. CASE ReviewEnd(t)  BY <3>2, <4>3, ActsTurn DEF ReviewEnd, IsAt, SameTask
      <4>4. CASE LandSync(t)  BY <4>4 DEF LandSync, IsAt, SameTask
      <4> QED  BY <4>2, <4>3, <4>4
    <3> QED  BY <3>1, <3>2
  <2>3. Pinned(t) /\ origin' = origin  BY <2>2, PinnedBefore DEF SameTask
  <2>4. tasks[t].kind = "review"  BY <2>2 DEF SameTask
  <2> QED  BY <1>1, <2>1, <2>2, <2>3, <2>4 DEF IInv, ReadRight
<1> QED  BY <1>2, <1>3

-----------------------------------------------------------------------------
(* LabelsHold is inductive.                                                *)

LEMMA Tries ==
    ASSUME NEW S, IsFiniteSet(S), NEW h
    PROVE  /\ IsFiniteSet(S \cup {h}) /\ Cardinality(S) \in Nat
           /\ Cardinality(S \ {h}) \in Nat /\ Cardinality(S \cup {h}) \in Nat
           /\ Cardinality(S \ {h}) <= Cardinality(S)
           /\ Cardinality(S) <= Cardinality(S \ {h}) + 1
           /\ Cardinality(S) <= Cardinality(S \cup {h})
           /\ h \notin S => /\ Cardinality(S \cup {h}) = Cardinality(S) + 1
                            /\ S \ {h} = S
           /\ (S \cup {h}) \ {h} = S \ {h}
<1>1. IsFiniteSet(S \cup {h}) /\ Cardinality(S) \in Nat /\ Cardinality(S \cup {h}) \in Nat
  BY FS_AddElement, FS_CardinalityType
<1>2. Cardinality(S \cup {h}) = IF h \in S THEN Cardinality(S) ELSE Cardinality(S) + 1
  BY FS_AddElement
<1>3. IsFiniteSet(S \ {h})
      /\ Cardinality(S \ {h}) = IF h \in S THEN Cardinality(S) - 1 ELSE Cardinality(S)
  BY FS_RemoveElement
<1>4. Cardinality(S \ {h}) \in Nat  BY <1>3, FS_CardinalityType
<1> QED  BY <1>1, <1>2, <1>3, <1>4

LEMMA NewestExists ==
    ASSUME NEW labels, labels \subseteq Labels, labels # {}, Numbered(labels)
    PROVE  \E l : Newest(l, labels)
<1> DEFINE left == {MaxAttempts - l.n : l \in labels}
<1>1. \A l \in labels : l.n \in Nat /\ l.n <= MaxAttempts /\ MaxAttempts - l.n \in Nat
  BY PullRequestAssumption DEF Numbered, Labels
<1>2. left \subseteq Nat /\ left # {}  BY <1>1
<1>3. IsWellFoundedOn({ss \in Nat \X Nat : ss[1] < ss[2]}, Nat)
  BY NatLessThanWellFounded DEF OpToRel
<1> HIDE DEF left
<1>4. PICK m \in left : \A v \in left : <<v, m>> \notin {ss \in Nat \X Nat : ss[1] < ss[2]}
  BY <1>2, <1>3, WFMin
<1>5. PICK l \in labels : m = MaxAttempts - l.n  BY DEF left
<1>6. ASSUME NEW k \in labels  PROVE k.n <= l.n
  <2>1. MaxAttempts - k.n \in left  BY DEF left
  <2>2. MaxAttempts - k.n \in Nat /\ m \in Nat /\ ~(MaxAttempts - k.n < m)
    BY <1>1, <1>4, <1>5, <2>1
  <2> QED  BY <1>1, <1>5, <2>2, PullRequestAssumption
<1> QED  BY <1>6 DEF Newest

LEMMA SpentIs ==
    ASSUME NEW labels, labels \subseteq Labels, Numbered(labels)
    PROVE  /\ Spent(labels) \in Nat /\ Spent(labels) <= MaxAttempts
           /\ labels = {} => Spent(labels) = 0
           /\ labels # {} => \E l \in labels : Newest(l, labels) /\ Spent(labels) = l.n
           /\ \A l \in labels : l.n <= Spent(labels)
<1>1. CASE labels = {}  BY <1>1, PullRequestAssumption DEF Spent
<1>2. CASE labels # {}
  <2>1. PICK l : Newest(l, labels)  BY <1>2, NewestExists
  <2>2. l \in labels /\ l.n \in Nat /\ \A k \in labels : k.n \in Nat /\ k.n <= l.n
    BY <2>1 DEF Newest, Labels
  <2> DEFINE ns == {k.n : k \in labels}
             n == CHOOSE i \in ns : \A k \in labels : k.n <= i
  <2>3. \E i \in ns : \A k \in labels : k.n <= i  BY <2>2
  <2>4. n \in ns /\ \A k \in labels : k.n <= n  BY <2>3
  <2>5. Spent(labels) = n  BY <1>2 DEF Spent
  <2> HIDE DEF n
  <2>6. PICK m \in labels : n = m.n  BY <2>4
  <2>7. m.n <= l.n /\ l.n <= m.n  BY <2>2, <2>4, <2>6
  <2>8. n = l.n  BY <2>2, <2>6, <2>7
  <2> QED  BY <1>2, <2>1, <2>2, <2>5, <2>8 DEF Numbered
<1> QED  BY <1>1, <1>2

\* Two labels cannot be the newest.
LEMMA OneNewest ==
    ASSUME NEW labels, labels \subseteq Labels, Numbered(labels),
           NEW l, Newest(l, labels), NEW m, Newest(m, labels)
    PROVE  l = m
<1>1. l \in labels /\ m \in labels /\ l.n \in Nat /\ m.n \in Nat /\ l.n <= m.n /\ m.n <= l.n
  BY DEF Newest, Labels
<1>2. l.n = m.n  BY <1>1
<1> QED  BY <1>1, <1>2 DEF Numbered

\* A label with the highest count, added, is the newest.
LEMMA FreshIsNewest ==
    ASSUME NEW labels, labels \subseteq Labels, Numbered(labels),
           NEW fresh \in Labels, fresh.n <= MaxAttempts,
           \A l \in labels : l.n < fresh.n
    PROVE  /\ Numbered(labels \cup {fresh}) /\ Newest(fresh, labels \cup {fresh})
           /\ \A l : Newest(l, labels \cup {fresh}) => l = fresh
           /\ fresh \notin labels
<1>1. fresh.n \in Nat /\ \A l \in labels : l.n \in Nat  BY DEF Labels
<1>2. Numbered(labels \cup {fresh})  BY <1>1 DEF Numbered
<1>3. Newest(fresh, labels \cup {fresh})  BY <1>1 DEF Newest
<1>4. fresh \notin labels  BY <1>1
<1>5. ASSUME NEW l, Newest(l, labels \cup {fresh})  PROVE l = fresh
  BY <1>2, <1>3, <1>5, OneNewest
<1> QED  BY <1>2, <1>3, <1>4, <1>5

\* A step that leaves the labels and the tries alone.
LEMMA LabelsStay ==
    ASSUME IInv, NEW c \in Nat, NEW e \in Nat, crashes' = c, errors' = e,
           pr'.attempts = pr.attempts, UNCHANGED <<attempted, rearms>>,
           origin.hist \subseteq origin'.hist, crashes + errors <= c + e,
           \/ loop' = loop
           \/ /\ loop'.at \notin {"giveup", "bump", "clear"}
              /\ loop.at = "clear" => crashes + errors + 1 <= c + e,
           pr'.giveUp = "budget" => pr.giveUp = "budget" \/ loop.at = "giveup"
    PROVE  LabelsHold'
<1> DEFINE costs == crashes + errors
           costs1 == c + e
<1>1. crashes \in Nat /\ errors \in Nat /\ rearms \in Nat /\ costs \in Nat /\ costs1 \in Nat
  <2>1. crashes \in Nat /\ errors \in Nat /\ rearms \in Nat
    BY TypeIs DEF IInv, CountersTyped
  <2> QED  BY <2>1
<1>2. IsFiniteSet(attempted) /\ Cardinality(attempted) \in Nat
  BY FS_CardinalityType DEF IInv, LabelsHold, Counts
<1>3. Numbered(pr'.attempts) /\ Counts'
  BY DEF IInv, LabelsHold, Counts
<1>4. Slack \in Nat /\ Slack' \in Nat /\ Slack <= Slack'
  <2>1. Slack = costs + (IF loop.at = "clear" THEN 1 ELSE 0)  BY DEF Slack
  <2>2. Slack' = costs1 + (IF loop'.at = "clear" THEN 1 ELSE 0)  BY DEF Slack
  <2>3. CASE loop' = loop  BY <1>1, <2>1, <2>2, <2>3
  <2>4. CASE loop'.at # "clear" /\ (loop.at = "clear" => crashes + errors + 1 <= c + e)
    <3>1. Slack' = costs1  BY <1>1, <2>2, <2>4
    <3>2. CASE loop.at = "clear"
      <4>1. Slack = costs + 1  BY <2>1, <3>2
      <4> QED  BY <1>1, <2>4, <3>1, <3>2, <4>1
    <3>3. CASE loop.at # "clear"
      <4>1. Slack = costs  BY <1>1, <2>1, <3>3
      <4> QED  BY <1>1, <3>1, <4>1
    <3> QED  BY <3>2, <3>3
  <2> QED  BY <2>3, <2>4
<1>5. pr.attempts \subseteq Labels /\ MaxAttempts \in Nat
  BY TypeIs, PullRequestAssumption DEF IInv, PrTyped
<1>6. Spends'
  <2>1. ASSUME rearms = 0, NEW l \in pr.attempts  PROVE l.n <= Cardinality(attempted) + Slack'
    <3>1. l.n <= Cardinality(attempted) + Slack  BY <2>1 DEF IInv, LabelsHold, Spends
    <3>2. l.n \in Nat  BY <1>5 DEF Labels
    <3> QED  BY <1>2, <1>4, <3>1, <3>2
  <2>2. ASSUME rearms = 0, loop'.at = "giveup" \/ pr'.giveUp = "budget"
        PROVE  Cardinality(attempted) + c + e >= MaxAttempts
    <3>1. Cardinality(attempted) + crashes + errors >= MaxAttempts
      BY <2>2 DEF IInv, LabelsHold, Spends
    <3>2. Cardinality(attempted) + costs >= MaxAttempts  BY <1>1, <1>2, <1>5, <3>1
    <3>3. Cardinality(attempted) + costs1 >= MaxAttempts  BY <1>1, <1>2, <1>5, <3>2
    <3> QED  BY <1>1, <1>2, <1>5, <3>3
  <2> QED  BY <2>1, <2>2 DEF Spends
<1>7. Bumps'
  <2>1. CASE loop'.at \notin {"giveup", "bump", "clear"}  BY <2>1 DEF Bumps
  <2>2. CASE loop' = loop
    <3>1. ASSUME loop.at = "bump", rearms = 0
          PROVE  loop.fresh.n <= Cardinality(attempted) + c + e + 1
      <4>1. loop.fresh.n <= Cardinality(attempted) + crashes + errors + 1
        BY <3>1 DEF IInv, LabelsHold, Bumps
      <4>2. loop.fresh.n \in Nat
        <5>1. loop \in Loops  BY TypeIs DEF IInv
        <5> QED  BY <3>1, <5>1, LoopShape DEF Labels
      <4> QED  BY <1>1, <1>2, <4>1, <4>2
    <3> QED  BY <2>2, <3>1 DEF IInv, LabelsHold, Bumps
  <2> QED  BY <2>1, <2>2
<1> QED  BY <1>3, <1>6, <1>7 DEF LabelsHold

\* No labels, and nothing tried: a pull request that is new, or taken up again.
LEMMA LabelsGone ==
    ASSUME IInv, pr'.attempts = {}, pr'.giveUp = "no", attempted' = {},
           \/ loop'.at \notin {"giveup", "bump", "clear"}
           \/ loop' = loop /\ rearms' > 0 /\ rearms' \in Nat
    PROVE  LabelsHold'
<1>1. IsFiniteSet({}) /\ Cardinality({}) = 0  BY FS_EmptySet
<1>2. Numbered(pr'.attempts) /\ Counts'  BY <1>1 DEF Numbered, Counts
<1>3. Spends'  BY DEF Spends
<1>4. Bumps'
  <2>1. CASE loop'.at \notin {"giveup", "bump", "clear"}  BY <2>1 DEF Bumps
  <2>2. CASE loop' = loop /\ rearms' > 0 /\ rearms' \in Nat
    <3>1. loop.at \in {"bump", "clear"} =>
             /\ loop.fresh.n <= MaxAttempts /\ loop.fresh.head = loop.head.hist
             /\ \A l \in loop.old : l.n < loop.fresh.n
      BY DEF IInv, LabelsHold, Bumps
    <3>2. loop.at \in {"bump", "clear"} => loop.fresh.n \in Nat \ {0}
      <4>1. loop \in Loops  BY TypeIs DEF IInv
      <4> QED  BY <4>1, LoopShape DEF Labels
    <3>3. loop.at = "bump" => Cardinality({}) + 1 <= loop.fresh.n  BY <1>1, <3>2
    <3>4. rearms' # 0  BY <2>2
    <3> QED  BY <2>2, <3>1, <3>3, <3>4 DEF Bumps
  <2> QED  BY <2>1, <2>2
<1> QED  BY <1>2, <1>3, <1>4 DEF LabelsHold

\* What the labels say of the tries when the loop is free.
LEMMA LabelFacts ==
    ASSUME IInv
    PROVE  /\ pr.attempts \subseteq Labels /\ Numbered(pr.attempts)
           /\ IsFiniteSet(attempted) /\ Cardinality(attempted) \in Nat
           /\ pr.attempts = {} => attempted = {} /\ Cardinality(attempted) = 0
           /\ crashes \in Nat /\ errors \in Nat /\ rearms \in Nat
           /\ MaxAttempts \in Nat \ {0} /\ origin.hist \subseteq Changes
           /\ loop.at \in {"bump", "clear"} =>
                 /\ loop.fresh \in Labels /\ loop.old \subseteq Labels
                 /\ loop.fresh.n \in Nat \ {0} /\ loop.head.hist \subseteq origin.hist
<1>1. TypeOK /\ loop \in Loops /\ origin \in Commits  BY TypeIs DEF IInv
<1>2. pr.attempts \subseteq Labels  BY <1>1, TypeIs DEF PrTyped
<1>3. crashes \in Nat /\ errors \in Nat /\ rearms \in Nat  BY <1>1, TypeIs DEF CountersTyped
<1>4. /\ Numbered(pr.attempts) /\ IsFiniteSet(attempted) /\ Cardinality(attempted) \in Nat
      /\ pr.attempts = {} => attempted = {}
  BY FS_CardinalityType DEF IInv, LabelsHold, Counts
<1>5. Cardinality({}) = 0  BY FS_EmptySet
<1>6. loop.at \in {"bump", "clear"} =>
         /\ loop.fresh \in Labels /\ loop.old \subseteq Labels
         /\ loop.fresh.n \in Nat \ {0} /\ loop.head.hist \subseteq origin.hist
  BY <1>1, LoopShape DEF Labels, IInv, Pins
<1>7. origin.hist \subseteq Changes  BY <1>1 DEF Commits
<1> QED  BY <1>2, <1>3, <1>4, <1>5, <1>6, <1>7, PullRequestAssumption

LEMMA TriageLabels ==
    ASSUME IInv, NEW dirty \in BOOLEAN, NEW failing \in BOOLEAN, Triage(dirty, failing)
    PROVE  LabelsHold'
<1> DEFINE labels == pr.attempts
           tries == Cardinality(attempted)
           costs == crashes + errors
<1>1. /\ labels \subseteq Labels /\ Numbered(labels) /\ IsFiniteSet(attempted)
      /\ labels = {} => attempted = {} /\ tries = 0
      /\ crashes \in Nat /\ errors \in Nat /\ costs \in Nat /\ tries \in Nat
      /\ MaxAttempts \in Nat \ {0}
  BY LabelFacts
<1>2. PICK spent \in Nat :
         /\ spent = Spent(labels) /\ spent <= MaxAttempts
         /\ labels = {} => spent = 0
         /\ labels # {} => \E l \in labels : Newest(l, labels) /\ spent = l.n
         /\ \A l \in labels : l.n <= spent
  BY <1>1, SpentIs
<1>3. /\ loop.at = "free" /\ pr.giveUp = "no"
      /\ UNCHANGED <<origin, pr, rearms, crashes, errors>>
  BY DEF Triage, Listed, Free, remote, counters
<1>4. \A l \in labels : Newest(l, labels) =>
         /\ \A h \in attempted : h \subseteq l.head
         /\ Cardinality(attempted \ {l.head}) + 1 <= l.n
         /\ l.head \subseteq origin.hist /\ l.n = spent
  <2>1. ASSUME NEW l \in labels, Newest(l, labels)
        PROVE  /\ \A h \in attempted : h \subseteq l.head
               /\ Cardinality(attempted \ {l.head}) + 1 <= l.n
               /\ l.head \subseteq origin.hist
    BY <2>1 DEF IInv, LabelsHold, Counts
  <2>2. ASSUME NEW l \in labels, Newest(l, labels)  PROVE l.n = spent
    BY <1>1, <1>2, <2>2, OneNewest
  <2> QED  BY <2>1, <2>2
<1>5. rearms = 0 => \A l \in labels : l.n <= tries + costs
  <2>1. Slack = costs  BY <1>1, <1>3 DEF Slack
  <2> QED  BY <1>1, <2>1 DEF IInv, LabelsHold, Spends
<1>6. IsFresh(labels, origin) <=> \A l \in labels : l.n = spent => l.head # origin.hist
  BY <1>2 DEF IsFresh
<1>7. Attempt(labels, origin) = IF IsFresh(labels, origin) THEN spent + 1 ELSE spent
  BY <1>2 DEF Attempt
<1>8. CASE OverBudget(Attempt(labels, origin))
  <2>1. loop' = [at |-> "giveup"] /\ attempted' = attempted  BY <1>8 DEF Triage
  <2>2. Numbered(pr'.attempts) /\ Counts'
    BY <1>3, <2>1 DEF IInv, LabelsHold, Counts
  <2>3. spent = MaxAttempts  BY <1>1, <1>2, <1>7, <1>8 DEF OverBudget
  <2>4. rearms = 0 => MaxAttempts <= tries + costs
    <3>1. PICK l \in labels : spent = l.n  BY <1>1, <1>2, <2>3
    <3> QED  BY <1>5, <2>3, <3>1
  <2>5. rearms = 0 => tries + crashes + errors >= MaxAttempts  BY <1>1, <2>4
  <2>6. Slack' = crashes + errors  BY <1>1, <1>3, <2>1 DEF Slack
  <2>7. Spends'  BY <1>3, <1>5, <2>1, <2>5, <2>6 DEF Spends
  <2>8. Bumps'  BY <2>1 DEF Bumps
  <2> QED  BY <2>2, <2>7, <2>8 DEF LabelsHold
<1>9. CASE ~OverBudget(Attempt(labels, origin)) /\ IsFresh(labels, origin)
  <2> DEFINE fresh == [n |-> spent + 1, head |-> origin.hist]
  <2>1. loop' = [at |-> "bump", head |-> origin, failing |-> failing,
                 old |-> labels, fresh |-> fresh] /\ attempted' = attempted
    BY <1>7, <1>9 DEF Triage
  <2>2. fresh.n = spent + 1 /\ fresh.head = origin.hist  OBVIOUS
  <2> HIDE DEF fresh
  <2>3. Numbered(pr'.attempts) /\ Counts'
    BY <1>3, <2>1 DEF IInv, LabelsHold, Counts
  <2>4. Slack' = crashes + errors  BY <1>1, <1>3, <2>1 DEF Slack
  <2>5. Spends'  BY <1>3, <1>5, <2>1, <2>4 DEF Spends
  <2>6. fresh.n <= MaxAttempts  BY <1>1, <1>2, <1>7, <1>9, <2>2 DEF OverBudget
  <2>7. /\ origin.hist \notin attempted /\ \A h \in attempted : h \subseteq origin.hist
        /\ tries <= spent
    <3>1. CASE labels = {}  BY <1>1, <1>2, <3>1
    <3>2. CASE labels # {}
      <4>1. PICK l \in labels : Newest(l, labels) /\ spent = l.n  BY <1>2, <3>2
      <4>2. /\ l.head # origin.hist /\ l.head \subseteq origin.hist
            /\ \A h \in attempted : h \subseteq l.head
            /\ Cardinality(attempted \ {l.head}) + 1 <= spent
        BY <1>4, <1>6, <1>9, <4>1
      <4>3. tries <= Cardinality(attempted \ {l.head}) + 1
            /\ Cardinality(attempted \ {l.head}) \in Nat
        BY <1>1, Tries
      <4>4. \A h \in attempted : h \subseteq origin.hist  BY <4>2
      <4>5. origin.hist \notin attempted
        <5>1. origin.hist \in attempted => origin.hist \subseteq l.head  BY <4>2
        <5>2. ~(origin.hist \subseteq l.head)  BY <4>2
        <5> QED  BY <5>1, <5>2
      <4>6. tries <= spent  BY <1>1, <1>2, <4>2, <4>3
      <4> QED  BY <4>4, <4>5, <4>6
    <3> QED  BY <3>1, <3>2
  <2>8. \A l \in labels : l.n < fresh.n
    <3>1. \A l \in labels : l.n \in Nat  BY <1>1 DEF Labels
    <3> QED  BY <1>2, <2>2, <3>1
  <2>9. tries + 1 <= fresh.n  BY <1>1, <1>2, <2>2, <2>7
  <2>10. rearms = 0 => fresh.n <= tries + crashes + errors + 1
    <3>1. CASE labels = {}
      <4>1. fresh.n = 1  BY <1>2, <2>2, <3>1
      <4>2. 1 <= tries + crashes + errors + 1  BY <1>1
      <4> QED  BY <4>1, <4>2
    <3>2. CASE labels # {}
      <4>1. PICK l \in labels : spent = l.n  BY <1>2, <3>2
      <4>2. rearms = 0 => spent <= tries + costs  BY <1>5, <4>1
      <4> QED  BY <1>1, <1>2, <2>2, <4>2
    <3> QED  BY <3>1, <3>2
  <2>11. Bumps'  BY <1>3, <2>1, <2>2, <2>6, <2>7, <2>8, <2>9, <2>10 DEF Bumps
  <2> QED  BY <2>3, <2>5, <2>11 DEF LabelsHold
<1>10. CASE ~OverBudget(Attempt(labels, origin)) /\ ~IsFresh(labels, origin)
  <2>1. loop' = loop /\ attempted' = attempted \cup {origin.hist}  BY <1>10 DEF Triage
  <2>2. PICK l \in labels : l.n = spent /\ l.head = origin.hist  BY <1>6, <1>10
  <2>3. Newest(l, labels)  BY <1>2, <2>2 DEF Newest
  <2>4. /\ \A h \in attempted : h \subseteq origin.hist
        /\ Cardinality(attempted \ {origin.hist}) + 1 <= l.n
    BY <1>4, <2>2, <2>3
  <2>5. /\ IsFiniteSet(attempted') /\ Cardinality(attempted') \in Nat
        /\ tries <= Cardinality(attempted')
        /\ attempted' \ {origin.hist} = attempted \ {origin.hist}
    BY <1>1, <2>1, Tries
  <2>6. \A m : Newest(m, labels) => m = l  BY <1>1, <2>3, OneNewest
  <2>7. Counts'
    <3>1. \A m \in labels : m.head \subseteq origin.hist  BY DEF IInv, LabelsHold, Counts
    <3> QED  BY <1>3, <2>1, <2>2, <2>4, <2>5, <2>6, <3>1 DEF Counts
  <2>8. Slack' = crashes + errors  BY <1>1, <1>3, <2>1 DEF Slack
  <2>9. rearms = 0 => \A m \in labels : m.n <= Cardinality(attempted') + costs
    <3>1. \A m \in labels : m.n \in Nat  BY <1>1 DEF Labels
    <3> QED  BY <1>1, <1>5, <2>5, <3>1
  <2>10. Spends'  BY <1>3, <2>1, <2>8, <2>9 DEF Spends
  <2>11. Bumps'  BY <1>3, <2>1 DEF Bumps
  <2>12. Numbered(pr'.attempts)  BY <1>1, <1>3
  <2> QED  BY <2>7, <2>10, <2>11, <2>12 DEF LabelsHold
<1> QED  BY <1>8, <1>9, <1>10

\* The new label is on the pull request; its head is not yet tried.
LEMMA FreshAdds ==
    ASSUME IInv, loop.at = "bump", pr'.attempts = pr.attempts \cup {loop.fresh},
           UNCHANGED <<origin, attempted, rearms>>, pr'.giveUp = pr.giveUp,
           NEW e \in Nat, crashes' = crashes, errors' = e, errors <= e,
           Slack' = crashes + errors + 1, loop'.at # "giveup"
    PROVE  Numbered(pr'.attempts) /\ Counts' /\ Spends'
<1> DEFINE labels == pr.attempts
           tries == Cardinality(attempted)
<1>1. /\ labels \subseteq Labels /\ Numbered(labels) /\ IsFiniteSet(attempted)
      /\ crashes \in Nat /\ errors \in Nat /\ tries \in Nat /\ MaxAttempts \in Nat
      /\ loop.fresh \in Labels /\ loop.head.hist \subseteq origin.hist
  BY LabelFacts
<1>2. PICK fresh \in Labels : fresh = loop.fresh  BY <1>1
<1>3. /\ fresh.n <= MaxAttempts /\ fresh.head \subseteq origin.hist /\ fresh.n \in Nat
      /\ fresh.head \notin attempted /\ \A h \in attempted : h \subseteq fresh.head
      /\ \A l \in loop.old : l.n < fresh.n
      /\ labels = loop.old \/ labels = {}
      /\ tries + 1 <= fresh.n
      /\ rearms = 0 => fresh.n <= tries + crashes + errors + 1
  BY <1>1, <1>2 DEF IInv, LabelsHold, Bumps, Labels
<1>4. /\ Numbered(labels \cup {fresh})
      /\ \A l : Newest(l, labels \cup {fresh}) => l = fresh
  BY <1>1, <1>3, FreshIsNewest
<1>5. Numbered(pr'.attempts)  BY <1>2, <1>4
<1>6. Counts'
  <2>1. attempted \ {fresh.head} = attempted  BY <1>3
  <2>2. \A l \in labels : l.head \subseteq origin.hist  BY DEF IInv, LabelsHold, Counts
  <2>3. pr'.attempts = labels \cup {fresh}  BY <1>2
  <2> QED  BY <1>1, <1>3, <1>4, <2>1, <2>2, <2>3 DEF Counts
<1>7. Spends'
  <2>1. ASSUME rearms = 0
        PROVE  \A l \in labels \cup {fresh} : l.n <= tries + (crashes + errors + 1)
    <3>1. \A l \in labels : l.n <= tries + Slack  BY <2>1 DEF IInv, LabelsHold, Spends
    <3>2. Slack = crashes + errors  BY <1>1 DEF Slack
    <3>3. \A l \in labels : l.n \in Nat /\ l.n <= tries + (crashes + errors)
      BY <1>1, <3>1, <3>2 DEF Labels
    <3>4. fresh.n <= tries + (crashes + errors + 1)  BY <1>1, <1>3, <2>1
    <3> QED  BY <1>1, <3>3, <3>4
  <2>2. ASSUME rearms = 0, pr.giveUp = "budget"  PROVE tries + crashes + e >= MaxAttempts
    <3>1. tries + crashes + errors >= MaxAttempts  BY <2>2 DEF IInv, LabelsHold, Spends
    <3> QED  BY <1>1, <3>1
  <2> QED  BY <1>2, <2>1, <2>2 DEF Spends
<1> QED  BY <1>5, <1>6, <1>7

LEMMA BumpAddLabels == ASSUME IInv, BumpAdd PROVE LabelsHold'
<1>1. /\ crashes \in Nat /\ errors \in Nat /\ rearms \in Nat
      /\ loop \in Loops /\ pr.attempts \subseteq Labels
      /\ loop.at = "bump"
  BY LabelFacts, TypeIs DEF IInv, BumpAdd
<1>2. loop \in [at : {"bump", "clear"}, head : Commits, failing : BOOLEAN,
                old : SUBSET Labels, fresh : Labels]
  BY <1>1 DEF Loops
<1>3. /\ loop'.at = "clear" /\ loop'.fresh = loop.fresh /\ loop'.old = loop.old
      /\ loop'.head = loop.head
  BY <1>2 DEF BumpAdd
<1>4. pr \in [state : {"none", "open", "merged"}, target : Targets,
              attempts : {pr.attempts}, giveUp : {"no", "budget", "stuck"}]
  BY TypeIs DEF IInv, PrTyped
<1>5. pr'.attempts = pr.attempts \cup {loop.fresh} /\ pr'.giveUp = pr.giveUp
  BY <1>4 DEF BumpAdd
<1>6. UNCHANGED <<origin, attempted, rearms, crashes, errors>>
  BY DEF BumpAdd, counters, observers
<1>7. Slack' = crashes + errors + 1  BY <1>3, <1>6 DEF Slack
<1>8. Numbered(pr'.attempts) /\ Counts' /\ Spends'
  <2>1. PICK e \in Nat : e = errors  BY <1>1
  <2>2. errors' = e /\ errors <= e /\ crashes' = crashes  BY <1>6, <2>1
  <2>3. loop'.at # "giveup"  BY <1>3
  <2> QED  BY <1>1, <1>5, <1>6, <1>7, <2>2, <2>3, FreshAdds
<1>9. Bumps'
  <2>1. /\ loop.fresh.n <= MaxAttempts /\ loop.fresh.head = loop.head.hist
        /\ loop.fresh.head \notin attempted
        /\ \A h \in attempted : h \subseteq loop.fresh.head
        /\ \A l \in loop.old : l.n < loop.fresh.n
        /\ pr.attempts = loop.old \/ (pr.attempts = {} /\ rearms > 0)
    BY <1>1 DEF IInv, LabelsHold, Bumps
  <2> QED  BY <1>3, <1>5, <1>6, <2>1 DEF Bumps
<1> QED  BY <1>8, <1>9 DEF LabelsHold

\* After the new label, before all of the old ones are gone.
LEMMA ClearFacts ==
    ASSUME IInv, loop.at = "clear", NEW gone, gone \subseteq loop.old
    PROVE  /\ loop.fresh \notin gone /\ loop.fresh \in Labels /\ loop.fresh.n \in Nat
           /\ loop.fresh.n <= MaxAttempts /\ loop.fresh.head \notin attempted
           /\ loop.fresh.head \subseteq origin.hist
           /\ \A h \in attempted : h \subseteq loop.fresh.head
           /\ \A l : Newest(l, pr.attempts \ gone) => l = loop.fresh
           /\ loop.fresh \in pr.attempts => Cardinality(attempted) + 1 <= loop.fresh.n
           /\ loop.fresh \notin pr.attempts =>
                 pr.attempts = {} /\ attempted = {} /\ rearms > 0
           /\ Numbered(pr.attempts \ gone)
<1> DEFINE labels == pr.attempts
<1>1. /\ labels \subseteq Labels /\ Numbered(labels) /\ IsFiniteSet(attempted)
      /\ loop.fresh \in Labels /\ loop.old \subseteq Labels /\ MaxAttempts \in Nat
      /\ loop.head.hist \subseteq origin.hist
      /\ labels = {} => attempted = {}
  BY LabelFacts
<1>2. PICK fresh \in Labels : fresh = loop.fresh  BY <1>1
<1>3. /\ fresh.n <= MaxAttempts /\ fresh.head = loop.head.hist /\ fresh.n \in Nat
      /\ fresh.head \notin attempted
      /\ \A h \in attempted : h \subseteq fresh.head
      /\ \A l \in loop.old : l.n < fresh.n
      /\ \/ labels = loop.old \cup {fresh}
         \/ labels \subseteq {fresh} /\ rearms > 0
  BY <1>2 DEF IInv, LabelsHold, Bumps, Labels
<1>4. fresh \notin loop.old /\ fresh \notin gone  BY <1>3
<1>5. \A l \in labels : l = fresh \/ l.n < fresh.n  BY <1>3
<1>6. fresh \notin labels => labels = {} /\ rearms > 0  BY <1>3
<1>7. ASSUME NEW l, Newest(l, labels \ gone)  PROVE l = fresh
  <2>1. l \in labels /\ fresh \in labels  BY <1>6, <1>7 DEF Newest
  <2>2. fresh.n <= l.n /\ l.n \in Nat  BY <1>1, <1>4, <1>7, <2>1 DEF Newest, Labels
  <2> QED  BY <1>3, <1>5, <2>1, <2>2
<1>8. fresh \in labels => Cardinality(attempted) + 1 <= fresh.n
  <2>1. fresh \in labels => Newest(fresh, labels)
    <3>1. \A l \in labels : l.n \in Nat  BY <1>1 DEF Labels
    <3> QED  BY <1>3, <1>5, <3>1 DEF Newest
  <2>2. attempted \ {fresh.head} = attempted  BY <1>3
  <2> QED  BY <2>1, <2>2 DEF IInv, LabelsHold, Counts
<1>9. Numbered(labels \ gone)  BY <1>1 DEF Numbered
<1> QED  BY <1>1, <1>2, <1>3, <1>4, <1>6, <1>7, <1>8, <1>9

LEMMA BumpClearLabels == ASSUME IInv, BumpClear PROVE LabelsHold'
<1> DEFINE labels == pr.attempts
           tries == Cardinality(attempted)
<1>1. /\ labels \subseteq Labels /\ IsFiniteSet(attempted)
      /\ crashes \in Nat /\ errors \in Nat /\ tries \in Nat /\ MaxAttempts \in Nat
      /\ loop.at = "clear"
  BY LabelFacts DEF BumpClear
<1>2. PICK fresh : fresh = loop.fresh  OBVIOUS
<1>3. /\ fresh \notin loop.old /\ fresh \in Labels /\ fresh.n \in Nat
      /\ fresh.head \notin attempted /\ fresh.head \subseteq origin.hist
      /\ \A h \in attempted : h \subseteq fresh.head
      /\ \A l : Newest(l, labels \ loop.old) => l = fresh
      /\ fresh \in labels => tries + 1 <= fresh.n
      /\ fresh \notin labels => labels = {} /\ attempted = {} /\ rearms > 0
      /\ Numbered(labels \ loop.old)
  BY <1>1, <1>2, ClearFacts
<1>4. /\ fresh.head = loop.head.hist
      /\ \/ labels = loop.old \cup {fresh}
         \/ labels \subseteq {fresh} /\ rearms > 0
  BY <1>1, <1>2 DEF IInv, LabelsHold, Bumps
<1>5. pr \in [state : {"none", "open", "merged"}, target : Targets,
              attempts : {pr.attempts}, giveUp : {"no", "budget", "stuck"}]
  BY TypeIs DEF IInv, PrTyped
<1>6. pr'.attempts = labels \ loop.old /\ pr'.giveUp = pr.giveUp
  BY <1>5 DEF BumpClear
<1>7. /\ UNCHANGED <<origin, rearms, crashes, errors>> /\ loop'.at = "free"
      /\ attempted' = IF fresh \in labels THEN attempted \cup {fresh.head} ELSE attempted
  BY <1>2, <1>4 DEF BumpClear, counters, Free
<1>8. fresh \in labels =>
         /\ IsFiniteSet(attempted') /\ Cardinality(attempted') = tries + 1
         /\ attempted' \ {fresh.head} = attempted
  BY <1>1, <1>3, <1>7, Tries
<1>9. Numbered(pr'.attempts)  BY <1>3, <1>6
<1>10. Counts'
  <2>1. CASE fresh \in labels
    <3>1. pr'.attempts # {}  BY <1>3, <1>6, <2>1
    <3>2. \A h \in attempted' : h \subseteq fresh.head  BY <1>3, <1>7, <2>1
    <3>3. Cardinality(attempted' \ {fresh.head}) + 1 <= fresh.n  BY <1>3, <1>8, <2>1
    <3>4. \A l \in labels : l.head \subseteq origin.hist  BY DEF IInv, LabelsHold, Counts
    <3> QED  BY <1>3, <1>6, <1>7, <1>8, <2>1, <3>1, <3>2, <3>3, <3>4 DEF Counts
  <2>2. CASE fresh \notin labels
    <3>1. pr'.attempts = {} /\ attempted' = {}  BY <1>3, <1>6, <1>7, <2>2
    <3> QED  BY <3>1, FS_EmptySet DEF Counts
  <2> QED  BY <2>1, <2>2
<1>11. Spends'
  <2>1. Slack = crashes + errors + 1 /\ Slack' = crashes + errors
    BY <1>1, <1>7 DEF Slack
  <2>2. ASSUME rearms = 0
        PROVE  \A l \in pr'.attempts : l.n <= Cardinality(attempted') + Slack'
    <3>1. labels = loop.old \cup {fresh} /\ fresh \in labels
      BY <1>4, <2>2
    <3>2. pr'.attempts = {fresh}  BY <1>3, <1>6, <3>1
    <3>3. fresh.n <= tries + Slack  BY <2>2, <3>1 DEF IInv, LabelsHold, Spends
    <3>4. fresh.n <= tries + 1 + (crashes + errors)  BY <1>1, <1>3, <2>1, <3>3
    <3>5. Cardinality(attempted') = tries + 1  BY <1>8, <3>1
    <3> QED  BY <2>1, <3>2, <3>4, <3>5
  <2>3. ASSUME rearms = 0, pr.giveUp = "budget"
        PROVE  Cardinality(attempted') + crashes + errors >= MaxAttempts
    <3>1. tries + crashes + errors >= MaxAttempts  BY <2>3 DEF IInv, LabelsHold, Spends
    <3>2. Cardinality(attempted') = tries + 1  BY <1>4, <1>8, <2>3
    <3>3. tries + 1 + crashes + errors >= MaxAttempts  BY <1>1, <3>1
    <3> QED  BY <3>2, <3>3
  <2>4. loop'.at # "giveup"  BY <1>7
  <2> QED  BY <1>6, <1>7, <2>2, <2>3, <2>4 DEF Spends
<1>12. Bumps'  BY <1>7 DEF Bumps
<1> QED  BY <1>9, <1>10, <1>11, <1>12 DEF LabelsHold

\* A label could not be removed, and some of the old ones are left.
LEMMA ClearRaisesLabels ==
    ASSUME IInv, loop.at = "clear", NEW gone, gone \subseteq loop.old,
           pr'.attempts = pr.attempts \ gone, pr'.giveUp = pr.giveUp, loop'.at = "free",
           UNCHANGED <<origin, attempted, rearms, crashes>>, errors' = errors + 1
    PROVE  LabelsHold'
<1> DEFINE labels == pr.attempts
           tries == Cardinality(attempted)
<1>1. /\ labels \subseteq Labels /\ IsFiniteSet(attempted)
      /\ crashes \in Nat /\ errors \in Nat /\ tries \in Nat /\ MaxAttempts \in Nat
  BY LabelFacts
<1>2. /\ loop.fresh \notin gone
      /\ \A l : Newest(l, labels \ gone) => l = loop.fresh
      /\ \A h \in attempted : h \subseteq loop.fresh.head
      /\ loop.fresh.head \notin attempted
      /\ loop.fresh \in labels => tries + 1 <= loop.fresh.n
      /\ loop.fresh \notin labels => attempted = {}
      /\ Numbered(labels \ gone)
  BY ClearFacts
<1>3. Numbered(pr'.attempts)  BY <1>2
<1>4. Counts'
  <2>1. \A l \in labels : l.head \subseteq origin.hist  BY DEF IInv, LabelsHold, Counts
  <2>2. attempted \ {loop.fresh.head} = attempted  BY <1>2
  <2>3. pr'.attempts = {} => attempted = {}  BY <1>2
  <2>4. \A l \in labels \ gone : Newest(l, labels \ gone) => l = loop.fresh /\ loop.fresh \in labels
    BY <1>2
  <2> QED  BY <1>1, <1>2, <2>1, <2>2, <2>3, <2>4 DEF Counts
<1>5. Spends'
  <2>1. Slack = crashes + errors + 1  BY <1>1 DEF Slack
  <2>2. Slack' = crashes + errors + 1  BY <1>1 DEF Slack
  <2>3. ASSUME rearms = 0, pr.giveUp = "budget"
        PROVE  tries + crashes + (errors + 1) >= MaxAttempts
    <3>1. tries + crashes + errors >= MaxAttempts  BY <2>3 DEF IInv, LabelsHold, Spends
    <3> QED  BY <1>1, <3>1
  <2>4. rearms = 0 => \A l \in labels \ gone : l.n <= tries + (crashes + errors + 1)
    BY <2>1 DEF IInv, LabelsHold, Spends
  <2> QED  BY <2>2, <2>3, <2>4 DEF Spends
<1>6. Bumps'  BY DEF Bumps
<1> QED  BY <1>3, <1>4, <1>5, <1>6 DEF LabelsHold

LEMMA NextLabels == ASSUME IInv, [Next]_vars PROVE LabelsHold'
<1>1. /\ crashes \in Nat /\ errors \in Nat /\ rearms \in Nat /\ crashes + errors \in Nat
      /\ loop \in Loops
  BY LabelFacts, TypeIs DEF IInv
<1>2. pr \in [state : {"none", "open", "merged"}, target : Targets,
              attempts : {pr.attempts}, giveUp : {"no", "budget", "stuck"}]
  BY TypeIs DEF IInv, PrTyped
<1>3. origin.hist \subseteq origin'.hist  BY HeadGrows
<1>4. Free.at = "free"  BY DEF Free
<1>5. ASSUME UNCHANGED <<attempted, rearms>>, crashes' = crashes,
             errors' = errors \/ errors' = errors + 1,
             pr'.attempts = pr.attempts,
             pr'.giveUp = "budget" => pr.giveUp = "budget" \/ loop.at = "giveup",
             \/ loop' = loop
             \/ /\ loop'.at \notin {"giveup", "bump", "clear"}
                /\ loop.at # "clear"
      PROVE  LabelsHold'
  <2>1. PICK c \in Nat : c = crashes  BY <1>1
  <2>2. PICK e \in Nat : errors' = e /\ (e = errors \/ e = errors + 1)
    <3>1. errors + 1 \in Nat  BY <1>1
    <3> QED  BY <1>1, <1>5, <3>1
  <2>3. crashes + errors <= c + e  BY <1>1, <2>1, <2>2
  <2>4. crashes' = c /\ errors' = e  BY <1>5, <2>1, <2>2
  <2> QED  BY <1>3, <1>5, <2>3, <2>4, LabelsStay
<1>6. CASE Crash
  <2>1. PICK c \in Nat : c = crashes + 1  BY <1>1
  <2>2. PICK e \in Nat : e = errors  BY <1>1
  <2>3. crashes' = c /\ errors' = e /\ UNCHANGED <<attempted, rearms, pr>> /\ loop' = Free
    BY <1>6, <2>1, <2>2 DEF Crash, remote, observers
  <2>4. crashes + errors <= c + e /\ crashes + errors + 1 <= c + e  BY <1>1, <2>1, <2>2
  <2> QED  BY <1>3, <1>4, <2>3, <2>4, LabelsStay
<1>7. CASE UNCHANGED vars  BY <1>5, <1>7 DEF vars, remote, counters, observers
<1>8. CASE PersonPushes \/ UpdateBranch \/ ScanClean \/ \E b \in Targets : BaseMoves(b)
  <2>1. UNCHANGED <<attempted, rearms, crashes, errors, pr, loop>>
    BY <1>8 DEF PersonPushes, UpdateBranch, ScanClean, BaseMoves, remote, counters, observers
  <2> QED  BY <1>5, <2>1
<1>9. CASE Rearm
  <2>1. /\ pr'.attempts = {} /\ pr'.giveUp = "no" /\ attempted' = {} /\ loop' = loop
        /\ rearms' = rearms + 1
    BY <1>2, <1>9 DEF Rearm
  <2>2. rearms' > 0 /\ rearms' \in Nat  BY <1>1, <2>1
  <2> QED  BY <2>1, <2>2, LabelsGone
<1>10. CASE \E t \in Tasks : \/ Retry(t) \/ AttachFails(t) \/ UnblockStart(t) \/ UnblockDone(t)
                             \/ ReviewStart(t) \/ ReviewEnd(t)
  <2>1. UNCHANGED <<attempted, rearms, crashes, errors, pr, loop>>
    BY <1>10 DEF Retry, AttachFails, UnblockStart, UnblockDone, ReviewStart, ReviewEnd,
       remote, counters, observers
  <2> QED  BY <1>5, <2>1
<1>11. ASSUME NEW t \in Tasks, AgentRaises(t)  PROVE LabelsHold'
  <2>1. UNCHANGED <<attempted, rearms, crashes, pr, loop>> /\ errors' = errors + 1
    BY <1>11 DEF AgentRaises, remote, observers
  <2> QED  BY <1>5, <2>1
<1>12. ASSUME NEW t \in Tasks, UnblockStuck(t)  PROVE LabelsHold'
  <2>1. /\ UNCHANGED <<attempted, rearms, crashes, loop>>
        /\ errors' = errors \/ errors' = errors + 1
        /\ pr' = pr \/ pr' = [pr EXCEPT !.giveUp = "stuck"]
    BY <1>12 DEF UnblockStuck
  <2>2. pr'.attempts = pr.attempts /\ (pr'.giveUp = pr.giveUp \/ pr'.giveUp = "stuck")
    BY <1>2, <2>1
  <2> QED  BY <1>5, <2>1, <2>2
<1>13. ASSUME NEW t \in Tasks, LandSync(t)  PROVE LabelsHold'
  <2>1. /\ UNCHANGED <<attempted, rearms, crashes, errors, pr>> /\ loop = Free
        /\ loop'.at = "push"
    BY <1>13 DEF LandSync, remote, counters
  <2> QED  BY <1>4, <1>5, <2>1
<1>14. ASSUME NEW t \in Tasks, MergeCall(t)  PROVE LabelsHold'
  <2>1. /\ UNCHANGED <<attempted, rearms, crashes>> /\ loop = Free
        /\ errors' = errors \/ errors' = errors + 1
        /\ loop'.at \in {"merged", "refused", "raised"}
        /\ pr' = pr \/ pr' = [pr EXCEPT !.state = "merged"]
    BY <1>14 DEF MergeCall, observers
  <2>2. pr'.attempts = pr.attempts /\ pr'.giveUp = pr.giveUp  BY <1>2, <2>1
  <2> QED  BY <1>4, <1>5, <2>1, <2>2
<1>15. CASE MergeSettles
  <2>1. UNCHANGED <<attempted, rearms, crashes, errors, pr>> /\ loop' = Free /\ loop.at # "clear"
    BY <1>15 DEF MergeSettles, remote, counters, observers
  <2> QED  BY <1>4, <1>5, <2>1
<1>16. CASE LandPush
  <2>1. UNCHANGED <<attempted, rearms, crashes, errors, pr>> /\ loop.at = "push"
    BY <1>16 DEF LandPush, counters
  <2>2. loop \in [at : {"push", "propose", "merged", "refused", "raised"}, task : Tasks]
    BY <1>1, <2>1 DEF Loops
  <2>3. loop'.at \in {"propose", "free"}  BY <1>4, <1>16, <2>2 DEF LandPush
  <2> QED  BY <1>5, <2>1, <2>3
<1>17. CASE LandPropose \/ LandRaises
  <2>1. /\ UNCHANGED <<rearms, crashes>> /\ loop' = Free /\ loop.at # "clear"
        /\ errors' = errors \/ errors' = errors + 1
        /\ CountsAnew /\ (pr' = pr \/ pr' = Opened)
    BY <1>17 DEF LandPropose, LandRaises, Proposed, counters
  <2>2. CASE pr' = pr
    <3>1. attempted' = attempted  BY <2>1, <2>2 DEF CountsAnew
    <3> QED  BY <1>4, <1>5, <2>1, <2>2, <3>1
  <2>3. CASE pr' # pr
    <3>1. attempted' = {}  BY <2>1, <2>3 DEF CountsAnew
    <3>2. pr'.attempts = {} /\ pr'.giveUp = "no"  BY <2>1, <2>3 DEF Opened, NoPr
    <3> QED  BY <1>4, <2>1, <3>1, <3>2, LabelsGone
  <2> QED  BY <2>2, <2>3
<1>18. CASE GiveUp
  <2>1. /\ UNCHANGED <<attempted, rearms, crashes, errors>> /\ loop' = Free /\ loop.at = "giveup"
        /\ pr'.attempts = pr.attempts
    BY <1>2, <1>18 DEF GiveUp, counters, observers
  <2> QED  BY <1>4, <1>5, <2>1
<1>19. CASE TriageRaises
  <2>1. /\ UNCHANGED <<origin, attempted, rearms, crashes>> /\ loop' = Free
        /\ errors' = errors + 1
        /\ \/ loop.at = "giveup" /\ (pr' = pr \/ pr' = [pr EXCEPT !.giveUp = "budget"])
           \/ /\ loop.at = "bump"
              /\ pr' = pr \/ pr' = [pr EXCEPT !.attempts = @ \cup {loop.fresh}]
           \/ /\ loop.at = "clear"
              /\ \E gone \in SUBSET loop.old : pr' = [pr EXCEPT !.attempts = @ \ gone]
    BY <1>19 DEF TriageRaises, observers
  <2>2. CASE loop.at = "giveup" \/ (pr' = pr /\ loop.at # "clear")
    <3>1. pr'.attempts = pr.attempts /\ (pr'.giveUp = pr.giveUp \/ loop.at = "giveup")
      BY <1>2, <2>1, <2>2
    <3> QED  BY <1>4, <1>5, <2>1, <2>2, <3>1
  <2>3. CASE loop.at = "bump" /\ pr' = [pr EXCEPT !.attempts = @ \cup {loop.fresh}]
    <3>1. pr'.attempts = pr.attempts \cup {loop.fresh} /\ pr'.giveUp = pr.giveUp
      BY <1>2, <2>3
    <3>2. PICK e \in Nat : e = errors + 1  BY <1>1
    <3>3. errors' = e /\ errors <= e /\ loop'.at = "free"  BY <1>1, <1>4, <2>1, <3>2
    <3>4. Slack' = crashes + errors + 1
      <4>1. Slack' = crashes + e  BY <1>1, <2>1, <3>3 DEF Slack
      <4> QED  BY <1>1, <3>2, <4>1
    <3>5. Numbered(pr'.attempts) /\ Counts' /\ Spends'
      BY <2>1, <2>3, <3>1, <3>3, <3>4, FreshAdds
    <3>6. Bumps'  BY <3>3 DEF Bumps
    <3> QED  BY <3>5, <3>6 DEF LabelsHold
  <2>4. CASE loop.at = "clear"
    <3>1. PICK gone \in SUBSET loop.old : pr' = [pr EXCEPT !.attempts = @ \ gone]
      BY <2>1, <2>4
    <3>2. pr'.attempts = pr.attempts \ gone /\ pr'.giveUp = pr.giveUp  BY <1>2, <3>1
    <3> QED  BY <1>4, <2>1, <2>4, <3>1, <3>2, ClearRaisesLabels
  <2> QED  BY <2>1, <2>2, <2>3, <2>4
<1> QED
  BY <1>6, <1>7, <1>8, <1>9, <1>10, <1>11, <1>12, <1>13, <1>14, <1>15, <1>16, <1>17, <1>18,
     <1>19, TriageLabels, BumpAddLabels, BumpClearLabels DEF Next

-----------------------------------------------------------------------------
(* TypeOK is inductive: one lemma per variable.                            *)

LEMMA NextNumber ==
    ASSUME IInv, [Next]_vars
    PROVE  /\ next' = next \/ next' = next + 1
           /\ Changes \subseteq Changes' /\ Commits \subseteq Commits'
           /\ Labels \subseteq Labels' /\ Loops \subseteq Loops' /\ Trees \subseteq Trees'
           /\ next' = next + 1 => next \in Changes'
<1>1. next' = next \/ next' = next + 1
  <2>1. CASE \E t \in Tasks : Acts(t)  BY <2>1, ActsWork, WorkMeans
  <2>2. CASE PersonPushes \/ UpdateBranch \/ \E b \in Targets : BaseMoves(b)
    BY <2>2 DEF PersonPushes, UpdateBranch, BaseMoves
  <2>3. CASE ~(\E t \in Tasks : Acts(t)) /\ ~PersonPushes /\ ~UpdateBranch
             /\ ~(\E b \in Targets : BaseMoves(b))
    BY <2>3 DEF Next, Acts, Rearm, Retry, Triage, GiveUp, BumpAdd, BumpClear, TriageRaises,
       ScanClean, AttachFails, AgentRaises, MergeCall, MergeSettles, LandPush, LandPropose,
       LandRaises, Crash, vars
  <2> QED  BY <2>1, <2>2, <2>3
<1>2. next \in Nat  BY Fresh DEF IInv
<1>3. next' = next + 1 => next \in Changes'  BY <1>2 DEF Changes
<1> QED  BY <1>1, <1>2, <1>3, Grows

LEMMA NextRemote ==
    ASSUME IInv, [Next]_vars
    PROVE  /\ origin' = origin \/ origin' \in Commits'
           /\ bases' = bases \/ bases' \in [Targets -> Commits']
           /\ pushed' = pushed \/ pushed' \subseteq Changes'
<1>1. /\ origin \in Commits /\ local \in Commits /\ bases \in [Targets -> Commits]
      /\ pushed \subseteq Changes /\ next \in Nat /\ pr.target \in Targets
      /\ \A c \in Commits : c.hist \subseteq Changes /\ c.tree \subseteq Changes
  BY TypeIs, Fresh DEF IInv, PrTyped
<1>2. /\ Changes \subseteq Changes' /\ Commits \subseteq Commits'
      /\ next' = next + 1 => next \in Changes'
  BY NextNumber
<1>3. CASE PersonPushes
  <2>1. next' = next + 1 /\ UNCHANGED bases
        /\ origin' = [hist |-> origin.hist \cup {next}, tree |-> origin.tree \cup {next}]
        /\ pushed' = pushed \cup {next}
    BY <1>3 DEF PersonPushes
  <2>2. origin.hist \cup {next} \subseteq Changes' /\ origin.tree \cup {next} \subseteq Changes'
        /\ pushed' \subseteq Changes'
    BY <1>1, <1>2, <2>1
  <2> QED  BY <2>1, <2>2 DEF Commits
<1>4. CASE UpdateBranch
  <2>1. next' = next + 1 /\ UNCHANGED bases
        /\ origin' = [hist |-> origin.hist \cup Base.hist \cup {next},
                      tree |-> MergedTree(origin.tree, origin, Base)]
        /\ pushed' = pushed \cup Base.tree /\ Base \in Commits
    BY <1>1, <1>4 DEF UpdateBranch, MergeCommit, Base
  <2>2. MergedTree(origin.tree, origin, Base) \subseteq origin.tree \cup Base.tree
    BY DEF MergedTree
  <2>3. /\ origin.hist \cup Base.hist \cup {next} \subseteq Changes'
        /\ MergedTree(origin.tree, origin, Base) \subseteq Changes'
        /\ pushed' \subseteq Changes'
    BY <1>1, <1>2, <2>1, <2>2
  <2> QED  BY <2>1, <2>3 DEF Commits
<1>5. ASSUME NEW b \in Targets, BaseMoves(b)
      PROVE  bases' \in [Targets -> Commits'] /\ UNCHANGED <<origin, pushed>>
  <2> DEFINE grown == Commit(bases[b].hist \cup {next})
  <2>1. next' = next + 1 /\ UNCHANGED <<origin, pushed>> /\ bases' = [bases EXCEPT ![b] = grown]
    BY <1>5 DEF BaseMoves, observers
  <2>2. bases[b].hist \cup {next} \subseteq Changes'  BY <1>1, <1>2, <2>1
  <2>3. grown \in Commits'  BY <2>2 DEF Commit, Commits
  <2> HIDE DEF grown
  <2> QED  BY <1>1, <1>2, <2>1, <2>3
<1>6. CASE LandPush \/ LandRaises
  <2>1. /\ UNCHANGED bases
        /\ UNCHANGED <<origin, pushed>> \/ (origin' = local /\ pushed' = pushed \cup local.tree)
    BY <1>6 DEF LandPush, LandRaises
  <2> QED  BY <1>1, <1>2, <2>1
<1>7. CASE ~(PersonPushes \/ UpdateBranch \/ LandPush \/ LandRaises
             \/ \E b \in Targets : BaseMoves(b))
  <2>1. UNCHANGED <<origin, bases, pushed>>
    BY <1>7 DEF Next, Rearm, Retry, Triage, GiveUp, BumpAdd, BumpClear, TriageRaises,
       ScanClean, AttachFails, UnblockStart, UnblockDone, UnblockStuck, AgentRaises,
       ReviewStart, ReviewEnd, MergeCall, MergeSettles, LandSync, LandPropose, Crash,
       remote, observers, vars
  <2> QED  BY <2>1
<1> QED  BY <1>3, <1>4, <1>5, <1>6, <1>7

LEMMA NextPr == ASSUME IInv, [Next]_vars PROVE pr' = pr \/ PrTyped'
<1>1. /\ pr.attempts \subseteq Labels /\ loop \in Loops
      /\ pr \in [state : {"none", "open", "merged"}, target : Targets,
                 attempts : {pr.attempts}, giveUp : {"no", "budget", "stuck"}]
  BY TypeIs DEF IInv, PrTyped
<1>2. Labels \subseteq Labels'  BY NextNumber
<1>3. ASSUME NEW s \in {"none", "open", "merged"}, NEW b \in Targets,
             NEW labels \in SUBSET Labels, NEW g \in {"no", "budget", "stuck"},
             pr' = [state |-> s, target |-> b, attempts |-> labels, giveUp |-> g]
      PROVE  PrTyped'
  BY <1>2, <1>3 DEF PrTyped
<1>4. /\ pr.state \in {"none", "open", "merged"} /\ pr.target \in Targets
      /\ pr.giveUp \in {"no", "budget", "stuck"}
      /\ pr = [state |-> pr.state, target |-> pr.target, attempts |-> pr.attempts,
               giveUp |-> pr.giveUp]
  BY <1>1
<1>5. ASSUME NEW labels \in SUBSET Labels, pr' = [pr EXCEPT !.attempts = labels]
      PROVE  PrTyped'
  <2>1. pr' = [state |-> pr.state, target |-> pr.target, attempts |-> labels,
               giveUp |-> pr.giveUp]
    BY <1>4, <1>5
  <2> QED  BY <1>3, <1>4, <2>1
<1>6. ASSUME NEW g \in {"budget", "stuck"}, pr' = [pr EXCEPT !.giveUp = g]
      PROVE  PrTyped'
  <2>1. pr' = [state |-> pr.state, target |-> pr.target, attempts |-> pr.attempts,
               giveUp |-> g]
    BY <1>4, <1>6
  <2> QED  BY <1>1, <1>3, <1>4, <2>1
<1>7. ASSUME pr' = [pr EXCEPT !.state = "merged"]  PROVE PrTyped'
  <2>1. pr' = [state |-> "merged", target |-> pr.target, attempts |-> pr.attempts,
               giveUp |-> pr.giveUp]
    BY <1>4, <1>7
  <2> QED  BY <1>1, <1>3, <1>4, <2>1
<1>8. ASSUME pr' = [pr EXCEPT !.attempts = {}, !.giveUp = "no"]  PROVE PrTyped'
  <2>1. pr' = [state |-> pr.state, target |-> pr.target, attempts |-> {}, giveUp |-> "no"]
    BY <1>4, <1>8
  <2>2. {} \in SUBSET Labels  OBVIOUS
  <2> QED  BY <1>3, <1>4, <2>1, <2>2
<1>9. ASSUME pr' = Opened  PROVE PrTyped'
  <2>1. pr' = [state |-> "open", target |-> DefaultBranch, attempts |-> {}, giveUp |-> "no"]
    BY <1>9 DEF Opened, NoPr
  <2>2. {} \in SUBSET Labels  OBVIOUS
  <2> QED  BY <1>3, <2>1, <2>2, PullRequestAssumption
<1>10. CASE BumpAdd \/ BumpClear \/ TriageRaises
  <2>1. \/ pr' = pr
        \/ pr' = [pr EXCEPT !.giveUp = "budget"]
        \/ loop.at = "bump" /\ pr' = [pr EXCEPT !.attempts = pr.attempts \cup {loop.fresh}]
        \/ \E gone : pr' = [pr EXCEPT !.attempts = pr.attempts \ gone]
    BY <1>10 DEF BumpAdd, BumpClear, TriageRaises
  <2>2. loop.at = "bump" => loop.fresh \in Labels  BY <1>1, LoopShape
  <2>3. CASE loop.at = "bump" /\ pr' = [pr EXCEPT !.attempts = pr.attempts \cup {loop.fresh}]
    <3>1. pr.attempts \cup {loop.fresh} \in SUBSET Labels  BY <1>1, <2>2, <2>3
    <3> QED  BY <1>5, <2>3, <3>1
  <2>4. ASSUME NEW gone, pr' = [pr EXCEPT !.attempts = pr.attempts \ gone]  PROVE PrTyped'
    <3>1. pr.attempts \ gone \in SUBSET Labels  BY <1>1
    <3> QED  BY <1>5, <2>4, <3>1
  <2> QED  BY <1>6, <2>1, <2>3, <2>4
<1>11. CASE Rearm  BY <1>8, <1>11 DEF Rearm
<1>12. CASE GiveUp  BY <1>6, <1>12 DEF GiveUp
<1>13. ASSUME NEW t \in Tasks, UnblockStuck(t) \/ MergeCall(t)  PROVE pr' = pr \/ PrTyped'
  BY <1>6, <1>7, <1>13 DEF UnblockStuck, MergeCall
<1>14. CASE LandPropose \/ LandRaises
  BY <1>9, <1>14 DEF LandPropose, LandRaises, Proposed
<1>15. CASE ~(\/ BumpAdd \/ BumpClear \/ TriageRaises \/ Rearm \/ GiveUp \/ LandPropose
              \/ LandRaises \/ \E t \in Tasks : UnblockStuck(t) \/ MergeCall(t))
  <2>1. pr' = pr
    BY <1>15 DEF Next, PersonPushes, BaseMoves, Retry, UpdateBranch, Triage, ScanClean,
       AttachFails, UnblockStart, UnblockDone, AgentRaises, ReviewStart, ReviewEnd,
       MergeSettles, LandSync, LandPush, Crash, remote, vars
  <2> QED  BY <2>1
<1> QED  BY <1>10, <1>11, <1>12, <1>13, <1>14, <1>15

LEMMA NextClone ==
    ASSUME IInv, [Next]_vars
    PROVE  /\ local' = local \/ local' \in Commits'
           /\ trees' = trees \/ trees' \in [Tasks -> Trees']
           /\ overlapped' \in BOOLEAN
<1>1. /\ local \in Commits /\ trees \in [Tasks -> Trees] /\ overlapped \in BOOLEAN
      /\ local.tree \subseteq Changes
  BY TypeIs, Fresh DEF IInv
<1>2. Trees \subseteq Trees'  BY NextNumber
<1>3. CASE \E t \in Tasks : Acts(t)  BY <1>3, ActsWork, WorkMeans
<1>4. CASE Crash
  <2>1. local' = local /\ overlapped' = overlapped
        /\ (trees' = trees \/ \E t \in Tasks : trees' = [trees EXCEPT ![t] = Clean(local)])
    BY <1>4 DEF Crash, observers
  <2>2. Clean(local) \in Trees  BY <1>1 DEF Clean, Trees
  <2> QED  BY <1>1, <1>2, <2>1, <2>2
<1>5. CASE ~Crash /\ ~(\E t \in Tasks : Acts(t))
  <2>1. UNCHANGED <<local, trees, overlapped>>
    BY <1>5 DEF Next, Acts, PersonPushes, BaseMoves, Rearm, Retry, UpdateBranch, Triage,
       GiveUp, BumpAdd, BumpClear, TriageRaises, ScanClean, AttachFails, AgentRaises,
       MergeCall, MergeSettles, LandPush, LandPropose, LandRaises, remote, clone, observers,
       vars
  <2> QED  BY <1>1, <2>1
<1> QED  BY <1>3, <1>4, <1>5

LEMMA NextLoop ==
    ASSUME IInv, [Next]_vars
    PROVE  loop' = loop \/ loop' \in Loops'
<1>1. /\ loop \in Loops /\ origin \in Commits /\ pr.attempts \subseteq Labels
      /\ Numbered(pr.attempts) /\ Loops \subseteq Loops'
      /\ \A c \in Commits : c.hist \subseteq Changes /\ c.tree \subseteq Changes
  BY TypeIs, LabelFacts, NextNumber, Fresh DEF IInv
<1>2. CASE loop' = Free  BY <1>2 DEF Free, Loops
<1>3. CASE BumpAdd
  <2>1. loop \in [at : {"bump", "clear"}, head : Commits, failing : BOOLEAN,
                  old : SUBSET Labels, fresh : Labels]
    BY <1>1, <1>3 DEF Loops, BumpAdd
  <2>2. loop' \in [at : {"bump", "clear"}, head : Commits, failing : BOOLEAN,
                   old : SUBSET Labels, fresh : Labels]
    BY <1>3, <2>1 DEF BumpAdd
  <2>3. loop' \in Loops  BY <2>2 DEF Loops
  <2> QED  BY <1>1, <2>3
<1>4. CASE LandPush
  <2>1. loop \in [at : {"push", "propose", "merged", "refused", "raised"}, task : Tasks]
    BY <1>1, <1>4 DEF Loops, LandPush
  <2>2. loop' = Free \/ loop' \in [at : {"push", "propose", "merged", "refused", "raised"},
                                   task : Tasks]
    BY <1>4, <2>1 DEF LandPush
  <2> QED  BY <1>2, <2>2 DEF Loops
<1>5. ASSUME NEW t \in Tasks, LandSync(t) \/ MergeCall(t)  PROVE loop' \in Loops'
  BY <1>5 DEF LandSync, MergeCall, Loops
<1>6. ASSUME NEW dirty \in BOOLEAN, NEW failing \in BOOLEAN, Triage(dirty, failing)
      PROVE  loop' = loop \/ loop' \in Loops'
  <2> DEFINE attempt == Attempt(pr.attempts, origin)
             fresh == [n |-> attempt, head |-> origin.hist]
  <2>1. \/ loop' = loop
        \/ loop' = [at |-> "giveup"]
        \/ /\ IsFresh(pr.attempts, origin)
           /\ loop' = [at |-> "bump", head |-> origin, failing |-> failing,
                       old |-> pr.attempts, fresh |-> fresh]
    BY <1>6 DEF Triage
  <2>2. IsFresh(pr.attempts, origin) => fresh \in Labels
    <3>1. PICK spent \in Nat : spent = Spent(pr.attempts)  BY <1>1, SpentIs
    <3>2. IsFresh(pr.attempts, origin) => attempt = spent + 1  BY <3>1 DEF Attempt
    <3>3. spent + 1 \in Nat \ {0}  BY <3>1
    <3> HIDE DEF attempt
    <3> QED  BY <1>1, <3>2, <3>3 DEF Labels
  <2> HIDE DEF fresh
  <2>3. CASE loop' = [at |-> "giveup"]  BY <2>3 DEF Loops
  <2>4. CASE /\ fresh \in Labels
             /\ loop' = [at |-> "bump", head |-> origin, failing |-> failing,
                         old |-> pr.attempts, fresh |-> fresh]
    <3>1. loop' \in Loops  BY <1>1, <2>4 DEF Loops
    <3> QED  BY <1>1, <3>1
  <2> QED  BY <2>1, <2>2, <2>3, <2>4
<1>7. \/ loop' = Free \/ loop' = loop \/ BumpAdd \/ LandPush
      \/ \E dirty, failing \in BOOLEAN : Triage(dirty, failing)
      \/ \E t \in Tasks : LandSync(t) \/ MergeCall(t)
  BY DEF Next, PersonPushes, BaseMoves, Rearm, Retry, UpdateBranch, GiveUp, BumpClear,
     TriageRaises, ScanClean, AttachFails, UnblockStart, UnblockDone, UnblockStuck,
     AgentRaises, ReviewStart, ReviewEnd, MergeSettles, LandPropose, LandRaises, Crash, vars
<1> QED  BY <1>2, <1>3, <1>4, <1>5, <1>6, <1>7

LEMMA NextSeen ==
    ASSUME IInv, [Next]_vars
    PROVE  seen' = seen \/ seen' \subseteq {"unblock", "review"} \X SUBSET Changes'
<1>1. /\ seen \subseteq {"unblock", "review"} \X SUBSET Changes
      /\ origin.hist \subseteq Changes /\ Changes \subseteq Changes'
  BY TypeIs, LabelFacts, NextNumber DEF IInv
<1>2. \A kind \in {"unblock", "review"} :
         seen \cup {Key(kind, origin)} \subseteq {"unblock", "review"} \X SUBSET Changes'
  BY <1>1 DEF Key
<1>3. CASE \E dirty, failing \in BOOLEAN : Triage(dirty, failing)
  <2>1. seen' = seen \/ seen' = seen \cup {Key("unblock", origin)}  BY <1>3 DEF Triage
  <2> QED  BY <1>2, <2>1
<1>4. CASE ScanClean
  <2>1. seen' = seen \cup {Key("review", origin)}  BY <1>4 DEF ScanClean
  <2> QED  BY <1>2, <2>1
<1>5. CASE Crash  BY <1>5 DEF Crash
<1>6. CASE ~(\/ ScanClean \/ Crash
             \/ \E dirty, failing \in BOOLEAN : Triage(dirty, failing))
  <2>1. seen' = seen
    BY <1>6 DEF Next, PersonPushes, BaseMoves, Rearm, Retry, UpdateBranch, GiveUp, BumpAdd,
       BumpClear, TriageRaises, AttachFails, UnblockStart, UnblockDone, UnblockStuck,
       AgentRaises, ReviewStart, ReviewEnd, MergeCall, MergeSettles, LandSync, LandPush,
       LandPropose, LandRaises, vars
  <2> QED  BY <2>1
<1> QED  BY <1>3, <1>4, <1>5, <1>6

LEMMA NextObserved ==
    ASSUME IInv, [Next]_vars
    PROVE  /\ attempted' = attempted \/ attempted' \subseteq SUBSET Changes'
           /\ made' = made \/ made' \in [Tasks -> SUBSET Changes']
           /\ read' = read \/ read' \in [Tasks -> SUBSET Changes']
<1>1. /\ attempted \subseteq SUBSET Changes /\ made \in [Tasks -> SUBSET Changes]
      /\ read \in [Tasks -> SUBSET Changes] /\ Changes \subseteq Changes'
      /\ origin.hist \subseteq Changes
      /\ next' = next + 1 => next \in Changes'
  BY TypeIs, LabelFacts, NextNumber DEF IInv
<1>2. attempted' = attempted \/ attempted' \subseteq SUBSET Changes'
  <2>1. CASE \E dirty, failing \in BOOLEAN : Triage(dirty, failing)
    <3>1. attempted' = attempted \/ attempted' = attempted \cup {origin.hist}
      BY <2>1 DEF Triage
    <3> QED  BY <1>1, <3>1
  <2>2. CASE BumpClear
    <3>1. attempted' = attempted \/ attempted' = attempted \cup {loop.head.hist}
      BY <2>2 DEF BumpClear
    <3>2. loop.head.hist \subseteq origin.hist  BY <2>2, LabelFacts DEF BumpClear
    <3> QED  BY <1>1, <3>1, <3>2
  <2>3. CASE Rearm \/ LandPropose \/ LandRaises
    <3>1. attempted' = attempted \/ attempted' = {}
      BY <2>3 DEF Rearm, LandPropose, LandRaises, CountsAnew
    <3> QED  BY <3>1
  <2>4. CASE ~(\/ Rearm \/ LandPropose \/ LandRaises \/ BumpClear
               \/ \E dirty, failing \in BOOLEAN : Triage(dirty, failing))
    <3>1. attempted' = attempted
      BY <2>4 DEF Next, PersonPushes, BaseMoves, Retry, UpdateBranch, GiveUp, BumpAdd,
         TriageRaises, ScanClean, AttachFails, UnblockStart, UnblockDone, UnblockStuck,
         AgentRaises, ReviewStart, ReviewEnd, MergeCall, MergeSettles, LandSync, LandPush,
         Crash, observers, vars
    <3> QED  BY <3>1
  <2> QED  BY <2>1, <2>2, <2>3, <2>4
<1>3. made' = made \/ made' \in [Tasks -> SUBSET Changes']
  <2>1. ASSUME NEW t \in Tasks, UnblockStart(t)  PROVE made' \in [Tasks -> SUBSET Changes']
    BY <1>1, <2>1 DEF UnblockStart
  <2>2. ASSUME NEW t \in Tasks, UnblockDone(t)  PROVE made' \in [Tasks -> SUBSET Changes']
    <3>1. next \in Changes'
      <4>1. next \in local'.hist /\ local' \in Commits'
        BY <2>2, DoneLands, ActsWork, WorkMeans DEF Acts
      <4> QED  BY <4>1 DEF Commits
    <3>2. made' = [made EXCEPT ![t] = {next}]  BY <2>2 DEF UnblockDone
    <3> QED  BY <1>1, <3>1, <3>2
  <2>3. CASE ~(\E t \in Tasks : UnblockStart(t) \/ UnblockDone(t))
    <3>1. made' = made
      BY <2>3 DEF Next, PersonPushes, BaseMoves, Rearm, Retry, UpdateBranch, Triage,
         GiveUp, BumpAdd, BumpClear, TriageRaises, ScanClean, AttachFails, UnblockStuck,
         AgentRaises, ReviewStart, ReviewEnd, MergeCall, MergeSettles, LandSync, LandPush,
         LandPropose, LandRaises, Crash, observers, vars
    <3> QED  BY <3>1
  <2> QED  BY <2>1, <2>2, <2>3
<1>4. read' = read \/ read' \in [Tasks -> SUBSET Changes']
  <2>1. ASSUME NEW t \in Tasks, ReviewStart(t)  PROVE read' \in [Tasks -> SUBSET Changes']
    <3>1. AttachedTree(t) \in Trees
      BY <2>1, AttachedFits DEF ReviewStart, Fit
    <3>2. AttachedTree(t).files \subseteq Changes'  BY <1>1, <3>1 DEF Trees
    <3> QED  BY <1>1, <2>1, <3>2 DEF ReviewStart
  <2>2. CASE ~(\E t \in Tasks : ReviewStart(t))
    <3>1. read' = read
      BY <2>2 DEF Next, PersonPushes, BaseMoves, Rearm, Retry, UpdateBranch, Triage,
         GiveUp, BumpAdd, BumpClear, TriageRaises, ScanClean, AttachFails, UnblockStart,
         UnblockDone, UnblockStuck, AgentRaises, ReviewEnd, MergeCall, MergeSettles, LandSync,
         LandPush, LandPropose, LandRaises, Crash, observers, vars
    <3> QED  BY <3>1
  <2> QED  BY <2>1, <2>2
<1> QED  BY <1>2, <1>3, <1>4

LEMMA NextTypeOK == ASSUME IInv, [Next]_vars PROVE TypeOK'
<1>1. CountersTyped'
  <2>1. CountersTyped  BY TypeIs DEF IInv
  <2>2. /\ pushes' = pushes \/ pushes' = pushes + 1
        /\ rearms' = rearms \/ rearms' = rearms + 1
        /\ retries' = retries \/ retries' = retries + 1
        /\ crashes' = crashes \/ crashes' = crashes + 1
        /\ errors' = errors \/ errors' = errors + 1
    BY DEF Next, PersonPushes, BaseMoves, Rearm, Retry, UpdateBranch, Triage,
       GiveUp, BumpAdd, BumpClear, TriageRaises, ScanClean, AttachFails, UnblockStart,
       UnblockDone, UnblockStuck, AgentRaises, ReviewStart, ReviewEnd, MergeCall, MergeSettles,
       LandSync, LandPush, LandPropose, LandRaises, Crash, Pushing, Bound, counters, vars
  <2> QED  BY <2>1, <2>2 DEF CountersTyped
<1>2. tasks' \in [Tasks -> TaskType']
  <2>1. TaskType \subseteq TaskType'
    <3>1. next \in Nat  BY Fresh DEF IInv
    <3> QED  BY <3>1, NextNumber, Grows
  <2> QED  BY <2>1, NextTurns
<1>3. TypeOK  BY DEF IInv
<1> HIDE DEF TypeOK
<1> QED
  BY <1>1, <1>2, <1>3, NextNumber, NextRemote, NextPr, NextClone, NextLoop, NextSeen,
     NextObserved, StaysTyped

-----------------------------------------------------------------------------
(* Init.                                                                   *)

LEMMA InitTypeOK == Init => TypeOK
<1> SUFFICES ASSUME Init  PROVE TypeOK
  OBVIOUS
<1>1. next = 2 /\ Changes = {0, 1}
  <2>1. next = 2  BY DEF Init
  <2>2. next - 1 = 1  BY <2>1
  <2>3. \A n : n \in 0 .. 1 <=> n = 0 \/ n = 1  OBVIOUS
  <2>4. 0 .. 1 = {0, 1}  BY <2>3
  <2> QED  BY <2>1, <2>2, <2>4 DEF Changes
<1>2. /\ None \in Commits /\ Commit({0, 1}) \in Commits /\ Commit({0}) \in Commits
      /\ Commit({0, 1}).tree = {0, 1}
  BY <1>1 DEF None, Commit, Commits
<1>3. DefaultBranch \in Targets /\ 1 \in Tasks  BY PullRequestAssumption
<1>4. /\ Absent \in TaskType /\ Task("build", "land", {}, FALSE) \in TaskType
      /\ NoTree \in Trees /\ Clean(Commit({0, 1})) \in Trees
  BY <1>1, <1>2 DEF Absent, Task, TaskType, Stages, NoTree, Clean, Trees
<1>5. /\ origin \in Commits /\ local \in Commits /\ bases \in [Targets -> Commits]
      /\ pushed \subseteq Changes
  BY <1>1, <1>2 DEF Init
<1>6. PrTyped
  <2>1. CASE pr = NoPr  BY <1>3, <2>1 DEF PrTyped, NoPr
  <2>2. CASE \E b \in Targets : pr = [NoPr EXCEPT !.state = "open", !.target = b]
    BY <2>2 DEF PrTyped, NoPr
  <2> QED  BY <2>1, <2>2 DEF Init
<1>7. tasks \in [Tasks -> TaskType] /\ trees \in [Tasks -> Trees]
  <2>1. \/ /\ local = Commit({0, 1})
           /\ tasks = [t \in Tasks |-> IF t = 1 THEN Task("build", "land", {}, FALSE)
                                      ELSE Absent]
           /\ trees = [t \in Tasks |-> IF t = 1 THEN Clean(local) ELSE NoTree]
        \/ tasks = [t \in Tasks |-> Absent] /\ trees = [t \in Tasks |-> NoTree]
    BY DEF Init
  <2>2. ASSUME local = Commit({0, 1}),
               trees = [t \in Tasks |-> IF t = 1 THEN Clean(local) ELSE NoTree]
        PROVE  trees \in [Tasks -> Trees]
    <3>1. Clean(local) \in Trees  BY <1>4, <2>2
    <3> QED  BY <1>4, <2>2, <3>1
  <2>3. tasks \in [Tasks -> TaskType]  BY <1>4, <2>1
  <2>4. trees \in [Tasks -> Trees]  BY <1>4, <2>1, <2>2
  <2> QED  BY <2>3, <2>4
<1>8. loop \in Loops /\ seen = {}  BY DEF Init, Free, Loops
<1>9. CountersTyped  BY DEF Init, CountersTyped
<1>10. /\ overlapped \in BOOLEAN /\ attempted = {}
       /\ made \in [Tasks -> SUBSET Changes] /\ read \in [Tasks -> SUBSET Changes]
  BY DEF Init
<1>11. next \in Nat \ {0, 1}  BY <1>1
<1> QED  BY <1>5, <1>6, <1>7, <1>8, <1>9, <1>10, <1>11, TypeIs

LEMMA InitGit == Init => GitHolds
<1> SUFFICES ASSUME Init  PROVE GitHolds
  OBVIOUS
<1>1. DefaultBranch \in Targets  BY PullRequestAssumption
<1>2. \A b \in Targets : bases[b].hist = {0} /\ bases[b].tree = {0}  BY DEF Init, Commit
<1>3. BaseChanges = {0}  BY <1>1, <1>2 DEF BaseChanges
<1>4. \A t \in Tasks : trees[t].merging = {}
  <2>1. \/ trees = [t \in Tasks |-> IF t = 1 THEN Clean(local) ELSE NoTree]
        \/ trees = [t \in Tasks |-> NoTree]
    BY DEF Init
  <2>2. Clean(local).merging = {} /\ NoTree.merging = {}  BY DEF Clean, NoTree
  <2> QED  BY <2>1, <2>2
<1>5. BasesWhole  BY <1>2 DEF BasesWhole
<1>6. CASE /\ origin = None /\ local = Commit({0, 1}) /\ pushed = {}
           /\ trees = [t \in Tasks |-> IF t = 1 THEN Clean(local) ELSE NoTree]
  <2>1. /\ origin.hist = {} /\ origin.tree = {} /\ local.hist = {0, 1} /\ local.tree = {0, 1}
    BY <1>6 DEF None, Commit
  <2>2. Told  BY <1>3, <2>1 DEF Told, IsAncestor
  <2>3. Traced  BY <1>4, <2>1 DEF Traced
  <2>4. \A t \in Tasks : Kept(t) => trees[t].files = local.tree
    BY <1>6 DEF Kept, Clean, NoTree
  <2>5. Safe  BY <1>3, <1>4, <1>6, <2>1, <2>4 DEF Safe, Whole, IsAncestor
  <2> QED  BY <1>5, <2>2, <2>3, <2>5 DEF GitHolds
<1>7. CASE /\ origin = Commit({0, 1}) /\ local = None /\ pushed = {0, 1}
           /\ trees = [t \in Tasks |-> NoTree]
  <2>1. /\ local.hist = {} /\ local.tree = {} /\ origin.hist = {0, 1} /\ origin.tree = {0, 1}
    BY <1>7 DEF None, Commit
  <2>2. Told  BY <1>3, <2>1 DEF Told, IsAncestor
  <2>3. Traced  BY <1>4, <1>7, <2>1 DEF Traced
  <2>4. \A t \in Tasks : ~Kept(t)  BY <1>7 DEF Kept, NoTree
  <2>5. Safe  BY <1>3, <1>7, <2>1, <2>4 DEF Safe, Whole, IsAncestor
  <2> QED  BY <1>5, <2>2, <2>3, <2>5 DEF GitHolds
<1> QED  BY <1>6, <1>7 DEF Init

LEMMA InitIInv == Init => IInv
<1> SUFFICES ASSUME Init  PROVE IInv
  OBVIOUS
<1>1. loop.at = "free" /\ attempted = {} /\ rearms = 0  BY DEF Init, Free
<1>2. \A t \in Tasks : \/ tasks[t] = Absent /\ ~trees[t].exists
                       \/ tasks[t] = Task("build", "land", {}, FALSE) /\ trees[t].exists
  <2>1. \/ /\ tasks = [t \in Tasks |-> IF t = 1 THEN Task("build", "land", {}, FALSE)
                                      ELSE Absent]
           /\ trees = [t \in Tasks |-> IF t = 1 THEN Clean(local) ELSE NoTree]
        \/ tasks = [t \in Tasks |-> Absent] /\ trees = [t \in Tasks |-> NoTree]
    BY DEF Init
  <2>2. Clean(local).exists /\ ~NoTree.exists  BY DEF Clean, NoTree
  <2> QED  BY <2>1, <2>2
<1>3. /\ Absent.kind = "none" /\ Absent.stage = "none" /\ Absent.from = "none"
      /\ Absent.pin = {}
  BY DEF Absent
<1>4. LET build == Task("build", "land", {}, FALSE)
      IN  /\ build.kind = "build" /\ build.stage = "land" /\ build.from = "land"
          /\ build.pin = {} /\ build # Absent
  BY <1>3 DEF Task
<1>5. Staged  BY <1>2, <1>3, <1>4 DEF Staged, IsAt
<1>6. Ticking /\ Pins /\ MadeKept /\ ReadRight
  BY <1>1, <1>2, <1>3, <1>4 DEF Ticking, Pins, MadeKept, ReadRight, IsAt
<1>7. LabelsHold
  <2>1. pr.attempts = {} /\ pr.giveUp = "no"
    <3>1. CASE pr = NoPr  BY <3>1 DEF NoPr
    <3>2. CASE \E b \in Targets : pr = [NoPr EXCEPT !.state = "open", !.target = b]
      BY <3>2 DEF NoPr
    <3> QED  BY <3>1, <3>2 DEF Init
  <2>2. Numbered(pr.attempts) /\ Counts  BY <1>1, <2>1, FS_EmptySet DEF Numbered, Counts
  <2>3. Spends /\ Bumps  BY <1>1, <2>1 DEF Spends, Bumps
  <2> QED  BY <2>2, <2>3 DEF LabelsHold
<1> QED  BY <1>5, <1>6, <1>7, InitTypeOK, InitGit DEF IInv

LEMMA NextIInv == ASSUME IInv, [Next]_vars PROVE IInv'
<1>1. MadeKept'  BY NextMadeKept, NextMadePushed DEF MadeKept, IsAt
<1> QED
  BY <1>1, NextTypeOK, NextStaged, NextTicking, NextGit, NextPins, NextReadRight, NextLabels
  DEF IInv

LEMMA Invariant == Spec => []IInv
<1>1. Init => IInv  BY InitIInv
<1>2. IInv /\ [Next]_vars => IInv'  BY NextIInv
<1> QED  BY <1>1, <1>2, PTL DEF Spec

-----------------------------------------------------------------------------
(* The theorems.                                                           *)

(***************************************************************************)
(* Every variable keeps its type: in particular a head that a label, a     *)
(* ledger or a task names is one of changes that were made, and a landing  *)
(* or a merge under way is that of a task there is.                        *)
(***************************************************************************)
THEOREM TypeCorrect == Spec => []TypeOK
<1>1. IInv => TypeOK  BY DEF IInv
<1> QED  BY <1>1, Invariant, PTL

(***************************************************************************)
(* Landing never pushes over what people, GitHub or another task pushed,   *)
(* through merges that were begun and not concluded, commits of stale work *)
(* trees, failed landings and restarts, as long as no two tasks worked on  *)
(* the branch at once (LandingBehavior.run, GitWorkspace.attach).          *)
(***************************************************************************)
THEOREM NothingPushedIsLostHolds == Spec => []NothingPushedIsLost
<1>1. IInv => NothingPushedIsLost  BY DEF IInv, GitHolds, Safe, NothingPushedIsLost
<1> QED  BY <1>1, Invariant, PTL

(***************************************************************************)
(* What an unblock task committed before it finished is on the pull        *)
(* request: landing attaches its work tree again, and keeps the clone's    *)
(* branch when that is ahead of GitHub's.                                  *)
(***************************************************************************)
THEOREM ResolutionReachesPrHolds == Spec => []ResolutionReachesPr
<1>1. IInv => ResolutionReachesPr  BY DEF IInv, MadeKept, ResolutionReachesPr
<1> QED  BY <1>1, Invariant, PTL

(***************************************************************************)
(* A merge takes in only what the reviewer that asked for it had in front  *)
(* of it: the head that the task is pinned to is the head GitHub had when  *)
(* the review began, whatever was pushed since (MergePrBehavior.run and    *)
(* the `sha' of its call).                                                 *)
(***************************************************************************)
THEOREM MergesWhatWasReadHolds == Spec => MergesWhatWasRead
<1> DEFINE MergesRead == pr.state # "merged" /\ pr'.state = "merged"
              => overlapped \/ \E t \in Tasks : tasks[t].stage = "merge"
                                           /\ origin.tree \subseteq read[t]
<1>1. ASSUME IInv, [Next]_vars  PROVE MergesRead
  <2> SUFFICES ASSUME pr.state # "merged", pr'.state = "merged", ~overlapped
               PROVE  \E t \in Tasks : tasks[t].stage = "merge" /\ origin.tree \subseteq read[t]
    OBVIOUS
  <2>1. pr \in [state : {"none", "open", "merged"}, target : Targets,
                attempts : {pr.attempts}, giveUp : {"no", "budget", "stuck"}]
    BY <1>1, TypeIs DEF IInv, PrTyped
  <2>2. \E t \in Tasks : MergeCall(t) /\ pr' # pr
    <3>1. CASE UNCHANGED pr  BY <3>1
    <3>2. CASE Rearm \/ GiveUp \/ BumpAdd \/ BumpClear \/ TriageRaises
      <4>1. pr'.state = pr.state
        BY <2>1, <3>2 DEF Rearm, GiveUp, BumpAdd, BumpClear, TriageRaises
      <4> QED  BY <4>1
    <3>3. ASSUME NEW t \in Tasks, UnblockStuck(t)  PROVE FALSE
      <4>1. pr'.state = pr.state  BY <2>1, <3>3 DEF UnblockStuck
      <4> QED  BY <4>1
    <3>4. CASE LandPropose \/ LandRaises
      <4>1. pr' = pr \/ pr'.state = "open"
        BY <3>4 DEF LandPropose, LandRaises, Proposed, Opened, NoPr
      <4> QED  BY <4>1
    <3> QED
      BY <1>1, <3>1, <3>2, <3>3, <3>4 DEF Next, PersonPushes, BaseMoves, Retry, UpdateBranch,
         Triage, ScanClean, AttachFails, UnblockStart, UnblockDone, AgentRaises, ReviewStart,
         ReviewEnd, MergeSettles, LandSync, LandPush, Crash, remote, vars
  <2>3. PICK t \in Tasks : MergeCall(t) /\ pr' # pr  BY <2>2
  <2>4. tasks[t].stage = "merge" /\ Pinned(t)  BY <2>3 DEF MergeCall
  <2>5. tasks[t].kind = "review"  BY <1>1, <2>4 DEF IInv, Staged, IsAt
  <2> QED  BY <1>1, <2>4, <2>5 DEF IInv, ReadRight, IsAt
<1>2. Spec => [][MergesRead]_vars  BY <1>1, Invariant, PTL DEF Spec
<1> QED  BY <1>2 DEF MergesWhatWasRead

(***************************************************************************)
(* The attempt labels count what was tried, neither less nor more: no head *)
(* beyond the budget gets a task, and a pull request is given up only when *)
(* its budget went, but for what crashes and failing calls cost            *)
(* (GithubUnhealthyPrsCheck.evaluate).                                     *)
(***************************************************************************)
THEOREM BudgetMeansTriesHolds == Spec => []BudgetMeansTries
<1>1. ASSUME IInv  PROVE BudgetHolds
  <2>1. /\ pr.attempts \subseteq Labels /\ Numbered(pr.attempts)
        /\ IsFiniteSet(attempted) /\ Cardinality(attempted) \in Nat
        /\ pr.attempts = {} => Cardinality(attempted) = 0
        /\ MaxAttempts \in Nat
    BY <1>1, LabelFacts
  <2>2. CASE pr.attempts = {}  BY <2>1, <2>2 DEF BudgetHolds
  <2>3. CASE pr.attempts # {}
    <3>1. PICK l : Newest(l, pr.attempts)  BY <2>1, <2>3, NewestExists
    <3>2. l \in pr.attempts /\ l.n \in Nat  BY <2>1, <3>1 DEF Newest, Labels
    <3>3. Cardinality(attempted \ {l.head}) + 1 <= l.n /\ l.n <= MaxAttempts
      BY <1>1, <2>1, <3>1, <3>2 DEF IInv, LabelsHold, Counts, Numbered
    <3>4. /\ Cardinality(attempted) <= Cardinality(attempted \ {l.head}) + 1
          /\ Cardinality(attempted \ {l.head}) \in Nat
      BY <2>1, Tries
    <3> QED  BY <2>1, <3>2, <3>3, <3>4 DEF BudgetHolds
  <2> QED  BY <2>2, <2>3
<1>2. IInv => GiveUpMeansTried  BY DEF IInv, LabelsHold, Spends, GiveUpMeansTried
<1>3. IInv => BudgetMeansTries  BY <1>1, <1>2 DEF BudgetMeansTries
<1> QED  BY <1>3, Invariant, PTL

=============================================================================
