------------------------------- MODULE Stats --------------------------------
(***************************************************************************)
(* stats.py: the delivery report, derived from nothing but the histories   *)
(* of the tasks on disk.  An archived task says neither in its status nor  *)
(* in its last entry how it ended, so the report looks for the entry that  *)
(* settled it.  The groups by kind, repository, workflow and label are the *)
(* same tally over fewer tasks, and are left out, as is the window.        *)
(***************************************************************************)
EXTENDS Harness

ARCHIVED == "archived"

\* An archived task cannot be told from one in a step of that name: the report
\* compares the status with it, and fs_workflows.py does not reserve it.
ArchivedIsNoStep == ARCHIVED \notin Steps

\* Mutant: the last entry is taken for the one that settled the task.
LastEntry(task) ==
    IF task.hist # <<>> /\ task.hist[Len(task.hist)].to \in {END, FAILED}
    THEN Len(task.hist) ELSE 0

\* The newest move into a terminal column; 0 for a task that never settled.
SettlingEntry(task) ==
    LET ends == {i \in DOMAIN task.hist : task.hist[i].to \in {END, FAILED}}
    IN  IF ends = {} THEN 0 ELSE CHOOSE i \in ends : \A j \in ends : j <= i

\* The healer retired a failure.
IsRetired(entry) == entry.actor = HEAL_ACTOR /\ entry.from = FAILED

\* Where a task is counted; a task that was archived before it settled, nowhere.
Counted(task) ==
    LET i == SettlingEntry(task)
    IN  IF i = 0 THEN IF task.status = ARCHIVED THEN {} ELSE {"inFlight"}
        ELSE IF task.hist[i].to = END /\ ~IsRetired(task.hist[i]) THEN {"completed"}
        ELSE IF task.hist[i].to = END THEN {"failed", "retired"}
        ELSE {"failed"}

Summarize(tasks) ==
    [count \in {"inFlight", "completed", "failed", "retired"} |->
        Cardinality({t \in DOMAIN tasks : count \in Counted(tasks[t])})]

\* What the retention sweep, the issue and the pull request watchers leave ...
Swept(task) == Stamp([task EXCEPT !.status = ARCHIVED],
                     Entry("reconciler", task.status, None, None))

\* ... and what the merge reconciler does.
MergeArchived(task) == Stamp(task, Entry("merge-reconciler", task.status, ARCHIVED, None))

\* list() of every queue: what is claimed is not in it.
Listed == {t \in Ids : file[t] # NoTask /\ ~held[t]}

-----------------------------------------------------------------------------

SentBack(t) == \E i \in DOMAIN file[t].hist : file[t].hist[i].actor = OPERATOR

\* What the report says is what the queues show, and it still says so of what
\* is archived: completed is what rests in done/ and no failure led there,
\* failed what rests in failed/ or was retired from it, in flight what never
\* came to rest; archived out of flight, a task is not counted.  Left out are
\* tasks that a crash caught in a transfer, and failures that the operator sent
\* back: until they settle again they count as the failures they were.
ReportTellsQueues ==
    LET tasks == {t \in Listed \ torn : at[t] \in {Done, Failed} \/ ~SentBack(t)}
        done == {t \in tasks : at[t] = Done}
        failed == {t \in tasks : at[t] = Failed}
        retired == {t \in done : IsRetiredFailure(file[t])}
        flying == tasks \ (done \cup failed)
        Report(inFlight) == [inFlight  |-> Cardinality(inFlight),
                             completed |-> Cardinality(done \ retired),
                             failed    |-> Cardinality(failed \cup retired),
                             retired   |-> Cardinality(retired)]
    IN  /\ Summarize([t \in tasks |-> file[t]]) = Report(flying)
        /\ Summarize([t \in tasks |-> Swept(file[t])]) = Report({})
        /\ Summarize([t \in done |-> MergeArchived(file[t])])
              = [Report({}) EXCEPT !.failed = Cardinality(retired)]

\* A task says two things of where it stands: by its status, which the consumer
\* and the operator's verbs go by, and by its history, which the report goes by
\* and which alone is left when it is archived.  Both agree with its queue.
FilesTellQueues == StatusMatchesQueue /\ ReportTellsQueues
=============================================================================
