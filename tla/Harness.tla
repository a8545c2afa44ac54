------------------------------ MODULE Harness -------------------------------
(***************************************************************************)
(* The harness at work: the dispatcher, the consumers and the healer take  *)
(* turns on one event loop, the operator's requests run in threads of      *)
(* their own beside it, and the process may be killed at any point.        *)
(*                                                                         *)
(* A tick of the loop is synchronous, but the transfer that ends it is two *)
(* file operations - the updated task is written in the .processing/ of    *)
(* the queue it leaves, then renamed - so each tick is two steps here,     *)
(* between which threads run and a crash may fall.  A claim by the loop is *)
(* part of the first step: it lists and claims in one go, and a crash      *)
(* between its claim and its write leaves what a crash before it leaves.   *)
(* FsQueue has the file operations in full.                                *)
(***************************************************************************)
EXTENDS Models, FiniteSets

CONSTANTS
    StepQueues,    \* the steps that have a queue and consumers
    MaxParallel,   \* consumer tasks per step
    Submissions,   \* what `submit' or a poller puts: workflow, step, origin
    HealWorkflow,  \* the workflow the failed-tasks process targets
    Rework,        \* the outcomes that lead back in a workflow
    Threads,       \* the threads serving the operator's requests
    Verbs,         \* the requests the operator makes
    NoTask,
    MaxTasks, MaxSubmits, MaxRequests, MaxCrashes, MaxRework   \* bounds

Ids == 1 .. MaxTasks
Inbox == "inbox"
Done == "done"
Failed == "failed"
Nowhere == "nowhere"      \* never put, or deleted

Queues == StepQueues \cup {Inbox, Done, Failed}

ASSUME HarnessAssumption ==
    /\ StepQueues \subseteq Steps
    /\ {Inbox, Done, Failed, Nowhere} \cap Steps = {}
    /\ HealWorkflow \in DOMAIN Graph
    /\ Rework \subseteq Outcomes
    /\ Verbs \subseteq {"restart", "resume", "delete"}
    /\ {MaxTasks, MaxSubmits, MaxRequests, MaxCrashes, MaxRework,
        MaxParallel} \subseteq Nat

\* The operator makes one request at a time.
Alone == \A a, b \in Threads : a = b

VARIABLES
    file,      \* file[t]: what the task file of t says, or NoTask
    at,        \* at[t]: the queue whose directory has the file
    held,      \* held[t]: it is in that queue's .processing/
    minted,    \* ids handed out so far; they are handed out in order
    up,        \* the process is running
    loop,      \* what the event loop is in the middle of
    running,   \* tasks whose behavior a consumer is awaiting
    seen,      \* the heal process's dedup keys, as its poller knows them
    thread,    \* thread[a]: how far a's request has got
    requests, submits, crashes,   \* counters for the bounds
    torn       \* observer: tasks a crash caught between the two halves of a
               \* transfer, or between their claim and their heal task

vars == <<file, at, held, minted, up, loop, running, seen, thread,
          requests, submits, crashes, torn>>

\* The loop: between ticks; half-way through a transfer of `task' to `dest';
\* or healing - `todo' is its snapshot of failed/, `obs' what it has claimed.
\* A healer's own transfers are the half-way kind with `then' to come back to.
Free == [stage |-> "free"]
Healing(todo, obs) == [stage |-> "healing", todo |-> todo, obs |-> obs]
Moving(t, dest, then) ==
    [stage |-> "moving", task |-> t, dest |-> dest, then |-> then]

\* A thread: no request; a request whose task `copy' it read in `queue'.
NoRequest == [stage |-> "none"]
Request(stage, verb, t, q, copy) ==
    [stage |-> stage, verb |-> verb, task |-> t, queue |-> q, copy |-> copy]

Init ==
    /\ file = [t \in Ids |-> NoTask]
    /\ at = [t \in Ids |-> Nowhere]
    /\ held = [t \in Ids |-> FALSE]
    /\ minted = 0
    /\ up = TRUE
    /\ loop = Free
    /\ running = {}
    /\ seen = {}
    /\ thread = [a \in Threads |-> NoRequest]
    /\ requests = 0 /\ submits = 0 /\ crashes = 0
    /\ torn = {}

counters == <<requests, submits, crashes, torn>>

Lies(t, q) == at[t] = q /\ ~held[t]
InQueue(q) == {t \in Ids : Lies(t, q)}

\* FifoStrategy: the oldest first; ids are handed out in order of creation.
Oldest(t, tasks) == t \in tasks /\ \A u \in tasks : t <= u

Stamp(t, entry) == [t EXCEPT !.hist = Append(@, entry)]
NewTask(s, of) ==
    [workflow |-> s.workflow, step |-> s.step, origin |-> s.origin, of |-> of,
     status |-> None, last |-> None, hist |-> <<>>]

-----------------------------------------------------------------------------
(* New work.                                                               *)

\* `harness submit', the operator's import or a poller puts a task; the first
\* is another process, so the harness need not be up.
Submit ==
    /\ submits < MaxSubmits /\ minted < MaxTasks
    /\ minted' = minted + 1
    /\ submits' = submits + 1
    /\ \E s \in Submissions :
          file' = [file EXCEPT ![minted'] = NewTask(s, 0)]
    /\ at' = [at EXCEPT ![minted'] = Inbox]
    /\ UNCHANGED <<held, up, loop, running, seen, thread, requests, crashes, torn>>

-----------------------------------------------------------------------------
(* A transfer by the loop.                                                 *)

\* First half: the updated task is written where it was claimed.
WriteBack(t, new, dest, then) ==
    /\ file' = [file EXCEPT ![t] = new]
    /\ held' = [held EXCEPT ![t] = TRUE]
    /\ loop' = Moving(t, dest, then)
    /\ UNCHANGED <<at, minted, up, seen, thread, counters>>

\* Second half: the rename into the destination.
FinishTransfer ==
    /\ loop.stage = "moving"
    /\ at' = [at EXCEPT ![loop.task] = loop.dest]
    /\ held' = [held EXCEPT ![loop.task] = FALSE]
    /\ loop' = loop.then
    /\ UNCHANGED <<file, minted, up, running, seen, thread, counters>>

-----------------------------------------------------------------------------
(* Dispatcher.tick(): one task from the inbox.                             *)

\* Dispatcher._fail()
DispatchFailure(t) ==
    WriteBack(t, Stamp([file[t] EXCEPT !.status = FAILED],
                       Entry(DISPATCHER, file[t].status, FAILED, file[t].last)),
              Failed, Free)

\* Dispatcher._finish()
DispatchEnd(t) ==
    WriteBack(t, Stamp([file[t] EXCEPT !.status = END],
                       Entry(DISPATCHER, file[t].status, END, file[t].last)),
              Done, Free)

\* Dispatcher._move()
DispatchMove(t, s) ==
    WriteBack(t, Stamp([file[t] EXCEPT !.status = s],
                       Entry(DISPATCHER, file[t].status, s, file[t].last)),
              s, Free)

\* The workflow it names is on disk.
Known(task) == task.workflow \in DOMAIN Graph \cup {None}

Dispatch ==
    /\ up /\ loop = Free
    /\ \E t \in Ids :
          /\ Oldest(t, InQueue(Inbox))
          /\ LET decision == Route(file[t])
             IN  \/ ~Known(file[t]) /\ DispatchFailure(t)
                 \/ Known(file[t]) /\ decision.kind = "fail" /\ DispatchFailure(t)
                 \/ Known(file[t]) /\ decision.kind = "finish" /\ DispatchEnd(t)
                 \/ /\ Known(file[t]) /\ decision.kind = "move"
                    /\ decision.step \notin StepQueues
                    /\ DispatchFailure(t)
                 \/ /\ Known(file[t]) /\ decision.kind = "move"
                    /\ decision.step \in StepQueues
                    /\ DispatchMove(t, decision.step)
    /\ UNCHANGED running

-----------------------------------------------------------------------------
(* Consumer.tick(): claim, await the behavior, then deliver or fail.       *)

ConsumerClaim(s) ==
    /\ up /\ loop = Free
    /\ Cardinality({t \in running : at[t] = s}) < MaxParallel
    /\ \E t \in Ids :
          /\ Oldest(t, InQueue(s))
          /\ held' = [held EXCEPT ![t] = TRUE]
          /\ running' = running \cup {t}
    /\ UNCHANGED <<file, at, minted, up, loop, seen, thread, counters>>

\* Bound: outcomes that may send a task round a loop of its workflow are
\* delivered at most MaxRework times over its history.
ReworkLeft(t) ==
    Cardinality({i \in DOMAIN file[t].hist :
        /\ file[t].hist[i].actor = CONSUMER
        /\ file[t].hist[i].outcome \in Rework}) < MaxRework

\* _deliver(): the outcome is recorded, the status is left alone.
ConsumerDeliver(t, outcome) ==
    /\ loop = Free
    /\ t \in running
    /\ outcome \in Rework => ReworkLeft(t)
    /\ running' = running \ {t}
    /\ WriteBack(t, Stamp([file[t] EXCEPT !.last = outcome],
                          Entry(CONSUMER, at[t], None, outcome)),
                 Inbox, Free)

\* _fail(): the behavior raised, or its result is no result.
ConsumerFail(t) ==
    /\ loop = Free
    /\ t \in running
    /\ running' = running \ {t}
    /\ WriteBack(t, Stamp([file[t] EXCEPT !.status = FAILED],
                          Entry(CONSUMER, at[t], FAILED, None)),
                 Failed, Free)

-----------------------------------------------------------------------------
(* The healer: ScheduledTrigger.poll() over FailedTasksCheck.evaluate(),   *)
(* then the poller's puts, all in one tick.                                *)

\* Work that the harness made for itself: a heal task, one of an issue it filed
\* or of a pull request it opened.
HarnessMade(t) == t.origin # "outside"

\* _decline_reason() is not None.
Declines(t) == HarnessMade(t)

\* _already_declined()
AlreadyDeclined(t) == \E i \in DOMAIN t.hist : t.hist[i].actor = HEAL_ACTOR

\* Mutant: nothing to do when nothing can be healed.
HealStartIfHealable ==
    /\ up /\ loop = Free
    /\ \E t \in InQueue(Failed) : ~Declines(file[t])
    /\ loop' = Healing(InQueue(Failed), {})
    /\ UNCHANGED <<file, at, held, minted, up, running, seen, thread, counters>>

\* The snapshot of failed/.
HealStart ==
    /\ up /\ loop = Free
    /\ \E t \in InQueue(Failed) : ~(Declines(file[t]) /\ AlreadyDeclined(file[t]))
    /\ loop' = Healing(InQueue(Failed), {})
    /\ UNCHANGED <<file, at, held, minted, up, running, seen, thread, counters>>

\* A candidate is passed over: an operator took it meanwhile, or it carries
\* the decline note already.
HealSkip ==
    /\ loop.stage = "healing"
    /\ \E t \in Ids :
          /\ Oldest(t, loop.todo)
          /\ \/ ~Lies(t, Failed)
             \/ /\ Lies(t, Failed)
                /\ Declines(file[t]) /\ AlreadyDeclined(file[t])
          /\ loop' = Healing(loop.todo \ {t}, loop.obs)
    /\ UNCHANGED <<file, at, held, minted, up, running, seen, thread, counters>>

\* _decline(): noted once, and left in failed/.
HealDecline ==
    /\ loop.stage = "healing"
    /\ \E t \in Ids :
          /\ Oldest(t, loop.todo)
          /\ Lies(t, Failed)
          /\ Declines(file[t]) /\ ~AlreadyDeclined(file[t])
          /\ WriteBack(t, Stamp(file[t], Entry(HEAL_ACTOR, FAILED, FAILED, None)),
                       Failed, Healing(loop.todo \ {t}, loop.obs))
    /\ UNCHANGED running

\* _settle(): retired into done/, and an observation for a heal task.
HealSettle ==
    /\ loop.stage = "healing"
    /\ \E t \in Ids :
          /\ Oldest(t, loop.todo)
          /\ Lies(t, Failed)
          /\ ~Declines(file[t])
          /\ WriteBack(t, Stamp([file[t] EXCEPT !.status = END],
                                Entry(HEAL_ACTOR, FAILED, END, None)),
                       Done, Healing(loop.todo \ {t}, loop.obs \cup {t}))
    /\ UNCHANGED running

HealTask(of) ==
    NewTask([workflow |-> HealWorkflow, step |-> None, origin |-> "heal"], of)

\* SourcePoller.tick(): one observation becomes a heal task, unless its key
\* has been seen.
HealPut ==
    /\ loop.stage = "healing"
    /\ loop.todo = {}
    /\ \E of \in Ids :
          /\ Oldest(of, loop.obs)
          /\ loop' = Healing({}, loop.obs \ {of})
          /\ \/ /\ of \in seen
                /\ UNCHANGED <<file, at, minted, seen>>
             \/ /\ of \notin seen /\ minted < MaxTasks
                /\ minted' = minted + 1
                /\ seen' = seen \cup {of}
                /\ file' = [file EXCEPT ![minted'] = HealTask(of)]
                /\ at' = [at EXCEPT ![minted'] = Inbox]
    /\ UNCHANGED <<held, up, running, thread, counters>>

\* Retired tasks whose heal task is still to be put.
Observed ==
    IF loop.stage = "healing" THEN loop.obs
    ELSE IF loop.stage = "moving" /\ loop.then # Free THEN loop.then.obs
    ELSE {}

HealEnd ==
    /\ loop = Healing({}, {})
    /\ loop' = Free
    /\ UNCHANGED <<file, at, held, minted, up, running, seen, thread, counters>>

-----------------------------------------------------------------------------
(* TaskControlService, in a thread of its own.                             *)

\* The queues a request looks for its task in.
LooksIn(verb) ==
    CASE verb = "restart" -> {Failed}
      [] verb = "resume" -> {Done, Failed}
      [] verb = "delete" -> Queues

Accepts(verb, t) == verb = "resume" => IsResumable(t)

\* list(): the task was found, and for a resume it has a rewind target.
RequestFind(a, verb, t) ==
    /\ up
    /\ thread[a] = NoRequest
    /\ requests < MaxRequests
    /\ requests' = requests + 1
    /\ ~held[t]
    /\ at[t] \in LooksIn(verb)
    /\ Accepts(verb, file[t])
    /\ thread' = [thread EXCEPT
                    ![a] = Request("found", verb, t, at[t], file[t])]
    /\ UNCHANGED <<file, at, held, minted, up, loop, running, seen, submits,
                   crashes, torn>>

\* claim(): the file is taken and the copy found above is written over it.
RequestClaim(a) ==
    /\ thread[a].stage = "found"
    /\ LET r == thread[a]
       IN  /\ Lies(r.task, r.queue)
           /\ held' = [held EXCEPT ![r.task] = TRUE]
           /\ file' = [file EXCEPT ![r.task] = r.copy]
           /\ thread' = [thread EXCEPT ![a].stage = "claimed"]
    /\ UNCHANGED <<at, minted, up, loop, running, seen, counters>>

\* claim() returns None: another actor moved the file first.
RequestLost(a) ==
    /\ thread[a].stage = "found"
    /\ ~Lies(thread[a].task, thread[a].queue)
    /\ thread' = [thread EXCEPT ![a] = NoRequest]
    /\ UNCHANGED <<file, at, held, minted, up, loop, running, seen, counters>>

Restarted(t) == Stamp([t EXCEPT !.status = None, !.last = None],
                      Entry(OPERATOR, FAILED, None, None))

\* Mutant: the outcome is cleared, as restart does.
ResumedWithoutOutcome(t) ==
    Stamp([t EXCEPT !.status = Rewind(t).status, !.last = None],
          [Entry(OPERATOR, t.status, None, None) EXCEPT !.resumed = FailedStep(t)])

Resumed(t) == Stamp([t EXCEPT !.status = Rewind(t).status,
                              !.last = Rewind(t).last],
                    [Entry(OPERATOR, t.status, None, None)
                        EXCEPT !.resumed = FailedStep(t)])

\* transfer() to the inbox, first half.
RequestWrite(a) ==
    /\ thread[a].stage = "claimed"
    /\ LET r == thread[a]
       IN  /\ \/ r.verb = "restart"
                 /\ file' = [file EXCEPT ![r.task] = Restarted(r.copy)]
              \/ r.verb = "resume"
                 /\ file' = [file EXCEPT ![r.task] = Resumed(r.copy)]
           /\ thread' = [thread EXCEPT ![a].stage = "written"]
    /\ UNCHANGED <<at, held, minted, up, loop, running, seen, counters>>

\* transfer() to the inbox, second half.
RequestRename(a) ==
    /\ thread[a].stage = "written"
    /\ at' = [at EXCEPT ![thread[a].task] = Inbox]
    /\ held' = [held EXCEPT ![thread[a].task] = FALSE]
    /\ thread' = [thread EXCEPT ![a] = NoRequest]
    /\ UNCHANGED <<file, minted, up, loop, running, seen, counters>>

\* Mutant: the task's place is not given up.
RequestDiscardFile(a) ==
    /\ thread[a].stage = "claimed"
    /\ thread[a].verb = "delete"
    /\ file' = [file EXCEPT ![thread[a].task] = NoTask]
    /\ held' = [held EXCEPT ![thread[a].task] = FALSE]
    /\ thread' = [thread EXCEPT ![a] = NoRequest]
    /\ UNCHANGED <<at, minted, up, loop, running, seen, counters>>

\* discard()
RequestDiscard(a) ==
    /\ thread[a].stage = "claimed"
    /\ thread[a].verb = "delete"
    /\ file' = [file EXCEPT ![thread[a].task] = NoTask]
    /\ at' = [at EXCEPT ![thread[a].task] = Nowhere]
    /\ held' = [held EXCEPT ![thread[a].task] = FALSE]
    /\ thread' = [thread EXCEPT ![a] = NoRequest]
    /\ UNCHANGED <<minted, up, loop, running, seen, counters>>

-----------------------------------------------------------------------------
(* The process dies and starts again.                                      *)

\* Tasks in the middle of something that takes two steps.
Unfinished ==
    {t \in Ids : \/ loop.stage = "moving" /\ loop.task = t
                 \/ t \in Observed
                 \/ \E a \in Threads : thread[a].stage = "written"
                                       /\ thread[a].task = t}

Crash ==
    /\ up /\ crashes < MaxCrashes
    /\ crashes' = crashes + 1
    /\ up' = FALSE
    /\ torn' = torn \cup Unfinished
    /\ loop' = Free
    /\ running' = {}
    /\ seen' = {}
    /\ thread' = [a \in Threads |-> NoRequest]
    /\ UNCHANGED <<file, at, held, minted, requests, submits>>

\* Mutants: the keys are not read back; nothing is recovered.
RestartUnseeded ==
    /\ ~up
    /\ up' = TRUE
    /\ held' = [t \in Ids |-> FALSE]
    /\ seen' = {}
    /\ UNCHANGED <<file, at, minted, loop, running, thread, counters>>

RestartUnrecovered ==
    /\ ~up
    /\ up' = TRUE
    /\ seen' = {file[t].of : t \in {u \in Ids : file[u] # NoTask}} \ {0}
    /\ UNCHANGED <<file, at, held, minted, loop, running, thread, counters>>

\* Harness.run(): recover() returns what lies in .processing/ to its queue,
\* then _seed_pollers() reads the dedup keys back from disk.
Restart ==
    /\ ~up
    /\ up' = TRUE
    /\ held' = [t \in Ids |-> FALSE]
    /\ seen' = {file[t].of : t \in {u \in Ids : file[u] # NoTask}} \ {0}
    /\ UNCHANGED <<file, at, minted, loop, running, thread, counters>>

-----------------------------------------------------------------------------
Heal == HealStart \/ HealSkip \/ HealDecline \/ HealSettle \/ HealPut \/ HealEnd

BehaviorReturns(t) == ConsumerFail(t) \/ \E o \in Outcomes : ConsumerDeliver(t, o)

Ask(a) == \E v \in Verbs, t \in Ids : RequestFind(a, v, t)

Serve(a) ==
    \/ RequestClaim(a) \/ RequestLost(a) \/ RequestWrite(a)
    \/ RequestRename(a) \/ RequestDiscard(a)

Next ==
    \/ Submit
    \/ Dispatch
    \/ FinishTransfer
    \/ \E s \in StepQueues : ConsumerClaim(s)
    \/ \E t \in Ids : BehaviorReturns(t)
    \/ Heal
    \/ \E a \in Threads : Ask(a) \/ Serve(a)
    \/ Crash
    \/ Restart

Spec == Init /\ [][Next]_vars

\* Every loop of Harness.run() keeps ticking while its queue has work, an agent
\* that runs for long is timed out, a thread that has begun goes on, and the
\* service manager starts the harness again.  The operator need not ask.
Fairness ==
    /\ WF_vars(Dispatch) /\ WF_vars(FinishTransfer) /\ WF_vars(Heal)
    /\ \A s \in StepQueues : WF_vars(ConsumerClaim(s))
    /\ \A t \in Ids : WF_vars(BehaviorReturns(t))
    /\ \A a \in Threads : WF_vars(Serve(a))
    /\ WF_vars(Restart)

LiveSpec == Spec /\ Fairness
-----------------------------------------------------------------------------
(* Safety.                                                                 *)

EntryType == [actor : {DISPATCHER, CONSUMER, HEAL_ACTOR, OPERATOR},
              from : Statuses, to : Statuses,
              outcome : Outcomes \cup {None}, resumed : Statuses]

TaskType == [workflow : {s.workflow : s \in Submissions} \cup {HealWorkflow},
             step : {s.step : s \in Submissions} \cup {None},
             origin : {s.origin : s \in Submissions} \cup {"heal"},
             of : Ids \cup {0}, status : Statuses, last : Outcomes \cup {None},
             hist : Seq(EntryType)]

ASSUME NoTaskAssumption == NoTask \notin TaskType

Rests == {Free} \cup [stage : {"healing"}, todo : SUBSET Ids, obs : SUBSET Ids]
Transfers == [stage : {"moving"}, task : Ids, dest : Queues, then : Rests]
RequestType == [stage : {"found", "claimed", "written"}, verb : Verbs, task : Ids,
                queue : Queues, copy : TaskType]

TypeOK ==
    /\ file \in [Ids -> TaskType \cup {NoTask}]
    /\ at \in [Ids -> Queues \cup {Nowhere}]
    /\ held \in [Ids -> BOOLEAN]
    /\ minted \in 0 .. MaxTasks
    /\ up \in BOOLEAN
    /\ running \subseteq Ids /\ seen \subseteq Ids /\ torn \subseteq Ids
    /\ loop \in Rests \cup Transfers
    /\ thread \in [Threads -> RequestType \cup {NoRequest}]
    /\ \A t \in Ids : (file[t] = NoTask) <=> (at[t] = Nowhere)

\* Whoever has claimed t: the loop, an awaiting consumer, a request's thread.
Holders(t) ==
    {a \in Threads : thread[a].stage \in {"claimed", "written"}
                     /\ thread[a].task = t}
      \cup {x \in {"loop"} : loop.stage = "moving" /\ loop.task = t}
      \cup {x \in {"consumer"} : t \in running}

\* One holder per claimed task, none for an unclaimed one: a consumer that is
\* awaiting an agent, the loop and the operator's requests never act on the
\* same task, and no claim outlives its holder while the harness runs
\* (ports/queue.py: claim is "the lease"; app.py recover()).
OneHolder ==
    up => \A t \in Ids : Cardinality(Holders(t)) = IF held[t] THEN 1 ELSE 0

\* Step s ran to a delivery of `outcome' between the dispatch into s and hist[i].
Delivered(hist, i) ==
    \E j \in 1 .. i - 1 :
        /\ hist[j].actor = CONSUMER
        /\ hist[j].from = hist[i].from
        /\ hist[j].to = None
        /\ hist[j].outcome = hist[i].outcome
        /\ \A k \in j + 1 .. i - 1 : ~(hist[k].actor = DISPATCHER
                                       /\ hist[k].to = hist[i].from)

\* The resume before entry i sends the task once more round a loop of one step.
GoesRound(hist, i) ==
    /\ i > 1
    /\ hist[i].to = hist[i].from /\ hist[i - 1].resumed = hist[i].from

\* What a history shows when no step was skipped.
NoStepSkipped(t) ==
    file[t] # NoTask =>
        \A i \in DOMAIN file[t].hist :
            /\ file[t].hist[i].actor = DISPATCHER
            /\ file[t].hist[i].from \in Steps
            => Delivered(file[t].hist, i) \/ GoesRound(file[t].hist, i)

\* A task is dispatched past a step - onwards, to the end or to failed - only
\* on an outcome that step's consumer delivered since the task last entered
\* it, however often it is restarted, resumed, crashed or recovered.  Tasks a
\* crash caught in the middle of a transfer are left out.
DispatchFollowsDelivery == \A t \in Ids \ torn : NoStepSkipped(t)

\* The file of an unclaimed task agrees with the queue it lies in, or the
\* consumer of a step would work on a task of another and the operator's
\* verbs would not find the failure (router.py reads only the status).  A
\* declined failure that is resumed keeps the status `failed' in the inbox.
StatusMatchesQueue ==
    \A t \in Ids \ torn : file[t] # NoTask /\ ~held[t] =>
        CASE at[t] = Done -> file[t].status = END
          [] at[t] = Failed -> file[t].status = FAILED
          [] at[t] = Inbox -> \/ file[t].status \in Steps \cup {None}
                              \/ file[t].status = FAILED /\ AlreadyDeclined(file[t])
          [] OTHER -> file[t].status = at[t]

\* The healer wrote its decline note into the history before entry i.
DeclinedBefore(hist, i) ==
    \E j \in 1 .. i - 1 : hist[j].actor = HEAL_ACTOR /\ hist[j].to = FAILED

\* The step whose run, or whose outcome, ended in the newest failure before i.
StepThatFailed(hist, i) ==
    LET failures == {j \in 1 .. i - 1 : hist[j].to = FAILED /\ hist[j].from \in Steps}
    IN  hist[CHOOSE j \in failures : \A k \in failures : k <= j].from

Returns(hist, i) ==
    hist[i].resumed # None /\ i < Len(hist) =>
        /\ hist[i + 1].actor = DISPATCHER
        /\ hist[i + 1].to = StepThatFailed(hist, i)

\* A resume names no queue: it rewinds (status, lastOutcome) so that route()
\* sends the task into the very step it failed at (models.py:290-293).  Holds
\* for failures the healer has not declined.
ResumeReturns ==
    \A t \in Ids \ torn : file[t] # NoTask =>
        \A i \in DOMAIN file[t].hist :
            DeclinedBefore(file[t].hist, i) \/ Returns(file[t].hist, i)

\* "exactly once": the healer's note stays a note, across ticks, restarts of
\* the task, resumes and crashes (failed_tasks_check.py:173-180).
DeclinedOnce ==
    \A t \in Ids : file[t] # NoTask =>
        Cardinality({i \in DOMAIN file[t].hist :
            file[t].hist[i].actor = HEAL_ACTOR /\ file[t].hist[i].to = FAILED}) <= 1

HealTasksOf(t) == {u \in Ids : file[u] # NoTask /\ file[u].of = t}

\* At most one heal task lives for a failed task, over resumes, second
\* failures and restarts that rebuild the dedup keys from disk.
OneHealTask == \A t \in Ids : Cardinality(HealTasksOf(t)) <= 1

Retired(t) == at[t] = Done /\ ~held[t] /\ IsRetiredFailure(file[t])

\* A failure leaves failed/ unattended only when a heal task took it over.
\* Claims a crash cut short, and heal tasks the operator deleted, are left out.
RetiredHasHealTask ==
    \A t \in Ids \ torn :
        Retired(t) /\ t \notin Observed =>
            \/ HealTasksOf(t) # {}
            \/ \E u \in t + 1 .. minted : at[u] = Nowhere

\* The healer's memory, rebuilt from disk, keeps its books over all of that: a
\* failure has one heal task, one note when it is declined, and never leaves
\* failed/ for nothing.
HealedOnce == OneHealTask /\ DeclinedOnce /\ RetiredHasHealTask

\* What a restart or a resume takes back is a failure at the moment it takes
\* it, not only when the operator's thread looked: "an ordinary completion ...
\* can never be resumed" (models.py:350-354).
OnlyFailuresTaken ==
    [][\A a \in Threads :
          /\ thread[a].stage = "found" /\ thread[a].task \notin torn
          /\ thread'[a].stage = "claimed" /\ thread[a].verb # "delete"
          => \/ file[thread[a].task].status = FAILED
             \/ IsRetiredFailure(file[thread[a].task])]_vars

-----------------------------------------------------------------------------
(* Liveness, under Fairness and a bounded number of requests and crashes.  *)

\* Every task that enters the inbox comes to rest in done/ or failed/ (or is
\* deleted), over failures, second tasks ahead of it in a queue, operator
\* requests and a crash: nothing waits for ever in a queue or for a holder.
EveryTaskSettles ==
    \A t \in Ids : file[t] # NoTask ~>
        at[t] \in {Done, Failed, Nowhere} /\ ~held[t]

\* A failure is not left in failed/ unless the healer declines it: it is
\* retired into done/, or the operator took it, and a declined one gets the
\* note that says why.
EveryFailureIsAttended ==
    \A t \in Ids : Lies(t, Failed) ~>
        at[t] # Failed \/ (Declines(file[t]) /\ AlreadyDeclined(file[t]))
=============================================================================
