------------------------------- MODULE Ingest -------------------------------
(***************************************************************************)
(* Issues become tasks and tasks label issues.  The event loop polls the   *)
(* issues that carry the `todo' label, claims each one by swapping the     *)
(* label over the network, and puts a task whose identity has not been     *)
(* seen; an operator's import puts one from a thread of its own; and what  *)
(* happens to a task is reflected back as the label of its issue.          *)
(*                                                                         *)
(* Every network call is a step (the removals of a reflection are one):    *)
(* other threads, people on GitHub, GitHub's own lagging index and a crash *)
(* come between any two of them.  What the queues do to a task in between  *)
(* is reduced to where it lies and whether a listing sees it; Harness has  *)
(* it in full.                                                             *)
(***************************************************************************)
EXTENDS Naturals, Sequences, FiniteSets

CONSTANTS
    Issues,
    Threads,       \* request threads serving an import
    StepLabels,    \* the labels of the steps that have one
    PollKind,      \* "github", or the kind of the process that polls instead
    None,
    MaxWants, MaxRequests, MaxImports, MaxCrashes, MaxErrors   \* bounds

\* Labels the harness sets and removes, and the one that asks for work.
Todo == "todo"
Queued == "queued"
PrOpen == "pr-open"
FailedLabel == "failed"
Managed == {Queued, PrOpen, FailedLabel} \cup StepLabels
Labels == Managed \cup {Todo}

\* Where a task lies: the queues in the order an import looks through them.
\* (OpenQueueOrder, UnfinishedPlaces: mutants that leave out what is settled.)
OpenQueueOrder == <<"inbox", "step", "done", "failed">>
QueueOrder == <<"inbox", "step", "done", "failed", "retired">>
UnfinishedPlaces == {"inbox", "step"}
Seeding == {"inbox", "step", "done", "failed"}   \* what a start reads
Nowhere == "nowhere"                              \* deleted
Places == {QueueOrder[n] : n \in DOMAIN QueueOrder} \cup {Nowhere}

ASSUME IngestAssumption ==
    /\ PollKind # None
    /\ StepLabels \cap {Todo, Queued, PrOpen, FailedLabel} = {}
    /\ None \notin Labels \cup Issues
    /\ {MaxWants, MaxRequests, MaxImports, MaxCrashes, MaxErrors} \subseteq Nat

VARIABLES
    labels,    \* labels[i]: what the issue carries
    listing,   \* the issues GitHub's index lists under `todo'; it lags
    claimed,   \* the source's ledger of the issues it has claimed
    seen,      \* the poller's dedup keys
    tasks,     \* every task ever put, in the order of their creation
    loop,      \* what the event loop is in the middle of
    import,    \* import[a]: how far a's request has got
    wants, requests, imports, crashes, errors,   \* counters for the bounds
    told       \* observer: told[n] is the last label reflected for task n

vars == <<labels, listing, claimed, seen, tasks, loop, import,
          wants, requests, imports, crashes, errors, told>>
counters == <<wants, requests, imports, crashes, errors>>

Down == [stage |-> "down"]
Free == [stage |-> "free"]
\* A poll: the issues left to claim, the one whose label is half swapped, and
\* those claimed, whose tasks poll() will return.
Polling(todo, half, batch) ==
    [stage |-> "polling", todo |-> todo, half |-> half, batch |-> batch]
Putting(batch) == [stage |-> "putting", batch |-> batch]
\* A reflection: the other labels are to be removed, or only `target' added.
Telling(n, target, cleared) ==
    [stage |-> "telling", task |-> n, target |-> target, cleared |-> cleared]

NoImport == [stage |-> "none"]
\* A request: the queues it has looked through, and (observers) the tasks of
\* the same identity when it began, and which of them have lain still since.
Import(stage, i, looked, known, still) ==
    [stage |-> stage, issue |-> i, looked |-> looked,
     known |-> known, still |-> still]

Init ==
    /\ labels = [i \in Issues |-> {}]
    /\ listing = {}
    /\ claimed = {} /\ seen = {}
    /\ tasks = <<>> /\ told = <<>>
    /\ loop = Free
    /\ import = [a \in Threads |-> NoImport]
    /\ wants = 0 /\ requests = 0 /\ imports = 0 /\ crashes = 0 /\ errors = 0

TasksFor(i) == {n \in DOMAIN tasks : tasks[n].issue = i}
Lies(n, q) == tasks[n].at = q /\ ~tasks[n].held

\* A task that moves, or is claimed, no longer lies still for any request.
Stirred(n) ==
    [a \in Threads |->
        IF import[a] = NoImport THEN NoImport
        ELSE [import[a] EXCEPT !.still = @ \ {n}]]

\* The dedup key: an import's is that of the github source, a poll's that of
\* the source or of the process that polls.
Key(by, i) == <<IF by = "poll" THEN PollKind ELSE "github", i>>
KeyOf(n) == Key(tasks[n].by, tasks[n].issue)

Matches(n, i) == KeyOf(n) = Key("import", i)
Visible(n) == tasks[n].at # Nowhere /\ ~tasks[n].held

Put(by, i) ==
    /\ tasks' = Append(tasks, [issue |-> i, by |-> by,
                               at |-> "inbox", held |-> FALSE])
    /\ told' = Append(told, None)

AddLabel(i, l) == labels' = [labels EXCEPT ![i] = @ \cup {l}]
RemoveLabel(i, l) == labels' = [labels EXCEPT ![i] = @ \ {l}]

\* A call that raises: GitHub may have carried it out, or not.
CallRaises(i, wanted) ==
    /\ errors < MaxErrors
    /\ errors' = errors + 1
    /\ \/ labels' = [labels EXCEPT ![i] = wanted]
       \/ UNCHANGED labels

-----------------------------------------------------------------------------
(* GitHub and the people on it.                                            *)

\* Someone labels an issue, for the first time or after its task has failed.
Want(i) ==
    /\ wants < MaxWants
    /\ Todo \notin labels[i]
    /\ AddLabel(i, Todo)
    /\ wants' = wants + 1
    /\ UNCHANGED <<listing, claimed, seen, tasks, loop, import,
                   requests, imports, crashes, errors, told>>

\* The index that list_issues() reads catches up with a label.
IndexCatchesUp(i) ==
    /\ (i \in listing) # (Todo \in labels[i])
    /\ listing' = IF Todo \in labels[i] THEN listing \cup {i}
                  ELSE listing \ {i}
    /\ UNCHANGED <<labels, claimed, seen, tasks, loop, import, counters, told>>

-----------------------------------------------------------------------------
(* A poll: SourcePoller.tick() around the source's poll().                 *)

PollList ==
    /\ loop = Free
    /\ listing \ claimed # {}
    /\ loop' = Polling(listing \ claimed, None, {})
    /\ UNCHANGED <<labels, listing, claimed, seen, tasks, import,
                   counters, told>>

\* The ledger is written before the first of the two calls.
PollClaims(i) ==
    /\ loop.stage = "polling"
    /\ i \in loop.todo
    /\ loop.half = None
    /\ claimed' = claimed \cup {i}

PollRemove(i) ==
    /\ PollClaims(i)
    /\ RemoveLabel(i, Todo)
    /\ loop' = [loop EXCEPT !.half = i]
    /\ UNCHANGED <<listing, seen, tasks, import, counters, told>>

\* Mutant: only the last issue of the batch is returned.
PollAddForgets ==
    /\ loop.stage = "polling"
    /\ loop.half # None
    /\ AddLabel(loop.half, Queued)
    /\ LET todo == loop.todo \ {loop.half}
       IN loop' = IF todo = {} THEN Putting({loop.half})
                  ELSE Polling(todo, None, {})
    /\ UNCHANGED <<listing, claimed, seen, tasks, import, counters, told>>

PollAdd ==
    /\ loop.stage = "polling"
    /\ loop.half # None
    /\ AddLabel(loop.half, Queued)
    /\ LET todo == loop.todo \ {loop.half}
           batch == loop.batch \cup {loop.half}
       IN loop' = IF todo = {} THEN Putting(batch)
                  ELSE Polling(todo, None, batch)
    /\ UNCHANGED <<listing, claimed, seen, tasks, import, counters, told>>

\* Either call raises: the exception leaves poll() with the whole batch.
PollRaises ==
    /\ \/ \E i \in Issues :
            /\ PollClaims(i)
            /\ CallRaises(i, labels[i] \ {Todo})
       \/ /\ loop.stage = "polling"
          /\ loop.half # None
          /\ CallRaises(loop.half, labels[loop.half] \cup {Queued})
          /\ UNCHANGED claimed
    /\ loop' = Free
    /\ UNCHANGED <<listing, seen, tasks, import,
                   wants, requests, imports, crashes, told>>

AfterPut(i) ==
    IF loop.batch = {i} THEN Free ELSE Putting(loop.batch \ {i})

PollPut(i) ==
    /\ loop.stage = "putting"
    /\ i \in loop.batch
    /\ Key("poll", i) \notin seen
    /\ seen' = seen \cup {Key("poll", i)}
    /\ Put("poll", i)
    /\ loop' = AfterPut(i)
    /\ UNCHANGED <<labels, listing, claimed, import, counters>>

PollDrop(i) ==
    /\ loop.stage = "putting"
    /\ i \in loop.batch
    /\ Key("poll", i) \in seen
    /\ loop' = AfterPut(i)
    /\ UNCHANGED <<labels, listing, claimed, seen, tasks, import,
                   counters, told>>

-----------------------------------------------------------------------------
(* The life of a task, as far as a listing and the labels can tell.        *)

MoveTo(n, q) ==
    /\ tasks' = [tasks EXCEPT ![n].at = q, ![n].held = FALSE]
    /\ import' = Stirred(n)

Hold(n) ==
    /\ tasks' = [tasks EXCEPT ![n].held = TRUE]
    /\ import' = Stirred(n)

\* The event the reflector sees: which label the task's new state calls for.
Tell(n, target) ==
    /\ loop' = Telling(n, target, FALSE)
    /\ told' = [told EXCEPT ![n] = target]

TellNothing ==
    /\ loop' = Free
    /\ UNCHANGED told

\* The dispatcher's tick, a step here because it awaits nothing.
Dispatch(n) ==
    /\ loop = Free
    /\ Lies(n, "inbox")
    /\ \/ MoveTo(n, "step") /\ \E l \in StepLabels : Tell(n, l)
       \/ MoveTo(n, "step") /\ TellNothing
       \/ MoveTo(n, "done") /\ Tell(n, PrOpen)
       \/ MoveTo(n, "failed") /\ Tell(n, FailedLabel)
    /\ UNCHANGED <<labels, listing, claimed, seen, counters>>

\* Mutant: into a directory that is no queue.
RetireUnlisted(n) ==
    /\ loop = Free
    /\ \E q \in Seeding : Lies(n, q)
    /\ MoveTo(n, "archive")
    /\ TellNothing
    /\ UNCHANGED <<labels, listing, claimed, seen, counters>>

\* A reconciler's tick: the task goes to archived/, from wherever it lies when
\* its issue was closed, from done/ when its time has come.
Retire(n) ==
    /\ loop = Free
    /\ \E q \in Seeding : Lies(n, q)
    /\ MoveTo(n, "retired")
    /\ TellNothing
    /\ UNCHANGED <<labels, listing, claimed, seen, counters>>

\* The healer retires a failure into done/; its event has no label.
Heal(n) ==
    /\ loop = Free
    /\ Lies(n, "failed")
    /\ MoveTo(n, "done")
    /\ TellNothing
    /\ UNCHANGED <<labels, listing, claimed, seen, counters>>

\* A consumer holds its task for as long as the behavior runs.
Consume(n) ==
    /\ loop = Free
    /\ Lies(n, "step")
    /\ Hold(n)
    /\ UNCHANGED <<labels, listing, claimed, seen, loop, counters, told>>

BehaviorReturns(n) ==
    /\ loop = Free
    /\ tasks[n].at = "step"
    /\ tasks[n].held
    /\ \/ MoveTo(n, "inbox") /\ TellNothing
       \/ MoveTo(n, "failed") /\ Tell(n, FailedLabel)
    /\ UNCHANGED <<labels, listing, claimed, seen, counters>>

\* The operator's restart, resume and delete, in a thread of its own.
Operator ==
    /\ loop # Down
    /\ requests < MaxRequests
    /\ requests' = requests + 1
    /\ UNCHANGED <<labels, listing, claimed, seen, loop,
                   wants, imports, crashes, errors, told>>

SendBack(n) ==
    /\ Operator
    /\ Lies(n, "failed") \/ Lies(n, "done")
    /\ MoveTo(n, "inbox")

Delete(n) ==
    /\ Operator
    /\ \E q \in Seeding : Lies(n, q)
    /\ MoveTo(n, Nowhere)

\* GithubLabelReflector._set_state: the others go first; target is added last.
ClearLabels(removed) ==
    /\ loop.stage = "telling"
    /\ ~loop.cleared
    /\ LET i == tasks[loop.task].issue
       IN labels' = [labels EXCEPT ![i] = @ \ (removed \ {loop.target})]
    /\ loop' = [loop EXCEPT !.cleared = TRUE]
    /\ UNCHANGED <<listing, claimed, seen, tasks, import, counters, told>>

\* Mutant: another set than the one the reflector manages is removed.
TellRemoveState == ClearLabels(Managed \ {Queued})
TellRemove == ClearLabels(Managed)

TellAdd ==
    /\ loop.stage = "telling"
    /\ loop.cleared
    /\ AddLabel(tasks[loop.task].issue, loop.target)
    /\ loop' = Free
    /\ UNCHANGED <<listing, claimed, seen, tasks, import, counters, told>>

\* A call raises, with any of the others removed: CompositeEventSink swallows
\* it, and nobody tells again.
TellRaises ==
    /\ loop.stage = "telling"
    /\ LET i == tasks[loop.task].issue
       IN IF loop.cleared
          THEN CallRaises(i, labels[i] \cup {loop.target})
          ELSE \E gone \in SUBSET (Managed \ {loop.target}) :
                  CallRaises(i, labels[i] \ gone)
    /\ loop' = Free
    /\ UNCHANGED <<listing, claimed, seen, tasks, import,
                   wants, requests, imports, crashes, told>>

-----------------------------------------------------------------------------
(* GithubIssueImportService.add(), in the thread of the request.           *)

ImportOpen(a, i) ==
    /\ loop # Down
    /\ imports < MaxImports
    /\ import[a] = NoImport
    /\ imports' = imports + 1
    /\ import' = [import EXCEPT ![a] =
                    Import("looking", i, 0,
                           {n \in TasksFor(i) : Matches(n, i) /\ tasks[n].at # Nowhere},
                           {n \in TasksFor(i) : Matches(n, i) /\ Visible(n)})]
    /\ UNCHANGED <<labels, listing, claimed, seen, tasks, loop,
                   wants, requests, crashes, errors, told>>

\* _find_by_dedup_key lists one queue after another.
ImportLook(a) ==
    /\ import[a].stage = "looking"
    /\ LET n == import[a].looked + 1
           found == \E t \in TasksFor(import[a].issue) :
                        /\ Lies(t, QueueOrder[n])
                        /\ Matches(t, import[a].issue)
       IN import' =
            [import EXCEPT ![a] =
                IF found THEN NoImport
                ELSE [@ EXCEPT !.looked = n,
                               !.stage = IF n = Len(QueueOrder)
                                         THEN "labelling" ELSE "looking"]]
    /\ UNCHANGED <<labels, listing, claimed, seen, tasks, loop, counters, told>>

\* The label is a courtesy: the task is put whether or not the call raises.
ImportLabel(a) ==
    /\ import[a].stage = "labelling"
    /\ \/ AddLabel(import[a].issue, Queued) /\ UNCHANGED errors
       \/ CallRaises(import[a].issue, labels[import[a].issue] \cup {Queued})
    /\ import' = [import EXCEPT ![a].stage = "putting"]
    /\ UNCHANGED <<listing, claimed, seen, tasks, loop,
                   wants, requests, imports, crashes, told>>

ImportPut(a) ==
    /\ import[a].stage = "putting"
    /\ Put("import", import[a].issue)
    /\ import' = [import EXCEPT ![a] = NoImport]
    /\ UNCHANGED <<labels, listing, claimed, seen, loop, counters>>

-----------------------------------------------------------------------------
(* A crash, and the next start: recover(), then _seed_pollers().           *)

Crash ==
    /\ loop # Down
    /\ crashes < MaxCrashes
    /\ crashes' = crashes + 1
    /\ loop' = Down
    /\ claimed' = {} /\ seen' = {}
    /\ import' = [a \in Threads |-> NoImport]
    /\ UNCHANGED <<labels, listing, tasks, wants, requests, imports, errors, told>>

Recovered == [n \in DOMAIN tasks |-> [tasks[n] EXCEPT !.held = FALSE]]

Start ==
    /\ loop = Down
    /\ tasks' = Recovered
    /\ seen' = {KeyOf(n) : n \in {m \in DOMAIN tasks :
                                      Recovered[m].at \in Seeding}}
    /\ loop' = Free
    /\ UNCHANGED <<labels, listing, claimed, import, counters, told>>

-----------------------------------------------------------------------------
PollStep ==
    \/ PollAdd \/ PollRaises
    \/ \E i \in Issues : PollRemove(i) \/ PollPut(i) \/ PollDrop(i)
TellStep == TellRemove \/ TellAdd \/ TellRaises
LoopStep == PollStep \/ TellStep
ImportStep(a) == ImportLook(a) \/ ImportLabel(a) \/ ImportPut(a)

Next ==
    \/ \E i \in Issues : Want(i) \/ IndexCatchesUp(i)
    \/ PollList \/ LoopStep
    \/ \E n \in DOMAIN tasks :
          \/ Dispatch(n) \/ Consume(n) \/ BehaviorReturns(n)
          \/ Heal(n) \/ Retire(n) \/ SendBack(n) \/ Delete(n)
    \/ \E a \in Threads : ImportStep(a) \/ \E i \in Issues : ImportOpen(a, i)
    \/ Crash \/ Start

\* The index catches up, a tick that has begun goes on, and the event loop
\* takes its ready coroutines in turn, so that the poller's turn comes however
\* busy the others keep it.  Nothing is assumed of people, tasks or behaviors.
Fairness ==
    /\ \A i \in Issues : WF_vars(IndexCatchesUp(i))
    /\ WF_vars(LoopStep)
    /\ SF_vars(PollList)
    /\ WF_vars(Start)

Spec == Init /\ [][Next]_vars /\ Fairness

-----------------------------------------------------------------------------
(* Properties.                                                             *)

Task == [issue : Issues, by : {"poll", "import"}, at : Places, held : BOOLEAN]
LoopState ==
    {Down, Free}
      \cup [stage : {"polling"}, todo : SUBSET Issues,
            half : Issues \cup {None}, batch : SUBSET Issues]
      \cup [stage : {"putting"}, batch : SUBSET Issues]
      \cup [stage : {"telling"}, task : DOMAIN tasks, target : Managed,
            cleared : BOOLEAN]
ImportState ==
    {NoImport}
      \cup [stage : {"looking"}, issue : Issues,
            looked : 0 .. Len(QueueOrder) - 1,
            known : SUBSET DOMAIN tasks, still : SUBSET DOMAIN tasks]
      \cup [stage : {"labelling", "putting"}, issue : Issues,
            looked : {Len(QueueOrder)},
            known : SUBSET DOMAIN tasks, still : SUBSET DOMAIN tasks]

\* Every variable has its type: what the loop and a request are in the middle
\* of refers to issues, tasks and labels that exist.
TypeOK ==
    /\ labels \in [Issues -> SUBSET Labels]
    /\ listing \subseteq Issues
    /\ claimed \subseteq Issues
    /\ seen \subseteq {PollKind, "github"} \X Issues
    /\ tasks \in Seq(Task)
    /\ told \in Seq(Managed \cup {None})
    /\ Len(told) = Len(tasks)
    /\ loop \in LoopState
    /\ import \in [Threads -> ImportState]
    /\ {wants, requests, imports, crashes, errors} \subseteq Nat

\* Polling never makes a second task of an issue while the first is neither
\* retired nor deleted: not when the index lags, not when someone labels the
\* issue again, not when a call raises, and not across a restart, which loses
\* the ledger (the ledger of poll() and the keys of SourcePoller together).
PolledOnce ==
    \A n, m \in DOMAIN tasks :
        /\ tasks[n].by = "poll" /\ tasks[m].by = "poll"
        /\ {tasks[n].at, tasks[m].at} \cap {Nowhere, "retired"} = {}
        /\ tasks[n].issue = tasks[m].issue
        => n = m

\* An issue never carries the labels of two states, whatever raised or
\* crashed in between and however many tasks it has (_set_state removes
\* before it adds).  `queued' is apart: a claim sets it beside what is there.
OneStateLabel ==
    \A i \in Issues :
        \A l, m \in labels[i] \cap (Managed \ {Queued}) : l = m

\* As long as nothing raised or crashed, an issue with a single task carries,
\* of the harness's labels, exactly the one of the last state its task was in
\* that has a label, or `queued' if none had: no poll, import, restart or
\* deletion disturbs it.
LabelTellsState ==
    \A n \in DOMAIN tasks :
        LET i == tasks[n].issue
        IN (/\ errors = 0 /\ crashes = 0
            /\ loop = Free
            /\ TasksFor(i) = {n}
            /\ \A a \in Threads : ~(import[a].stage = "putting" /\ import[a].issue = i))
           => labels[i] \cap Managed =
                {IF told[n] = None THEN Queued ELSE told[n]}

\* An import never puts a task beside one that lay where a listing sees it,
\* in whatever queue, healed/ and archived/ among them, from before the import
\* began until it puts.
ImportFindsResting ==
    [][\A a \in Threads : ImportPut(a) => import[a].still = {}]_vars

\* An issue someone labels becomes a task, if no call raises and the process
\* does not crash: neither the lag of the index, nor the ledger, nor a busy
\* loop keeps it out for ever.
WantedBecomesTask ==
    \A i \in Issues :
        Todo \in labels[i] ~> (TasksFor(i) # {} \/ errors > 0 \/ crashes > 0)
=============================================================================
