------------------------------- MODULE Models -------------------------------
(***************************************************************************)
(* models.py and router.py: the task, its history, the workflow graph, the *)
(* routing decision and what the history of a failed task says about where *)
(* it can be resumed.  Pure operators, shared by every module that moves a *)
(* task.                                                                   *)
(***************************************************************************)
EXTENDS Naturals, Sequences

CONSTANTS
    Steps,       \* the step names of the served workflows
    Outcomes,    \* the outcome words an agent may report
    Graph        \* Graph[w]: the workflow named w, as on disk

None == "none"          \* Python's None, for a step, a status or an outcome
END == "end"            \* models.END
FAILED == "failed"      \* models.FAILED
HEAL_ACTOR == "failed-tasks"
DISPATCHER == "dispatcher"
OPERATOR == "operator"
CONSUMER == "consumer"  \* the actor "consumer:<step>": the step is in `from'

Statuses == Steps \cup {None, END, FAILED}

Workflow == [start : Steps, transitions : Seq([from : Steps, on : Outcomes,
                                               to : Steps \cup {END}])]

ASSUME ModelsAssumption ==
    /\ {None, END, FAILED} \cap Steps = {}
    /\ None \notin Outcomes
    /\ \A w \in DOMAIN Graph : Graph[w] \in Workflow
    /\ None \notin DOMAIN Graph

-----------------------------------------------------------------------------
(* The workflow graph.                                                     *)

\* The first matching edge decides, None when none matches.
Target(w, status, outcome) ==
    LET edges == Graph[w].transitions
        matches == {i \in DOMAIN edges : edges[i].from = status
                                         /\ edges[i].on = outcome}
    IN  IF matches = {} THEN None
        ELSE edges[CHOOSE i \in matches : \A j \in matches : i <= j].to

StepsOf(w) ==
    LET edges == Graph[w].transitions
    IN  ({Graph[w].start} \cup {edges[i].from : i \in DOMAIN edges}
                          \cup {edges[i].to : i \in DOMAIN edges}) \ {END}

-----------------------------------------------------------------------------
(* The routing decision: the pair (status, outcome) decides, alone.        *)

Fails == [kind |-> "fail", step |-> None]
Finishes == [kind |-> "finish", step |-> None]
MovesTo(s) == [kind |-> "move", step |-> s]

\* route(), for a task whose workflow - if it names one - is on disk.
Route(t) ==
    IF t.status = None
    THEN IF t.workflow # None THEN MovesTo(Graph[t.workflow].start)
         ELSE IF t.step \in {None, END, FAILED} THEN Fails
         ELSE MovesTo(t.step)
    ELSE IF t.last = None THEN Fails
    ELSE IF t.workflow = None THEN Finishes
    ELSE IF t.status \notin StepsOf(t.workflow) THEN Fails
    ELSE IF Target(t.workflow, t.status, t.last) \in {None, END} THEN Finishes
    ELSE MovesTo(Target(t.workflow, t.status, t.last))

-----------------------------------------------------------------------------
(* What a history says about the failure it records.                       *)

\* `resumed' stands for the reason text the operator's resume leaves.
Entry(actor, from, to, outcome) ==
    [actor |-> actor, from |-> from, to |-> to, outcome |-> outcome,
     resumed |-> None]

\* The newest entry that moves the task to `to', 0 when there is none.
NewestMoveTo(hist, to) ==
    LET moves == {i \in DOMAIN hist : hist[i].to = to}
    IN  IF moves = {} THEN 0
        ELSE CHOOSE i \in moves : \A j \in moves : j <= i

\* The step the most recent failure happened at; None when the task records
\* no failure, or one before it was ever in a step.
FailedStep(t) ==
    LET failing == NewestMoveTo(t.hist, FAILED)
    IN  IF failing = 0 THEN None ELSE t.hist[failing].from

\* Mutant: rewind to the failed step itself.
RewindToTheStep(t) == [status |-> FailedStep(t), last |-> t.last]

\* The (status, outcome) pair the task held before it entered that step.
Rewind(t) ==
    LET entered == NewestMoveTo(t.hist, FailedStep(t))
    IN  IF entered = 0 THEN [status |-> None, last |-> None]
        ELSE [status |-> t.hist[entered].from,
              last |-> t.hist[entered].outcome]

\* A `done' task that got there through the healer, not the workflow.
IsRetiredFailure(t) ==
    /\ t.status = END
    /\ t.hist # <<>>
    /\ LET last == t.hist[Len(t.hist)]
       IN  last.actor = HEAL_ACTOR /\ last.from = FAILED /\ last.to = END

\* Mutant: any task with a failure in its history.
HasFailed(t) == FailedStep(t) # None

\* Whether resumable_failure() finds a rewind target.
IsResumable(t) ==
    /\ IsRetiredFailure(t) \/ t.status = FAILED
    /\ FailedStep(t) # None
=============================================================================
