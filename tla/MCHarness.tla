----------------------------- MODULE MCHarness ------------------------------
(* Constants for checking Harness: three small workflows and the kinds of  *)
(* task that enter the inbox.                                              *)
EXTENDS Stats

Edge(from, on, to) == [from |-> from, on |-> on, to |-> to]

Flow(start, edges) == [start |-> start, transitions |-> edges]

\* "feature" loops back on rework; "detached" has a loop of one step, and an edge
\* to a step that was added after the queues were built.
MCGraph ==
    [w \in {"feature", "detached", "heal"} |->
        CASE w = "feature" ->
                Flow("plan", <<Edge("plan", "done", "develop"),
                               Edge("develop", "done", END),
                               Edge("develop", "redo", "plan")>>)
          [] w = "detached" -> Flow("plan", <<Edge("plan", "done", "deploy"),
                               Edge("plan", "redo", "plan")>>)
          [] w = "heal" -> Flow("mend", <<Edge("mend", "done", END)>>)]

MCSteps == {"plan", "develop", "deploy", "mend"}
MCStepQueues == {"plan", "develop", "mend"}

Submission(workflow, step, origin) ==
    [workflow |-> workflow, step |-> step, origin |-> origin]

Feature == {Submission("feature", None, "outside")}
HarnessFiled == {Submission(w, None, "harness") : w \in {"feature", "detached"}}
AllKinds == Feature \cup HarnessFiled
            \cup {Submission(None, "develop", "outside"),
                  Submission("unknown", None, "outside")}

\* What two of the theorems about Harness ask of its constants.
ASSUME HarnessHypotheses == ArchivedIsNoStep /\ Alone
=============================================================================
