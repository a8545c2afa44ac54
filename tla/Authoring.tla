------------------------------ MODULE Authoring ------------------------------
(***************************************************************************)
(* What the operator authors - workflows, agents, processes, triggers, the *)
(* list of repositories - and the start that turns the files into a wired  *)
(* harness, or refuses.  Files are changed by hand, by `harness init', by  *)
(* `harness agent init' and by the dashboard of a running harness, which   *)
(* checks what it is given against the harness as it was started.  A file  *)
(* is what its parts say; texts that are no JSON, or have a part of the    *)
(* wrong shape, are `broken'.                                              *)
(***************************************************************************)
EXTENDS Naturals, FiniteSets

CONSTANTS
    Workflows, Processes, Triggers,    \* file names
    Steps,                             \* step names; also those of the agents
    Repositories,
    WorkflowTexts, ProcessTexts, TriggerTexts,   \* what an editor may write
    SeedWorkflows, SeedProcesses,      \* what `harness init' writes, by name
    Absent, None, END,
    MaxEdits                           \* bound

\* The landing step, to which no agent is needed.
Landing == "land"

\* Checks that every build has; the others are gated by a credential.
Builtin == {"always", "failed-tasks"}
Gate == [check \in {"github-issues", "jira-issues"} |->
            IF check = "jira-issues" THEN "jira" ELSE "github"]
Credentials == {"github", "jira"}

Personas == {"plain", "timed", "broken"}

\* Binding: the kind of finisher a workflow puts behind a step, and what its
\* factory makes of the rest: it replaces the agent, wraps it, or rejects it.
Bindings == [kind : STRING, config : {"replaces", "wraps", "rejected"}]
\* What a running harness was wired with.
Wirings == [env : SUBSET Credentials, served : SUBSET Workflows, queues : SUBSET Steps]
Targets == [workflow : Workflows \cup {None}, step : Steps \cup {None}]

ASSUME AuthoringAssumption ==
    /\ \A s \in Steps : s # END /\ s # None
    /\ None \notin Workflows /\ None \notin Wirings
    /\ Absent \notin WorkflowTexts \cup ProcessTexts /\ Absent \notin Personas
    /\ \A w \in DOMAIN SeedWorkflows : w \in Workflows /\ SeedWorkflows[w] \in WorkflowTexts
    /\ \A p \in DOMAIN SeedProcesses : p \in Processes /\ SeedProcesses[p] \in ProcessTexts
    /\ \A text \in ProcessTexts \cup TriggerTexts : text.target \in Targets
    /\ MaxEdits \in Nat

VARIABLES
    files,      \* what lies on disk
    env,        \* the credentials a start would find
    harness,    \* what the running harness was wired with; None when it is down
    edits,      \* a counter for the bound
    saved,      \* observer: since the start, only saves the dashboard accepted
    tampered    \* observer: somebody wrote what no seed and no check vouches for

vars == <<files, env, harness, edits, saved, tampered>>

Present(file) == {name \in DOMAIN file : file[name] # Absent}

----------------------------------------------------------------------------
\* A workflow file.  A part about a step the graph does not have is an error.
StepsOf(text) == ({text.start} \cup UNION {{edge.from, edge.to} : edge \in text.edges})
                    \ {END}

ASSUME TextsAssumption == \A text \in WorkflowTexts : StepsOf(text) \subseteq Steps

Parses(text) ==
    /\ ~text.broken
    /\ text.start # None
    /\ DOMAIN text.limits \cup DOMAIN text.finishers \cup text.described \subseteq StepsOf(text)
    /\ \A s \in DOMAIN text.limits : text.limits[s] >= 1

AgentLoads(f, s) == f.agents[s] \in {"plain", "timed"}

\* The finishers this run can wire.
Kinds(e) == {"open-pr", "verify", "open-issue", "merge-pr"}
              \cup (IF "github" \in e THEN {"label-issue"} ELSE {})
Rejects(binding) == binding.kind \in {"open-issue", "merge-pr"} /\ binding.config = "rejected"
CallsInner(binding) ==
    \/ binding.kind = "label-issue"
    \/ binding.kind \in {"open-issue", "merge-pr"} /\ binding.config = "wraps"

\* Every file is served, but for one whose finisher cannot be configured.
Readable(f) == {w \in Present(f.workflows) : Parses(f.workflows[w])}
Dropped(f) ==
    {w \in Readable(f) : \E s \in DOMAIN f.workflows[w].finishers :
                            Rejects(f.workflows[w].finishers[s])}
Kept(f) == Present(f.workflows) \ Dropped(f)

KindsKnown(f, e) ==
    \A w \in Readable(f) : \A s \in DOMAIN f.workflows[w].finishers :
        f.workflows[w].finishers[s].kind \in Kinds(e)

\* The two namespaces a target is looked up in.
KnownSteps(f) ==
    Present(f.agents) \cup UNION {StepsOf(f.workflows[w]) : w \in Kept(f) \cap Readable(f)}
Known(target, steps, names) ==
    \/ target.workflow # None /\ target.step = None /\ target.workflow \in names
    \/ target.workflow = None /\ target.step \in steps

\* Every queue has a behaviour: its finisher, the landing, or an agent.
BindingsOf(f, s) ==
    {f.workflows[w].finishers[s] :
        w \in {v \in Kept(f) : s \in DOMAIN f.workflows[v].finishers}}
Wired(f, s) ==
    IF BindingsOf(f, s) # {}
    THEN \A b \in BindingsOf(f, s) : ~Rejects(b) /\ (CallsInner(b) => AgentLoads(f, s))
    ELSE s = Landing \/ AgentLoads(f, s)

WorkflowsBuild(f) ==
    /\ Kept(f) \subseteq Readable(f)
    /\ \A s \in KnownSteps(f) : Cardinality(BindingsOf(f, s)) <= 1 /\ Wired(f, s)

----------------------------------------------------------------------------
\* A process file, as compile_process sees it.  The trigger block is read first
\* (`cadence'), then the action, and the credential of its check before its
\* params; `param' is params.repository, `rest' that params, target, dedup and
\* sink have a legal form.
NoCredential(text, e) == text.check \in DOMAIN Gate /\ Gate[text.check] \notin e

RepositoryKnown(text, repositories) == text.repository \in repositories \cup {None}

Compiles(text, e, steps, names, repositories) ==
    /\ ~text.broken /\ text.cadence /\ text.rest
    /\ text.check \in Builtin \cup DOMAIN Gate
    /\ ~NoCredential(text, e)
    /\ text.check = "failed-tasks" => text.param \in repositories \cup {None}
    /\ text.check = "jira-issues" => text.param \in repositories
    /\ RepositoryKnown(text, repositories)
    /\ Known(text.target, steps, names)

Ignored(f, p) == f.processes[p].target.workflow \in Dropped(f) /\ ~f.processes[p].broken
SkippedNever(f, e, p) == FALSE     \* mutant: a missing credential stops the start

Skipped(f, e, p) ==
    LET text == f.processes[p]
    IN  ~text.broken /\ text.cadence /\ NoCredential(text, e)
Compiled(f, e) == {p \in Present(f.processes) : ~Ignored(f, p) /\ ~Skipped(f, e, p)}

\* Two processes must not claim issues by one label.
Collide(f, e) ==
    \E p, q \in Compiled(f, e) :
        /\ p # q
        /\ f.processes[p].check = "github-issues" /\ f.processes[q].check = "github-issues"
        /\ f.processes[p].labels \cap f.processes[q].labels # {}

ProcessesBuild(f, e) ==
    \A p \in Compiled(f, e) :
        Compiles(f.processes[p], e, KnownSteps(f), Kept(f), f.repositories)

\* A trigger file knows the built-in checks alone.
TriggersBuild(f) ==
    \A t \in Present(f.triggers) :
        LET text == f.triggers[t]
        IN  text.sound /\ text.check \in Builtin \ {"failed-tasks"}
            /\ Known(text.target, KnownSteps(f), Kept(f))

Builds(f, e) ==
    KindsKnown(f, e) /\ WorkflowsBuild(f) /\ TriggersBuild(f) /\ ProcessesBuild(f, e)
Starts(f, e) == Builds(f, e) /\ ~Collide(f, e)

WiringWithEnd(f, e) ==      \* mutant: the end of a graph is taken for a step
    [env |-> e, served |-> Kept(f), queues |-> KnownSteps(f) \cup {END}]

Wiring(f, e) == [env |-> e, served |-> Kept(f), queues |-> KnownSteps(f)]

----------------------------------------------------------------------------
\* `harness init' writes what is missing, then the agents of the steps of its
\* workflows as they are now on disk, unless one of those cannot be read.
Filled(file, seeds) ==
    [name \in DOMAIN file |->
        IF file[name] = Absent /\ name \in DOMAIN seeds THEN seeds[name] ELSE file[name]]

NeedsAgent(ws, s) ==
    /\ s # Landing
    /\ \E w \in DOMAIN SeedWorkflows : s \in StepsOf(ws[w]) /\ s \notin DOMAIN ws[w].finishers

\* Mutant: the agents are forgotten.
SeededFilesOnly(f) ==
    [f EXCEPT !.workflows = Filled(f.workflows, SeedWorkflows),
              !.processes = Filled(f.processes, SeedProcesses)]

Seeded(f) ==
    LET ws == Filled(f.workflows, SeedWorkflows)
        readable == \A w \in DOMAIN SeedWorkflows : Parses(ws[w])
    IN  [f EXCEPT !.workflows = ws,
                  !.processes = Filled(f.processes, SeedProcesses),
                  !.agents = [s \in Steps |->
                      IF f.agents[s] = Absent /\ readable /\ NeedsAgent(ws, s)
                      THEN "plain" ELSE f.agents[s]]]

\* A root with nothing in it.
Fresh == [workflows |-> [w \in Workflows |-> Absent],
          agents |-> [s \in Steps |-> Absent],
          processes |-> [p \in Processes |-> Absent],
          triggers |-> [t \in Triggers |-> Absent],
          repositories |-> {}]

Init ==
    /\ files = Fresh
    /\ env \in SUBSET Credentials
    /\ harness = None
    /\ edits = 0
    /\ saved = FALSE /\ tampered = FALSE

HarnessInit ==
    /\ files' = Seeded(files)
    /\ saved' = (saved /\ files' = files)
    /\ UNCHANGED <<env, harness, edits, tampered>>

AgentInit(w, s, force) ==
    /\ edits < MaxEdits
    /\ w \in Readable(files) /\ s \in StepsOf(files.workflows[w]) /\ s # Landing
    /\ files.agents[s] = Absent \/ force
    /\ files' = [files EXCEPT !.agents[s] = "plain"]
    /\ edits' = edits + 1
    /\ saved' = FALSE
    /\ UNCHANGED <<env, harness, tampered>>

----------------------------------------------------------------------------
\* The dashboard.  A file is written when the text compiles - a process against
\* what the harness was started with - and else nothing happens.
Edit(isSave, vouched) ==
    /\ edits < MaxEdits
    /\ edits' = edits + 1
    /\ saved' = (saved /\ isSave)
    /\ tampered' = (tampered \/ ~vouched)
    /\ UNCHANGED <<env, harness>>
Dashboard == harness # None /\ edits < MaxEdits

WriteProcessAnywhere(p, text) ==      \* mutant: any target will do
    /\ Dashboard
    /\ Compiles(text, harness.env, Steps, Workflows, files.repositories)
    /\ files' = [files EXCEPT !.processes[p] = text]
    /\ Edit(TRUE, TRUE)

WriteProcess(p, text) ==
    /\ Dashboard
    /\ Compiles(text, harness.env, harness.queues, harness.served, files.repositories)
    /\ files' = [files EXCEPT !.processes[p] = text]
    /\ Edit(TRUE, TRUE)

\* The forms of what is new refuse a name that is taken.
CreateProcess(p, text) == files.processes[p] = Absent /\ WriteProcess(p, text)

DeleteProcess(p) ==
    /\ Dashboard
    /\ files.processes[p] # Absent
    /\ files' = [files EXCEPT !.processes[p] = Absent]
    /\ Edit(TRUE, TRUE)

\* A saved agent is what the form says; a timeout of its own is not in the form.
WriteAgent(s) ==
    /\ Dashboard
    /\ files' = [files EXCEPT !.agents[s] = "plain"]
    /\ Edit(TRUE, TRUE)

CreateAgent(s) == files.agents[s] = Absent /\ WriteAgent(s)

DeleteAgent(s) ==
    /\ Dashboard
    /\ files.agents[s] # Absent
    /\ files' = [files EXCEPT !.agents[s] = Absent]
    /\ Edit(FALSE, \E w \in DOMAIN SeedWorkflows : s \in StepsOf(SeedWorkflows[w]))

\* Only the form of the workflow is checked, not what a start makes of it.
WriteWorkflow(w, text) ==
    /\ Dashboard
    /\ Parses(text)
    /\ files' = [files EXCEPT !.workflows[w] = text]
    /\ Edit(FALSE, FALSE)

CreateWorkflow(w, text) == files.workflows[w] = Absent /\ WriteWorkflow(w, text)

DeleteWorkflow(w) ==
    /\ Dashboard
    /\ files.workflows[w] # Absent
    /\ files' = [files EXCEPT !.workflows[w] = Absent]
    /\ Edit(FALSE, w \in DOMAIN SeedWorkflows)

----------------------------------------------------------------------------
\* Somebody with an editor, and the environment of the next start.
ByHand ==
    /\ edits < MaxEdits
    /\ \/ \E w \in Workflows, text \in WorkflowTexts :
              files' = [files EXCEPT !.workflows[w] = text]
       \/ \E s \in Steps, persona \in Personas :
              files' = [files EXCEPT !.agents[s] = persona]
       \/ \E p \in Processes, text \in ProcessTexts :
              files' = [files EXCEPT !.processes[p] = text]
       \/ \E t \in Triggers, text \in TriggerTexts \cup {Absent} :
              files' = [files EXCEPT !.triggers[t] = text]
       \/ \E r \in SUBSET Repositories :
              files' = [files EXCEPT !.repositories = r]
    /\ files' # files
    /\ Edit(FALSE, FALSE)

SetCredentials ==
    /\ edits < MaxEdits
    /\ env' \in SUBSET Credentials /\ env' # env
    /\ edits' = edits + 1
    /\ UNCHANGED <<files, harness, saved, tampered>>

----------------------------------------------------------------------------
\* A start that cannot wire everything exits and leaves nothing behind.
Start ==
    /\ harness = None
    /\ Starts(files, env)
    /\ harness' = Wiring(files, env)
    /\ saved' = TRUE
    /\ UNCHANGED <<files, env, edits, tampered>>

Stop ==
    /\ harness # None
    /\ harness' = None
    /\ saved' = FALSE
    /\ UNCHANGED <<files, env, edits, tampered>>

Next ==
    \/ HarnessInit
    \/ \E w \in Workflows, s \in Steps, force \in BOOLEAN : AgentInit(w, s, force)
    \/ \E p \in Processes, text \in ProcessTexts :
          CreateProcess(p, text) \/ WriteProcess(p, text)
    \/ \E p \in Processes : DeleteProcess(p)
    \/ \E s \in Steps : CreateAgent(s) \/ WriteAgent(s) \/ DeleteAgent(s)
    \/ \E w \in Workflows, text \in WorkflowTexts :
          CreateWorkflow(w, text) \/ WriteWorkflow(w, text)
    \/ \E w \in Workflows : DeleteWorkflow(w)
    \/ ByHand \/ SetCredentials
    \/ Start \/ Stop

Spec == Init /\ [][Next]_vars

----------------------------------------------------------------------------
TypeOK ==
    /\ files.workflows \in [Workflows -> WorkflowTexts \cup {Absent}]
    /\ files.agents \in [Steps -> Personas \cup {Absent}]
    /\ files.processes \in [Processes -> ProcessTexts \cup {Absent}]
    /\ files.triggers \in [Triggers -> TriggerTexts \cup {Absent}]
    /\ files.repositories \subseteq Repositories
    /\ env \subseteq Credentials
    /\ harness \in Wirings \cup {None}
    /\ edits \in 0 .. MaxEdits
    /\ saved => harness # None

\* What the dashboard accepted does not stop the next start: a harness whose
\* files changed by saved processes and agents alone would start again, but for
\* two processes that claim one label, which a save cannot see
\* (FilesystemProcessAdmin.write against compile_process and build()).
SavedStarts == saved => Builds(files, harness.env)

\* No token is not fatal: what starts with every credential starts without,
\* unless a workflow binds the finisher that only a token registers
\* (MissingCredential, FilesystemProcessRepository.build, _run).
NeedsToken(f) ==
    \E w \in Readable(f) : \E s \in DOMAIN f.workflows[w].finishers :
        f.workflows[w].finishers[s].kind = "label-issue"
TokenlessStarts ==
    Starts(files, Credentials) /\ ~NeedsToken(files) => Starts(files, {})

\* `harness init' makes a root that starts, and mends one from which seeded
\* files have been deleted, whatever was saved in the dashboard meanwhile and
\* with or without a token (_init, _write_default_agents, _ensure_...).
InitMends ==
    ~tampered => \A e \in {env, {}} : Builds(Seeded(files), e)
=============================================================================
