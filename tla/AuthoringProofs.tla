-------------------------- MODULE AuthoringProofs --------------------------
(***************************************************************************)
(* What the dashboard's checks and a missing credential mean for the next  *)
(* start, for any workflows, agents, processes, triggers and repositories, *)
(* any texts in them and any number of edits.                              *)
(***************************************************************************)
EXTENDS Authoring, TLAPS, FiniteSetTheorems

Files == [workflows : [Workflows -> WorkflowTexts \cup {Absent}],
          agents : [Steps -> Personas \cup {Absent}],
          processes : [Processes -> ProcessTexts \cup {Absent}],
          triggers : [Triggers -> TriggerTexts \cup {Absent}],
          repositories : SUBSET Repositories]

(* Since the start, no accepted save touched what the processes are checked *)
(* against: the served workflows are those of the start, its steps are all  *)
(* still known, and what lies on disk still builds with its credentials.    *)
Vouched ==
    /\ harness.served = Kept(files)
    /\ harness.queues \subseteq KnownSteps(files)
    /\ Builds(files, harness.env)

IInv == files \in Files /\ (saved => Vouched)

-----------------------------------------------------------------------------
(* Lemmas about what a start makes of the files.                           *)

(* What the workflows come to depends on the workflow and agent files.     *)
LEMMA SameWorkflows ==
    ASSUME NEW f, NEW g, g.workflows = f.workflows, g.agents = f.agents
    PROVE  /\ Kept(g) = Kept(f) /\ Dropped(g) = Dropped(f)
           /\ KnownSteps(g) = KnownSteps(f)
           /\ WorkflowsBuild(g) <=> WorkflowsBuild(f)
           /\ \A e : KindsKnown(g, e) <=> KindsKnown(f, e)
<1>1. Readable(g) = Readable(f)
  BY DEF Readable
<1>2. Dropped(g) = Dropped(f)
  BY <1>1 DEF Dropped
<1>3. Kept(g) = Kept(f)
  BY <1>2 DEF Kept
<1>4. KnownSteps(g) = KnownSteps(f)
  BY <1>1, <1>3 DEF KnownSteps
<1>5. ASSUME NEW s PROVE /\ BindingsOf(g, s) = BindingsOf(f, s)
                         /\ Wired(g, s) <=> Wired(f, s)
  <2>1. BindingsOf(g, s) = BindingsOf(f, s)
    BY <1>3 DEF BindingsOf
  <2>2. AgentLoads(g, s) <=> AgentLoads(f, s)
    BY DEF AgentLoads
  <2> QED
    BY <2>1, <2>2 DEF Wired
<1>6. WorkflowsBuild(g) <=> WorkflowsBuild(f)
  BY <1>1, <1>3, <1>4, <1>5 DEF WorkflowsBuild
<1>7. ASSUME NEW e PROVE KindsKnown(g, e) <=> KindsKnown(f, e)
  BY <1>1 DEF KindsKnown
<1> QED
  BY <1>2, <1>3, <1>4, <1>6, <1>7

(* A target that is found among some steps is found among more.            *)
LEMMA KnownGrows ==
    ASSUME NEW target, NEW A, NEW B, A \subseteq B, NEW names, Known(target, A, names)
    PROVE  Known(target, B, names)
BY DEF Known

LEMMA CompilesGrows ==
    ASSUME NEW text, NEW e, NEW A, NEW B, A \subseteq B, NEW names, NEW repositories,
           Compiles(text, e, A, names, repositories)
    PROVE  Compiles(text, e, B, names, repositories)
BY KnownGrows DEF Compiles

(* One process more, less or other than before, and compiled.              *)
LEMMA OneProcess ==
    ASSUME files \in Files, NEW p \in Processes, NEW e,
           NEW text \in ProcessTexts \cup {Absent}, Builds(files, e),
           files' = [files EXCEPT !.processes[p] = text],
           text # Absent => Compiles(text, e, KnownSteps(files), Kept(files),
                                     files.repositories)
    PROVE  /\ Builds(files', e)
           /\ Kept(files') = Kept(files) /\ KnownSteps(files') = KnownSteps(files)
<1>1. /\ files'.workflows = files.workflows /\ files'.agents = files.agents
      /\ files'.triggers = files.triggers /\ files'.repositories = files.repositories
      /\ files'.processes = [files.processes EXCEPT ![p] = text]
  BY DEF Files
<1>2. /\ Kept(files') = Kept(files) /\ Dropped(files') = Dropped(files)
      /\ KnownSteps(files') = KnownSteps(files)
      /\ WorkflowsBuild(files') /\ KindsKnown(files', e)
  BY <1>1, SameWorkflows DEF Builds
<1>3. TriggersBuild(files')
  BY <1>1, <1>2 DEF Builds, TriggersBuild
<1>4. ASSUME NEW q \in Compiled(files', e)
      PROVE  Compiles(files'.processes[q], e, KnownSteps(files'), Kept(files'),
                      files'.repositories)
  <2>1. q \in Processes /\ files'.processes[q] # Absent
    BY <1>1, <1>4 DEF Compiled, Present, Files
  <2>2. CASE q = p
    BY <1>1, <1>2, <2>1, <2>2 DEF Files
  <2>3. CASE q # p
    <3>1. files'.processes[q] = files.processes[q]
      BY <1>1, <2>1, <2>3 DEF Files
    <3>2. q \in Compiled(files, e)
      BY <1>2, <1>4, <2>1, <3>1 DEF Compiled, Present, Files, Ignored, Skipped
    <3> QED
      BY <1>1, <1>2, <3>1, <3>2 DEF Builds, ProcessesBuild
  <2> QED
    BY <2>2, <2>3
<1>5. ProcessesBuild(files', e)
  BY <1>4 DEF ProcessesBuild
<1> QED
  BY <1>2, <1>3, <1>5 DEF Builds

(* The files name no steps but the steps there are.                        *)
LEMMA StepsKnown ==
    ASSUME files \in Files PROVE KnownSteps(files) \subseteq Steps
<1>1. Present(files.agents) \subseteq Steps
  BY DEF Present, Files
<1>2. ASSUME NEW w \in Readable(files) PROVE StepsOf(files.workflows[w]) \subseteq Steps
  BY <1>2, TextsAssumption DEF Readable, Present, Files
<1> QED
  BY <1>1, <1>2 DEF KnownSteps

(* One more agent that loads, or one that loads now.                       *)
LEMMA OneAgent ==
    ASSUME files \in Files, NEW s \in Steps, NEW e, Builds(files, e),
           files' = [files EXCEPT !.agents[s] = "plain"]
    PROVE  /\ Builds(files', e)
           /\ Kept(files') = Kept(files)
           /\ KnownSteps(files) \subseteq KnownSteps(files')
<1>1. /\ files'.workflows = files.workflows /\ files'.processes = files.processes
      /\ files'.triggers = files.triggers /\ files'.repositories = files.repositories
      /\ files'.agents = [files.agents EXCEPT ![s] = "plain"]
  BY DEF Files
<1>2. Readable(files') = Readable(files)
  BY <1>1 DEF Readable
<1>3. Dropped(files') = Dropped(files)
  BY <1>1, <1>2 DEF Dropped
<1>4. Kept(files') = Kept(files)
  BY <1>1, <1>3 DEF Kept
<1>5. Present(files'.agents) = Present(files.agents) \cup {s}
  BY <1>1, AuthoringAssumption DEF Present, Files, Personas
<1>6. KnownSteps(files') = KnownSteps(files) \cup {s}
  BY <1>1, <1>2, <1>4, <1>5 DEF KnownSteps
<1>7. \A r : BindingsOf(files', r) = BindingsOf(files, r)
  BY <1>1, <1>4 DEF BindingsOf
<1>8. /\ \A r \in Steps : AgentLoads(files, r) => AgentLoads(files', r)
      /\ AgentLoads(files', s)
  BY <1>1 DEF AgentLoads, Files
<1>9. ASSUME NEW r \in KnownSteps(files)
      PROVE  Cardinality(BindingsOf(files', r)) <= 1 /\ Wired(files', r)
  <2>1. r \in Steps
    BY StepsKnown
  <2>2. Cardinality(BindingsOf(files, r)) <= 1 /\ Wired(files, r)
    BY <1>9 DEF Builds, WorkflowsBuild
  <2> QED
    BY <1>7, <1>8, <2>1, <2>2 DEF Wired
<1>10. ASSUME s \notin KnownSteps(files)
       PROVE  Cardinality(BindingsOf(files', s)) <= 1 /\ Wired(files', s)
  <2>1. BindingsOf(files, s) = {}
    <3>1. ASSUME NEW w \in Kept(files), s \in DOMAIN files.workflows[w].finishers
          PROVE  FALSE
      <4>1. w \in Readable(files) /\ Parses(files.workflows[w])
        BY <3>1 DEF Builds, WorkflowsBuild, Readable
      <4> QED
        BY <1>10, <3>1, <4>1 DEF Parses, KnownSteps
    <3> QED
      BY <3>1 DEF BindingsOf
  <2>2. BindingsOf(files', s) = {}
    BY <1>7, <2>1
  <2>3. Cardinality(BindingsOf(files', s)) = 0
    BY <2>2, FS_EmptySet
  <2> QED
    BY <1>8, <2>2, <2>3 DEF Wired
<1>11. WorkflowsBuild(files')
  BY <1>2, <1>4, <1>6, <1>9, <1>10 DEF WorkflowsBuild, Builds
<1>12. KindsKnown(files', e)
  BY <1>1, <1>2 DEF KindsKnown, Builds
<1>13. TriggersBuild(files')
  BY <1>1, <1>4, <1>6, KnownGrows DEF TriggersBuild, Builds
<1>14. Compiled(files', e) = Compiled(files, e)
  BY <1>1, <1>3 DEF Compiled, Ignored, Skipped
<1>15. ProcessesBuild(files', e)
  BY <1>1, <1>4, <1>6, <1>14, CompilesGrows DEF ProcessesBuild, Builds
<1> QED
  BY <1>4, <1>6, <1>11, <1>12, <1>13, <1>15 DEF Builds

-----------------------------------------------------------------------------

LEMMA Initially == Init => IInv
BY DEF Init, Fresh, IInv, Files

(* `harness init' writes files of the right kind.                          *)
LEMMA SeedsFit == files \in Files => Seeded(files) \in Files
<1> SUFFICES ASSUME files \in Files PROVE Seeded(files) \in Files
  OBVIOUS
<1>1. Filled(files.workflows, SeedWorkflows) \in [Workflows -> WorkflowTexts \cup {Absent}]
  BY AuthoringAssumption DEF Filled, Files
<1>2. Filled(files.processes, SeedProcesses) \in [Processes -> ProcessTexts \cup {Absent}]
  BY AuthoringAssumption DEF Filled, Files
<1> DEFINE ws == Filled(files.workflows, SeedWorkflows)
           agents == [s \in Steps |->
                         IF files.agents[s] = Absent
                            /\ (\A w \in DOMAIN SeedWorkflows : Parses(ws[w]))
                            /\ NeedsAgent(ws, s)
                         THEN "plain" ELSE files.agents[s]]
<1>3. agents \in [Steps -> Personas \cup {Absent}]
  BY DEF Files, Personas
<1>4. Seeded(files) = [files EXCEPT !.workflows = ws,
                                    !.processes = Filled(files.processes, SeedProcesses),
                                    !.agents = agents]
  BY DEF Seeded
<1> HIDE DEF ws, agents
<1> QED
  BY <1>1, <1>2, <1>3, <1>4 DEF Files, ws

(* Whatever is written, the files keep their kind.                         *)
LEMMA FilesStep == files \in Files /\ [Next]_vars => files' \in Files
<1> SUFFICES ASSUME files \in Files, [Next]_vars PROVE files' \in Files
  OBVIOUS
<1>1. CASE HarnessInit
  BY <1>1, SeedsFit DEF HarnessInit
<1>2. ASSUME NEW w \in Workflows, NEW s \in Steps, NEW force \in BOOLEAN,
             AgentInit(w, s, force)
      PROVE  files' \in Files
  BY <1>2 DEF AgentInit, Files, Personas
<1>3. ASSUME NEW p \in Processes, NEW text \in ProcessTexts,
             CreateProcess(p, text) \/ WriteProcess(p, text)
      PROVE  files' \in Files
  <2>1. WriteProcess(p, text)
    BY <1>3 DEF CreateProcess
  <2> QED
    BY <2>1 DEF WriteProcess, Files
<1>4. ASSUME NEW p \in Processes, DeleteProcess(p) PROVE files' \in Files
  BY <1>4 DEF DeleteProcess, Files
<1>5. ASSUME NEW s \in Steps, CreateAgent(s) \/ WriteAgent(s) \/ DeleteAgent(s)
      PROVE  files' \in Files
  <2>1. CASE CreateAgent(s) \/ WriteAgent(s)
    <3>1. WriteAgent(s)
      BY <2>1 DEF CreateAgent
    <3> QED
      BY <3>1 DEF WriteAgent, Files, Personas
  <2>2. CASE DeleteAgent(s)
    BY <2>2 DEF DeleteAgent, Files, Personas
  <2> QED
    BY <1>5, <2>1, <2>2
<1>6. ASSUME NEW w \in Workflows, NEW text \in WorkflowTexts,
             CreateWorkflow(w, text) \/ WriteWorkflow(w, text)
      PROVE  files' \in Files
  <2>1. WriteWorkflow(w, text)
    BY <1>6 DEF CreateWorkflow
  <2> QED
    BY <2>1 DEF WriteWorkflow, Files
<1>7. ASSUME NEW w \in Workflows, DeleteWorkflow(w) PROVE files' \in Files
  BY <1>7 DEF DeleteWorkflow, Files
<1>8. CASE ByHand
  BY <1>8 DEF ByHand, Files
<1>9. CASE SetCredentials \/ Start \/ Stop \/ UNCHANGED vars
  BY <1>9 DEF SetCredentials, Start, Stop, vars
<1> QED
  BY <1>1, <1>2, <1>3, <1>4, <1>5, <1>6, <1>7, <1>8, <1>9 DEF Next

(* A save that is accepted vouches again; whatever is not saved does not.  *)
LEMMA Step == IInv /\ [Next]_vars => IInv'
<1> SUFFICES ASSUME IInv, [Next]_vars PROVE IInv'
  OBVIOUS
<1>1. files' \in Files
  BY FilesStep DEF IInv
<1> SUFFICES ASSUME saved' PROVE Vouched'
  BY <1>1 DEF IInv
<1>2. ASSUME saved, UNCHANGED <<files, harness>> PROVE Vouched'
  BY <1>2 DEF IInv, Vouched
<1>3. CASE HarnessInit
  BY <1>2, <1>3 DEF HarnessInit
<1>4. ASSUME NEW w \in Workflows, NEW s \in Steps, NEW force \in BOOLEAN,
             AgentInit(w, s, force)
      PROVE  FALSE
  BY <1>4 DEF AgentInit
<1>5. ASSUME NEW p \in Processes, NEW text \in ProcessTexts,
             CreateProcess(p, text) \/ WriteProcess(p, text)
      PROVE  Vouched'
  <2>1. WriteProcess(p, text)
    BY <1>5 DEF CreateProcess
  <2>2. Vouched /\ UNCHANGED harness
    BY <2>1 DEF WriteProcess, Edit, IInv
  <2>3. Compiles(text, harness.env, KnownSteps(files), Kept(files), files.repositories)
    BY <2>1, <2>2, CompilesGrows DEF WriteProcess, Vouched
  <2>4. /\ Builds(files', harness.env)
        /\ Kept(files') = Kept(files) /\ KnownSteps(files') = KnownSteps(files)
    BY <2>1, <2>2, <2>3, OneProcess DEF WriteProcess, Vouched, IInv
  <2> QED
    BY <2>2, <2>4 DEF Vouched
<1>6. ASSUME NEW p \in Processes, DeleteProcess(p) PROVE Vouched'
  <2>1. Vouched /\ UNCHANGED harness
    BY <1>6 DEF DeleteProcess, Edit, IInv
  <2>2. /\ Builds(files', harness.env)
        /\ Kept(files') = Kept(files) /\ KnownSteps(files') = KnownSteps(files)
    BY <1>6, <2>1, OneProcess DEF DeleteProcess, Vouched, IInv
  <2> QED
    BY <2>1, <2>2 DEF Vouched
<1>7. ASSUME NEW s \in Steps, CreateAgent(s) \/ WriteAgent(s) PROVE Vouched'
  <2>1. Vouched /\ UNCHANGED harness
    BY <1>7 DEF CreateAgent, WriteAgent, Edit, IInv
  <2>2. /\ Builds(files', harness.env) /\ Kept(files') = Kept(files)
        /\ KnownSteps(files) \subseteq KnownSteps(files')
    BY <1>7, <2>1, OneAgent DEF CreateAgent, WriteAgent, Vouched, IInv
  <2> QED
    BY <2>1, <2>2 DEF Vouched
<1>8. ASSUME NEW s \in Steps, DeleteAgent(s) PROVE FALSE
  BY <1>8 DEF DeleteAgent, Edit
<1>9. ASSUME NEW w \in Workflows, NEW text \in WorkflowTexts,
             CreateWorkflow(w, text) \/ WriteWorkflow(w, text)
      PROVE  FALSE
  BY <1>9 DEF CreateWorkflow, WriteWorkflow, Edit
<1>10. ASSUME NEW w \in Workflows, DeleteWorkflow(w) PROVE FALSE
  BY <1>10 DEF DeleteWorkflow, Edit
<1>11. CASE ByHand
  BY <1>11 DEF ByHand, Edit
<1>12. CASE SetCredentials
  BY <1>2, <1>12 DEF SetCredentials
<1>13. CASE Start
  BY <1>13 DEF Start, Starts, Wiring, Vouched
<1>14. CASE Stop
  BY <1>14 DEF Stop
<1>15. CASE UNCHANGED vars
  BY <1>2, <1>15 DEF vars
<1> QED
  BY <1>3, <1>4, <1>5, <1>6, <1>7, <1>8, <1>9, <1>10, <1>11, <1>12, <1>13, <1>14,
     <1>15 DEF Next

(* A harness whose files changed by accepted saves alone would start again  *)
(* (FilesystemProcessAdmin.write against compile_process and build()).      *)
THEOREM SavedStartsHolds == Spec => []SavedStarts
<1>1. IInv => SavedStarts
  BY DEF IInv, Vouched, SavedStarts
<1> QED
  BY <1>1, Initially, Step, PTL DEF Spec

-----------------------------------------------------------------------------

(* Without a credential fewer processes are compiled, each of them one that *)
(* does not need it.                                                        *)
LEMMA WithoutCredentials ==
    ASSUME NEW f, Starts(f, Credentials), ~NeedsToken(f)
    PROVE  Starts(f, {})
<1>1. KindsKnown(f, {})
  BY DEF Starts, Builds, KindsKnown, NeedsToken, Kinds
<1>2. ASSUME NEW p \in Compiled(f, {})
      PROVE  p \in Compiled(f, Credentials) /\ ~NoCredential(f.processes[p], {})
  <2>1. NoCredential(f.processes[p], Credentials) => NoCredential(f.processes[p], {})
    BY DEF NoCredential
  <2>2. p \in Compiled(f, Credentials)
    BY <1>2, <2>1 DEF Compiled, Skipped
  <2>3. ~f.processes[p].broken /\ f.processes[p].cadence
    BY <2>2 DEF Starts, Builds, ProcessesBuild, Compiles
  <2> QED
    BY <1>2, <2>2, <2>3 DEF Compiled, Skipped
<1>3. ProcessesBuild(f, {})
  BY <1>2 DEF Starts, Builds, ProcessesBuild, Compiles
<1>4. ~Collide(f, {})
  BY <1>2 DEF Starts, Collide
<1> QED
  BY <1>1, <1>3, <1>4 DEF Starts, Builds

(* No token is not fatal, whatever the files say, unless one of them binds  *)
(* the finisher that only a token registers (MissingCredential, _run).      *)
THEOREM TokenlessStartsHolds == Spec => []TokenlessStarts
<1>1. TokenlessStarts
  BY WithoutCredentials DEF TokenlessStarts
<1> QED
  BY <1>1, PTL

-----------------------------------------------------------------------------

(* What is written has its kind, and a harness is wired with what there is. *)
LEMMA TypeStep == TypeOK /\ files \in Files /\ [Next]_vars => TypeOK'
<1> SUFFICES ASSUME TypeOK, files \in Files, [Next]_vars PROVE TypeOK'
  OBVIOUS
<1>1. files' \in Files
  BY FilesStep
<1>2. /\ files'.workflows \in [Workflows -> WorkflowTexts \cup {Absent}]
      /\ files'.agents \in [Steps -> Personas \cup {Absent}]
      /\ files'.processes \in [Processes -> ProcessTexts \cup {Absent}]
      /\ files'.triggers \in [Triggers -> TriggerTexts \cup {Absent}]
      /\ files'.repositories \subseteq Repositories
  BY <1>1 DEF Files
<1>3. env' \subseteq Credentials
  <2>1. ASSUME UNCHANGED env PROVE env' \subseteq Credentials
    BY <2>1 DEF TypeOK
  <2> QED
    BY <2>1 DEF Next, vars, HarnessInit, AgentInit, CreateProcess, WriteProcess,
       DeleteProcess, CreateAgent, WriteAgent, DeleteAgent, CreateWorkflow, WriteWorkflow,
       DeleteWorkflow, Edit, ByHand, SetCredentials, Start, Stop
<1>4. edits' \in 0 .. MaxEdits
  <2>1. edits' = edits \/ (edits < MaxEdits /\ edits' = edits + 1)
    BY DEF Next, vars, HarnessInit, AgentInit, CreateProcess, WriteProcess,
       DeleteProcess, CreateAgent, WriteAgent, DeleteAgent, CreateWorkflow, WriteWorkflow,
       DeleteWorkflow, Edit, ByHand, SetCredentials, Start, Stop
  <2> QED
    BY <2>1, AuthoringAssumption DEF TypeOK
<1>5. harness' \in Wirings \cup {None} /\ (saved' => harness' # None)
  <2>1. CASE Start
    <3>1. Kept(files) \subseteq Workflows
      BY DEF Kept, Present, Files
    <3>2. Wiring(files, env) \in Wirings
      BY <3>1, StepsKnown DEF Wiring, Wirings, TypeOK
    <3> QED
      BY <2>1, <3>2, AuthoringAssumption DEF Start
  <2>2. CASE Stop
    BY <2>2 DEF Stop
  <2>3. CASE UNCHANGED harness /\ (saved' => saved)
    BY <2>3 DEF TypeOK
  <2>4. Start \/ Stop \/ (UNCHANGED harness /\ (saved' => saved))
    BY DEF Next, vars, HarnessInit, AgentInit, CreateProcess, WriteProcess,
       DeleteProcess, CreateAgent, WriteAgent, DeleteAgent, CreateWorkflow, WriteWorkflow,
       DeleteWorkflow, Edit, ByHand, SetCredentials
  <2> QED
    BY <2>1, <2>2, <2>3, <2>4
<1> QED
  BY <1>2, <1>3, <1>4, <1>5 DEF TypeOK

(* Every variable has its type, and what is vouched for since a start is    *)
(* vouched for in a harness that runs.                                      *)
THEOREM TypeCorrect == Spec => []TypeOK
<1>1. Init => TypeOK
  <2> SUFFICES ASSUME Init PROVE TypeOK
    OBVIOUS
  <2>1. files \in Files /\ 0 \in 0 .. MaxEdits
    BY Initially, AuthoringAssumption DEF IInv
  <2> QED
    BY <2>1 DEF Init, TypeOK, Files
<1>2. IInv => files \in Files
  BY DEF IInv
<1> QED
  BY <1>1, <1>2, Initially, Step, TypeStep, PTL DEF Spec

-----------------------------------------------------------------------------
(* `harness init', and what it mends.                                       *)

(* What it makes of an empty root starts, with and without a token, and     *)
(* serves every workflow it writes.                                         *)
Seed == Seeded(Fresh)
SeedsBuild ==
    /\ Kept(Seed) = DOMAIN SeedWorkflows
    /\ Builds(Seed, {}) /\ Builds(Seed, Credentials)

(* The steps that are known once it has run again.                          *)
Reach(f) == Present(f.agents) \cup KnownSteps(Seed)

(* Nobody tampered: the workflows are seeds or deleted, the agents can be   *)
(* read, and whatever process was saved would compile in the mended root,   *)
(* with a token for its check.                                              *)
Mendable(f) ==
    /\ \A w \in Workflows : f.workflows[w] \in {Absent, Seed.workflows[w]}
    /\ \A s \in Steps : f.agents[s] \in {Absent, "plain"}
    /\ \A t \in Triggers : f.triggers[t] = Absent
    /\ f.repositories = {}
    /\ \A p \in Processes : f.processes[p] # Absent =>
          Compiles(f.processes[p], Credentials, Reach(f), DOMAIN SeedWorkflows, {})

WiredInReach ==
    harness # None => /\ harness.served \subseteq DOMAIN SeedWorkflows
                      /\ harness.queues \subseteq Reach(files)

MInv == ~tampered => Mendable(files) /\ WiredInReach

(* A process compiles with more steps, more workflows and more credentials. *)
LEMMA CompilesWider ==
    ASSUME NEW text, NEW e, NEW A, NEW B, A \subseteq B, NEW m, NEW n, m \subseteq n,
           NEW repositories, Compiles(text, e, A, m, repositories)
    PROVE  Compiles(text, Credentials, B, n, repositories)
<1>1. ~NoCredential(text, Credentials)
  BY DEF NoCredential, Gate, Credentials
<1>2. Known(text.target, B, n)
  BY DEF Compiles, Known
<1> QED
  BY <1>1, <1>2 DEF Compiles

LEMMA FreshFits == Fresh \in Files
BY DEF Fresh, Files

(* What the seeds are, once they are written.                               *)
LEMMA SeedIs ==
    ASSUME SeedsBuild
    PROVE  /\ Seed.workflows = [w \in Workflows |-> IF w \in DOMAIN SeedWorkflows
                                                  THEN SeedWorkflows[w] ELSE Absent]
           /\ Seed.processes = [p \in Processes |-> IF p \in DOMAIN SeedProcesses
                                                  THEN SeedProcesses[p] ELSE Absent]
           /\ Seed.agents = [s \in Steps |-> IF NeedsAgent(Seed.workflows, s)
                                            THEN "plain" ELSE Absent]
           /\ Seed.triggers = [t \in Triggers |-> Absent] /\ Seed.repositories = {}
           /\ Kept(Seed) = DOMAIN SeedWorkflows /\ Readable(Seed) = DOMAIN SeedWorkflows
           /\ Present(Seed.workflows) = DOMAIN SeedWorkflows
           /\ \A w \in DOMAIN SeedWorkflows : Parses(SeedWorkflows[w])
           /\ Dropped(Seed) = {}
<1>1. Seed.workflows = Filled(Fresh.workflows, SeedWorkflows)
  BY DEF Seed, Seeded, Fresh
<1>2. Seed.workflows = [w \in Workflows |-> IF w \in DOMAIN SeedWorkflows
                                            THEN SeedWorkflows[w] ELSE Absent]
  BY <1>1 DEF Filled, Fresh
<1>3. Seed.processes = [p \in Processes |-> IF p \in DOMAIN SeedProcesses
                                            THEN SeedProcesses[p] ELSE Absent]
  <2>1. Seed.processes = Filled(Fresh.processes, SeedProcesses)
    BY DEF Seed, Seeded, Fresh
  <2> QED
    BY <2>1 DEF Filled, Fresh
<1>4. Seed.triggers = [t \in Triggers |-> Absent] /\ Seed.repositories = {}
  BY DEF Seed, Seeded, Fresh
<1>5. Present(Seed.workflows) = DOMAIN SeedWorkflows
  BY <1>2, AuthoringAssumption DEF Present
<1>6. Kept(Seed) = DOMAIN SeedWorkflows /\ Kept(Seed) \subseteq Readable(Seed)
  BY DEF SeedsBuild, Builds, WorkflowsBuild
<1>7. Readable(Seed) = DOMAIN SeedWorkflows
  BY <1>5, <1>6 DEF Readable
<1>8. \A w \in DOMAIN SeedWorkflows : Parses(SeedWorkflows[w])
  BY <1>2, <1>7, AuthoringAssumption DEF Readable
<1>9. Dropped(Seed) = {}
  BY <1>5, <1>6, <1>7 DEF Kept, Dropped
<1>10. Seed.agents = [s \in Steps |-> IF NeedsAgent(Seed.workflows, s)
                                      THEN "plain" ELSE Absent]
  <2>1. Seed.agents = [s \in Steps |->
            IF Fresh.agents[s] = Absent
               /\ (\A w \in DOMAIN SeedWorkflows :
                      Parses(Filled(Fresh.workflows, SeedWorkflows)[w]))
               /\ NeedsAgent(Filled(Fresh.workflows, SeedWorkflows), s)
            THEN "plain" ELSE Fresh.agents[s]]
    BY DEF Seed, Seeded, Fresh
  <2>2. \A w \in DOMAIN SeedWorkflows : Parses(Filled(Fresh.workflows, SeedWorkflows)[w])
    BY <1>1, <1>2, <1>8, AuthoringAssumption
  <2>3. \A s \in Steps : Fresh.agents[s] = Absent
    BY DEF Fresh
  <2> QED
    BY <1>1, <2>1, <2>2, <2>3
<1> QED
  BY <1>2, <1>3, <1>4, <1>5, <1>6, <1>7, <1>8, <1>9, <1>10

(* What `harness init' makes of a root nobody tampered with: the seeds, the *)
(* agents that were there and those of the seeds.                           *)
LEMMA MendedIs ==
    ASSUME SeedsBuild, NEW f \in Files, Mendable(f)
    PROVE  /\ Seeded(f).workflows = Seed.workflows
           /\ Seeded(f).agents = [s \in Steps |->
                 IF f.agents[s] = "plain" \/ NeedsAgent(Seed.workflows, s)
                 THEN "plain" ELSE Absent]
           /\ Seeded(f).processes = Filled(f.processes, SeedProcesses)
           /\ Seeded(f).triggers = f.triggers /\ Seeded(f).repositories = {}
           /\ Kept(Seeded(f)) = DOMAIN SeedWorkflows /\ Dropped(Seeded(f)) = {}
           /\ Readable(Seeded(f)) = DOMAIN SeedWorkflows
           /\ KnownSteps(Seeded(f)) = Reach(f)
<1> DEFINE g == Seeded(f)
<1>1. /\ g.triggers = f.triggers /\ g.repositories = {}
      /\ g.processes = Filled(f.processes, SeedProcesses)
      /\ g.workflows = Filled(f.workflows, SeedWorkflows)
  BY DEF Seeded, Files, Mendable
<1>2. g.workflows = Seed.workflows
  <2>1. \A w \in Workflows : f.workflows[w] \in {Absent, Seed.workflows[w]}
    BY DEF Mendable
  <2>2. Filled(f.workflows, SeedWorkflows) = [w \in Workflows |->
            IF f.workflows[w] = Absent /\ w \in DOMAIN SeedWorkflows
            THEN SeedWorkflows[w] ELSE f.workflows[w]]
    BY DEF Filled, Files
  <2> QED
    BY <1>1, <2>1, <2>2, SeedIs
<1>3. g.agents = [s \in Steps |->
                     IF f.agents[s] = "plain" \/ NeedsAgent(Seed.workflows, s)
                     THEN "plain" ELSE Absent]
  <2>1. g.agents = [s \in Steps |->
            IF f.agents[s] = Absent
               /\ (\A w \in DOMAIN SeedWorkflows : Parses(g.workflows[w]))
               /\ NeedsAgent(g.workflows, s)
            THEN "plain" ELSE f.agents[s]]
    BY <1>1 DEF Seeded, Files
  <2>2. \A w \in DOMAIN SeedWorkflows : Parses(g.workflows[w])
    BY <1>2, SeedIs, AuthoringAssumption
  <2>3. \A s \in Steps : f.agents[s] \in {Absent, "plain"}
    BY DEF Mendable
  <2>4. Absent # "plain"
    BY AuthoringAssumption DEF Personas
  <2> HIDE DEF g
  <2> QED
    BY <1>2, <2>1, <2>2, <2>3, <2>4
<1>4. /\ Readable(g) = Readable(Seed) /\ Dropped(g) = Dropped(Seed) /\ Kept(g) = Kept(Seed)
  <2> HIDE DEF g
  <2>1. Readable(g) = Readable(Seed)
    BY <1>2 DEF Readable
  <2>2. Dropped(g) = Dropped(Seed)
    BY <1>2, <2>1 DEF Dropped
  <2> QED
    BY <1>2, <2>1, <2>2 DEF Kept
<1>5. KnownSteps(g) = Reach(f)
  <2> HIDE DEF g
  <2>1. Present(g.agents) = Present(f.agents) \cup Present(Seed.agents)
    <3>1. Absent # "plain" /\ \A s \in Steps : f.agents[s] \in {Absent, "plain"}
      BY AuthoringAssumption DEF Personas, Mendable
    <3>2. DOMAIN f.agents = Steps
      BY DEF Files
    <3> QED
      BY <1>3, <3>1, <3>2, SeedIs DEF Present
  <2> QED
    BY <1>2, <1>4, <2>1 DEF KnownSteps, Reach
<1> QED
  BY <1>1, <1>2, <1>3, <1>4, <1>5, SeedIs

(* So it builds, with whatever credentials there are.                       *)
LEMMA MendedBuilds ==
    ASSUME SeedsBuild, NEW f \in Files, Mendable(f), NEW e \in SUBSET Credentials
    PROVE  Builds(Seeded(f), e)
<1> DEFINE g == Seeded(f)
<1>1. /\ g.workflows = Seed.workflows
      /\ g.agents = [s \in Steps |->
            IF f.agents[s] = "plain" \/ NeedsAgent(Seed.workflows, s) THEN "plain" ELSE Absent]
      /\ g.processes = Filled(f.processes, SeedProcesses)
      /\ g.triggers = f.triggers /\ g.repositories = {}
      /\ Kept(g) = DOMAIN SeedWorkflows /\ Dropped(g) = {}
      /\ Readable(g) = DOMAIN SeedWorkflows
      /\ KnownSteps(g) = Reach(f)
  BY MendedIs
<1> HIDE DEF g
<1>2. KindsKnown(g, e)
  <2>1. KindsKnown(Seed, {})
    BY DEF SeedsBuild, Builds
  <2>2. Kinds({}) \subseteq Kinds(e)
    BY DEF Kinds
  <2> QED
    BY <1>1, <2>1, <2>2, SeedIs DEF KindsKnown
<1>3. WorkflowsBuild(g)
  <2>1. ASSUME NEW s PROVE BindingsOf(g, s) = BindingsOf(Seed, s)
    BY <1>1, SeedIs DEF BindingsOf
  <2>2. ASSUME NEW s \in Steps, s \in Present(g.agents) PROVE AgentLoads(g, s)
    BY <1>1, <2>2, AuthoringAssumption DEF AgentLoads, Present
  <2>3. ASSUME NEW s \in KnownSteps(Seed)
        PROVE  Cardinality(BindingsOf(g, s)) <= 1 /\ Wired(g, s)
    <3>1. Cardinality(BindingsOf(Seed, s)) <= 1 /\ Wired(Seed, s)
      BY <2>3 DEF SeedsBuild, Builds, WorkflowsBuild
    <3>2. AgentLoads(Seed, s) => AgentLoads(g, s)
      <4>1. s \in Steps
        <5>1. Present(Seed.agents) \subseteq Steps
          BY SeedIs DEF Present
        <5>2. \A w \in DOMAIN SeedWorkflows : StepsOf(Seed.workflows[w]) \subseteq Steps
          BY SeedIs, AuthoringAssumption, TextsAssumption
        <5> QED
          BY <2>3, <5>1, <5>2, SeedIs DEF KnownSteps
      <4>2. Seed.agents[s] = IF NeedsAgent(Seed.workflows, s) THEN "plain" ELSE Absent
        BY <4>1, SeedIs
      <4>3. g.agents[s] = IF f.agents[s] = "plain" \/ NeedsAgent(Seed.workflows, s)
                          THEN "plain" ELSE Absent
        BY <1>1, <4>1
      <4>4. Absent # "plain" /\ Absent # "timed"
        BY AuthoringAssumption DEF Personas
      <4> QED
        BY <4>2, <4>3, <4>4 DEF AgentLoads
    <3> QED
      BY <2>1, <3>1, <3>2 DEF Wired
  <2>4. ASSUME NEW s \in Present(f.agents), s \notin KnownSteps(Seed)
        PROVE  Cardinality(BindingsOf(g, s)) <= 1 /\ Wired(g, s)
    <3>1. BindingsOf(Seed, s) = {}
      <4>1. ASSUME NEW w \in DOMAIN SeedWorkflows, s \in DOMAIN Seed.workflows[w].finishers
            PROVE  FALSE
        <5>1. Parses(Seed.workflows[w])
          BY SeedIs, AuthoringAssumption
        <5>2. s \in StepsOf(Seed.workflows[w])
          BY <4>1, <5>1 DEF Parses
        <5> QED
          BY <2>4, <5>2, SeedIs DEF KnownSteps
      <4> QED
        BY <4>1, SeedIs DEF BindingsOf
    <3>2. BindingsOf(g, s) = {}
      BY <2>1, <3>1
    <3>3. Cardinality(BindingsOf(g, s)) = 0
      BY <3>2, FS_EmptySet
    <3>4. s \in Steps /\ f.agents[s] = "plain"
      BY <2>4 DEF Mendable, Present, Files
    <3>5. AgentLoads(g, s)
      BY <1>1, <3>4 DEF AgentLoads
    <3> QED
      BY <3>2, <3>3, <3>5 DEF Wired
  <2> QED
    BY <1>1, <2>3, <2>4 DEF WorkflowsBuild, Reach
<1>4. TriggersBuild(g)
  BY <1>1 DEF TriggersBuild, Present, Mendable, Files
<1>5. ProcessesBuild(g, e)
  <2>1. ASSUME NEW p \in Compiled(g, e)
        PROVE  Compiles(g.processes[p], e, Reach(f), DOMAIN SeedWorkflows, {})
    <3>1. g.processes = [q \in Processes |->
             IF f.processes[q] = Absent /\ q \in DOMAIN SeedProcesses
             THEN SeedProcesses[q] ELSE f.processes[q]]
      BY <1>1 DEF Filled, Files
    <3>2. p \in Processes /\ g.processes[p] # Absent
      BY <2>1, <3>1 DEF Compiled, Present
    <3>3. ASSUME f.processes[p] # Absent
          PROVE  Compiles(g.processes[p], Credentials, Reach(f), DOMAIN SeedWorkflows, {})
      <4>1. g.processes[p] = f.processes[p]
        BY <3>1, <3>2, <3>3
      <4> QED
        BY <3>2, <3>3, <4>1 DEF Mendable
    <3>4. ASSUME f.processes[p] = Absent
          PROVE  Compiles(g.processes[p], Credentials, Reach(f), DOMAIN SeedWorkflows, {})
      <4>1. p \in DOMAIN SeedProcesses /\ g.processes[p] = SeedProcesses[p]
        BY <3>1, <3>2, <3>4
      <4>2. Seed.processes[p] = SeedProcesses[p] /\ DOMAIN Seed.processes = Processes
        BY <3>2, <4>1, SeedIs
      <4>3. p \in Present(Seed.processes)
        BY <3>2, <4>1, <4>2 DEF Present
      <4>4. ~Ignored(Seed, p) /\ ~Skipped(Seed, Credentials, p)
        BY SeedIs DEF Ignored, Skipped, NoCredential, Gate, Credentials
      <4>5. Compiles(Seed.processes[p], Credentials, KnownSteps(Seed), Kept(Seed),
                     Seed.repositories)
        BY <4>3, <4>4 DEF Compiled, SeedsBuild, Builds, ProcessesBuild
      <4>6. Compiles(SeedProcesses[p], Credentials, KnownSteps(Seed),
                     DOMAIN SeedWorkflows, {})
        BY <4>2, <4>5, SeedIs
      <4>7. KnownSteps(Seed) \subseteq Reach(f)
        BY DEF Reach
      <4> QED
        BY <4>1, <4>6, <4>7, CompilesGrows
    <3>5. Compiles(g.processes[p], Credentials, Reach(f), DOMAIN SeedWorkflows, {})
      BY <3>3, <3>4
    <3>6. ~NoCredential(g.processes[p], e)
      BY <2>1, <3>5 DEF Compiled, Skipped, Compiles
    <3> QED
      BY <3>5, <3>6 DEF Compiles
  <2> QED
    BY <1>1, <2>1 DEF ProcessesBuild
<1>6. g = Seeded(f)
  BY DEF g
<1> QED
  BY <1>2, <1>3, <1>4, <1>5, <1>6 DEF Builds

(* Files that stay mendable, when what is in reach stays in it.             *)
LEMMA SavedReaches ==
    ASSUME NEW f, NEW g, Reach(f) \subseteq Reach(g), NEW text,
           Compiles(text, Credentials, Reach(f), DOMAIN SeedWorkflows, {})
    PROVE  Compiles(text, Credentials, Reach(g), DOMAIN SeedWorkflows, {})
BY CompilesGrows

(* `harness init', and the agents of one workflow (_write_default_agents).  *)
LEMMA InitKeeps ==
    ASSUME SeedsBuild, files \in Files, Mendable(files), HarnessInit
    PROVE  Mendable(files') /\ Reach(files) \subseteq Reach(files')
<1>1. /\ files'.workflows = Seed.workflows
      /\ files'.agents = [s \in Steps |->
            IF files.agents[s] = "plain" \/ NeedsAgent(Seed.workflows, s)
            THEN "plain" ELSE Absent]
      /\ files'.processes = Filled(files.processes, SeedProcesses)
      /\ files'.triggers = files.triggers /\ files'.repositories = {}
  BY MendedIs DEF HarnessInit
<1>2. Reach(files) \subseteq Reach(files')
  <2>1. ASSUME NEW s \in Present(files.agents) PROVE s \in Present(files'.agents)
    <3>1. s \in Steps /\ files.agents[s] = "plain" /\ Absent # "plain"
      BY <2>1, AuthoringAssumption DEF Present, Files, Mendable, Personas
    <3> QED
      BY <1>1, <3>1 DEF Present
  <2> QED
    BY <2>1 DEF Reach
<1>3. ASSUME NEW p \in Processes, files'.processes[p] # Absent
      PROVE  Compiles(files'.processes[p], Credentials, Reach(files'), DOMAIN SeedWorkflows, {})
  <2>1. files'.processes[p] = IF files.processes[p] = Absent /\ p \in DOMAIN SeedProcesses
                              THEN SeedProcesses[p] ELSE files.processes[p]
    BY <1>1 DEF Filled, Files
  <2>2. CASE files.processes[p] # Absent
    BY <1>2, <2>1, <2>2, SavedReaches DEF Mendable
  <2>3. CASE files.processes[p] = Absent
    <3>1. p \in DOMAIN SeedProcesses /\ files'.processes[p] = SeedProcesses[p]
      BY <1>3, <2>1, <2>3
    <3>2. Seed.processes[p] = SeedProcesses[p] /\ DOMAIN Seed.processes = Processes
      BY <3>1, SeedIs
    <3>3. p \in Present(Seed.processes)
      BY <1>3, <3>1, <3>2 DEF Present
    <3>4. ~Ignored(Seed, p) /\ ~Skipped(Seed, Credentials, p)
      BY SeedIs DEF Ignored, Skipped, NoCredential, Gate, Credentials
    <3>5. Compiles(Seed.processes[p], Credentials, KnownSteps(Seed), Kept(Seed),
                   Seed.repositories)
      BY <3>3, <3>4 DEF Compiled, SeedsBuild, Builds, ProcessesBuild
    <3>6. Compiles(SeedProcesses[p], Credentials, KnownSteps(Seed),
                   DOMAIN SeedWorkflows, {})
      BY <3>2, <3>5, SeedIs
    <3>7. KnownSteps(Seed) \subseteq Reach(files')
      BY DEF Reach
    <3> QED
      BY <3>1, <3>6, <3>7, CompilesGrows
  <2> QED
    BY <2>2, <2>3
<1>4. \A s \in Steps : files'.agents[s] \in {Absent, "plain"}
  BY <1>1
<1> QED
  BY <1>1, <1>2, <1>3, <1>4 DEF Mendable

(* An agent that is written, or one of a seed that is deleted.              *)
LEMMA AgentKeeps ==
    ASSUME SeedsBuild, files \in Files, Mendable(files), NEW s \in Steps,
           NEW persona \in {"plain", Absent},
           files' = [files EXCEPT !.agents[s] = persona],
           persona = Absent => s \in KnownSteps(Seed)
    PROVE  Mendable(files') /\ Reach(files) \subseteq Reach(files')
<1>1. /\ files'.workflows = files.workflows /\ files'.processes = files.processes
      /\ files'.triggers = files.triggers /\ files'.repositories = files.repositories
      /\ files'.agents = [files.agents EXCEPT ![s] = persona]
      /\ files.agents \in [Steps -> Personas \cup {Absent}]
  BY DEF Files
<1>2. Reach(files) \subseteq Reach(files')
  <2>1. ASSUME NEW r \in Present(files.agents) PROVE r \in Reach(files')
    <3>1. r \in Steps /\ files.agents[r] # Absent
      BY <1>1, <2>1 DEF Present
    <3>2. CASE r # s \/ persona = "plain"
      <4>1. files'.agents[r] # Absent /\ DOMAIN files'.agents = Steps
        BY <1>1, <3>1, <3>2, AuthoringAssumption DEF Personas
      <4> QED
        BY <3>1, <4>1 DEF Reach, Present
    <3>3. CASE r = s /\ persona = Absent
      BY <3>3 DEF Reach
    <3> QED
      BY <3>2, <3>3
  <2> QED
    BY <2>1 DEF Reach
<1>3. \A r \in Steps : files'.agents[r] \in {Absent, "plain"}
  BY <1>1 DEF Mendable
<1>4. ASSUME NEW p \in Processes, files'.processes[p] # Absent
      PROVE  Compiles(files'.processes[p], Credentials, Reach(files'), DOMAIN SeedWorkflows, {})
  <2>1. Compiles(files.processes[p], Credentials, Reach(files), DOMAIN SeedWorkflows, {})
    BY <1>1, <1>4 DEF Mendable
  <2> QED
    BY <1>1, <1>2, <2>1, SavedReaches
<1> QED
  BY <1>1, <1>2, <1>3, <1>4 DEF Mendable

(* A process that compiles with what a harness in reach was wired with, or  *)
(* none; a workflow that is deleted.                                        *)
LEMMA ProcessKeeps ==
    ASSUME files \in Files, Mendable(files), NEW p \in Processes, NEW text,
           files' = [files EXCEPT !.processes[p] = text],
           text # Absent => Compiles(text, Credentials, Reach(files), DOMAIN SeedWorkflows, {})
    PROVE  Mendable(files') /\ Reach(files) \subseteq Reach(files')
<1>1. /\ files'.workflows = files.workflows /\ files'.agents = files.agents
      /\ files'.triggers = files.triggers /\ files'.repositories = files.repositories
      /\ files'.processes = [files.processes EXCEPT ![p] = text]
      /\ files.processes \in [Processes -> ProcessTexts \cup {Absent}]
  BY DEF Files
<1>2. Reach(files') = Reach(files)
  BY <1>1 DEF Reach
<1> QED
  BY <1>1, <1>2 DEF Mendable

LEMMA WorkflowKeeps ==
    ASSUME files \in Files, Mendable(files), NEW w \in Workflows,
           files' = [files EXCEPT !.workflows[w] = Absent]
    PROVE  Mendable(files') /\ Reach(files) \subseteq Reach(files')
<1>1. /\ files'.agents = files.agents /\ files'.processes = files.processes
      /\ files'.triggers = files.triggers /\ files'.repositories = files.repositories
      /\ files'.workflows = [files.workflows EXCEPT ![w] = Absent]
      /\ files.workflows \in [Workflows -> WorkflowTexts \cup {Absent}]
  BY DEF Files
<1>2. Reach(files') = Reach(files)
  BY <1>1 DEF Reach
<1> QED
  BY <1>1, <1>2 DEF Mendable

(* A harness that starts in such a root knows no steps out of reach.        *)
LEMMA StartInReach ==
    ASSUME SeedsBuild, files \in Files, Mendable(files)
    PROVE  Kept(files) \subseteq DOMAIN SeedWorkflows /\ KnownSteps(files) \subseteq Reach(files)
<1>1. ASSUME NEW w \in Present(files.workflows)
      PROVE  w \in DOMAIN SeedWorkflows /\ files.workflows[w] = Seed.workflows[w]
  <2>1. w \in Workflows /\ files.workflows[w] # Absent
    BY <1>1 DEF Present, Files
  <2>2. files.workflows[w] = Seed.workflows[w]
    BY <2>1 DEF Mendable
  <2>3. Seed.workflows[w] = IF w \in DOMAIN SeedWorkflows THEN SeedWorkflows[w] ELSE Absent
    BY <2>1, SeedIs
  <2> QED
    BY <2>1, <2>2, <2>3
<1>2. Kept(files) \subseteq DOMAIN SeedWorkflows
  BY <1>1 DEF Kept
<1>3. ASSUME NEW w \in Kept(files) PROVE StepsOf(files.workflows[w]) \subseteq KnownSteps(Seed)
  <2>1. w \in DOMAIN SeedWorkflows /\ files.workflows[w] = Seed.workflows[w]
    BY <1>1, <1>3 DEF Kept
  <2> QED
    BY <2>1, SeedIs DEF KnownSteps
<1> QED
  BY <1>2, <1>3 DEF KnownSteps, Reach

LEMMA MStep == ASSUME SeedsBuild, files \in Files, MInv, [Next]_vars PROVE MInv'
<1> SUFFICES ASSUME ~tampered' PROVE Mendable(files') /\ WiredInReach'
  BY DEF MInv
<1>0. ~tampered
  BY DEF Next, vars, HarnessInit, AgentInit, CreateProcess, WriteProcess, DeleteProcess,
     CreateAgent, WriteAgent, DeleteAgent, CreateWorkflow, WriteWorkflow, DeleteWorkflow,
     Edit, ByHand, SetCredentials, Start, Stop
<1>1. Mendable(files) /\ WiredInReach
  BY <1>0 DEF MInv
<1>2. ASSUME UNCHANGED harness, Mendable(files') /\ Reach(files) \subseteq Reach(files')
      PROVE  Mendable(files') /\ WiredInReach'
  BY <1>1, <1>2 DEF WiredInReach
<1>3. ASSUME UNCHANGED <<files, harness>> PROVE Mendable(files') /\ WiredInReach'
  BY <1>1, <1>3 DEF WiredInReach
<1>4. CASE HarnessInit
  BY <1>1, <1>2, <1>4, InitKeeps DEF HarnessInit
<1>5. ASSUME NEW w \in Workflows, NEW s \in Steps, NEW force \in BOOLEAN,
             AgentInit(w, s, force)
      PROVE  Mendable(files') /\ WiredInReach'
  <2>1. files' = [files EXCEPT !.agents[s] = "plain"] /\ UNCHANGED harness
    BY <1>5 DEF AgentInit
  <2>2. "plain" # Absent
    BY AuthoringAssumption DEF Personas
  <2>3. Mendable(files') /\ Reach(files) \subseteq Reach(files')
    BY <1>1, <2>1, <2>2, AgentKeeps
  <2> QED
    BY <1>2, <2>1, <2>3
<1>6. ASSUME NEW p \in Processes, NEW text \in ProcessTexts,
             CreateProcess(p, text) \/ WriteProcess(p, text)
      PROVE  Mendable(files') /\ WiredInReach'
  <2>1. WriteProcess(p, text)
    BY <1>6 DEF CreateProcess
  <2>2. /\ Compiles(text, harness.env, harness.queues, harness.served, {})
        /\ harness.queues \subseteq Reach(files)
        /\ harness.served \subseteq DOMAIN SeedWorkflows
        /\ files' = [files EXCEPT !.processes[p] = text] /\ UNCHANGED harness
    BY <1>1, <2>1 DEF WriteProcess, Dashboard, WiredInReach, Mendable, Edit
  <2>3. Compiles(text, Credentials, Reach(files), DOMAIN SeedWorkflows, {})
    BY <2>2, CompilesWider
  <2>4. Mendable(files') /\ Reach(files) \subseteq Reach(files')
    BY <1>1, <2>2, <2>3, ProcessKeeps
  <2> QED
    BY <1>2, <2>2, <2>4
<1>7. ASSUME NEW p \in Processes, DeleteProcess(p)
      PROVE  Mendable(files') /\ WiredInReach'
  <2>1. files' = [files EXCEPT !.processes[p] = Absent] /\ UNCHANGED harness
    BY <1>7 DEF DeleteProcess, Edit
  <2>2. Mendable(files') /\ Reach(files) \subseteq Reach(files')
    BY <1>1, <2>1, ProcessKeeps
  <2> QED
    BY <1>2, <2>1, <2>2
<1>8. ASSUME NEW s \in Steps, CreateAgent(s) \/ WriteAgent(s)
      PROVE  Mendable(files') /\ WiredInReach'
  <2>1. files' = [files EXCEPT !.agents[s] = "plain"] /\ UNCHANGED harness
    BY <1>8 DEF CreateAgent, WriteAgent, Edit
  <2>2. "plain" # Absent
    BY AuthoringAssumption DEF Personas
  <2>3. Mendable(files') /\ Reach(files) \subseteq Reach(files')
    BY <1>1, <2>1, <2>2, AgentKeeps
  <2> QED
    BY <1>2, <2>1, <2>3
<1>9. ASSUME NEW s \in Steps, DeleteAgent(s) PROVE Mendable(files') /\ WiredInReach'
  <2>1. files' = [files EXCEPT !.agents[s] = Absent] /\ UNCHANGED harness
    BY <1>9 DEF DeleteAgent, Edit
  <2>2. PICK w \in DOMAIN SeedWorkflows : s \in StepsOf(SeedWorkflows[w])
    BY <1>9 DEF DeleteAgent, Edit
  <2>3. s \in KnownSteps(Seed)
    <3>1. Seed.workflows[w] = SeedWorkflows[w]
      BY SeedIs, AuthoringAssumption
    <3> QED
      BY <2>2, <3>1, SeedIs DEF KnownSteps
  <2>4. Mendable(files') /\ Reach(files) \subseteq Reach(files')
    BY <1>1, <2>1, <2>3, AgentKeeps
  <2> QED
    BY <1>2, <2>1, <2>4
<1>10. ASSUME NEW w \in Workflows, NEW text \in WorkflowTexts,
             CreateWorkflow(w, text) \/ WriteWorkflow(w, text)
       PROVE  FALSE
  BY <1>10 DEF CreateWorkflow, WriteWorkflow, Edit
<1>11. ASSUME NEW w \in Workflows, DeleteWorkflow(w)
       PROVE  Mendable(files') /\ WiredInReach'
  <2>1. files' = [files EXCEPT !.workflows[w] = Absent] /\ UNCHANGED harness
    BY <1>11 DEF DeleteWorkflow, Edit
  <2>2. Mendable(files') /\ Reach(files) \subseteq Reach(files')
    BY <1>1, <2>1, WorkflowKeeps
  <2> QED
    BY <1>2, <2>1, <2>2
<1>12. CASE ByHand
  BY <1>12 DEF ByHand, Edit
<1>13. CASE SetCredentials
  BY <1>3, <1>13 DEF SetCredentials
<1>14. CASE Start
  <2>1. harness' = Wiring(files, env) /\ UNCHANGED files
    BY <1>14 DEF Start
  <2> QED
    BY <1>1, <2>1, StartInReach DEF Wiring, WiredInReach
<1>15. CASE Stop
  BY <1>1, <1>15 DEF Stop, WiredInReach
<1>16. CASE UNCHANGED vars
  BY <1>3, <1>16 DEF vars
<1> QED
  BY <1>4, <1>5, <1>6, <1>7, <1>8, <1>9, <1>10, <1>11, <1>12, <1>13, <1>14, <1>15,
     <1>16 DEF Next

(* InitMends: `harness init' makes a root that starts and mends one whose   *)
(* seeded files were deleted, whatever was saved meanwhile and with or      *)
(* without a token (_init, _write_default_agents), if what it makes of an   *)
(* empty root does, for any seeds and any number of edits.                  *)
THEOREM InitMendsHolds == ASSUME SeedsBuild PROVE Spec => []InitMends
<1>1. Init => MInv
  <2> SUFFICES ASSUME Init PROVE Mendable(files) /\ WiredInReach
    BY DEF MInv
  <2>1. files = Fresh /\ harness = None
    BY DEF Init
  <2> QED
    BY <2>1 DEF Mendable, WiredInReach, Fresh
<1>2. files \in Files /\ MInv /\ [Next]_vars => MInv'
  BY MStep
<1>3. files \in Files /\ MInv /\ env \subseteq Credentials => InitMends
  <2>1. ASSUME files \in Files, MInv, env \subseteq Credentials, ~tampered,
               NEW e \in {env, {}}
        PROVE  Builds(Seeded(files), e)
    BY <2>1, MendedBuilds DEF MInv
  <2> QED
    BY <2>1 DEF InitMends
<1>4. IInv => files \in Files
  BY DEF IInv
<1>5. TypeOK => env \subseteq Credentials
  BY DEF TypeOK
<1> QED
  BY <1>1, <1>2, <1>3, <1>4, <1>5, Initially, Step, TypeCorrect, PTL DEF Spec

=============================================================================
