----------------------------- MODULE MCAuthoring -----------------------------
(* Two workflows that share a step, the seeded processes and what operators  *)
(* write in their place.                                                     *)
EXTENDS Authoring, TLC

NoEdges == <<>>
Text(start, edges, finishers) ==
    [broken |-> FALSE, start |-> start, edges |-> edges, limits |-> NoEdges,
     finishers |-> finishers, described |-> {}]
Edge(s, t) == [from |-> s, to |-> t]
OpenIssue(config) == [kind |-> "open-issue", config |-> config]

\* code -> land, and heal -> file, where a finisher files what heal wrote.
Development == Text("code", {Edge("code", "land"), Edge("land", END)}, NoEdges)
HealEdges == {Edge("heal", "file"), Edge("file", END)}
Heal == Text("heal", HealEdges, "file" :> OpenIssue("replaces"))

MCSeedWorkflows == [development |-> Development, heal |-> Heal]
MCWorkflowTexts ==
    {Development, Heal,
     Text("heal", HealEdges, "file" :> OpenIssue("rejected")),
     Text("heal", HealEdges, "heal" :> [kind |-> "label-issue", config |-> "wraps"]),
     Text("code", {Edge("code", "file")}, "file" :> [kind |-> "merge-pr", config |-> "wraps"]),
     Text("code", {Edge("code", "land")}, "file" :> OpenIssue("replaces"))}

AtWorkflow(w) == [workflow |-> w, step |-> None]
AtStep(s) == [workflow |-> None, step |-> s]
Process(check, param, labels, target, repository, rest) ==
    [broken |-> FALSE, cadence |-> TRUE, rest |-> rest, check |-> check, param |-> param,
     labels |-> labels, target |-> target, repository |-> repository]

MCSeedProcesses ==
    [autoheal |-> Process("failed-tasks", None, {}, AtWorkflow("heal"), None, TRUE),
     triage   |-> Process("github-issues", None, {"todo"}, AtWorkflow("development"), None, TRUE)]
MCProcessTexts ==
    {MCSeedProcesses[p] : p \in DOMAIN MCSeedProcesses} \cup
    {Process("failed-tasks", "repo", {}, AtStep("file"), None, TRUE),
     Process("jira-issues", "repo", {}, AtWorkflow("development"), "repo", TRUE),
     Process("always", None, {}, AtStep("extra"), None, TRUE),
     Process("github-issues", None, {"todo"}, AtStep("code"), "repo", FALSE)}
MCTriggerTexts ==
    {[sound |-> TRUE, check |-> "always", target |-> AtWorkflow("heal")],
     [sound |-> TRUE, check |-> "failed-tasks", target |-> AtStep("code")]}
=============================================================================
