------------------------------ MODULE Service ------------------------------
(***************************************************************************)
(* The installed service under the updates that replace it: who upgrades   *)
(* the package on disk, when the running process is restarted for it, and  *)
(* what that does to the stage that runs.  launchd keeps the service up;   *)
(* the operator installs and removes it, and the jobs that fire updates.   *)
(***************************************************************************)
EXTENDS AgentRun

CONSTANTS
    Updaters,       \* updates that may be under way at once
    Stages,         \* how many stages the task goes through
    CallsFail,      \* uv and launchctl may fail
    MaxReleases,    \* bound: how often a new version is published
    MaxOutages      \* bound: how often the operator or a crash interferes

ASSUME ServiceAssumption ==
    CallsFail \in BOOLEAN /\ {Stages, MaxReleases, MaxOutages} \subseteq Nat

VARIABLES
    published, installed, runs,   \* version out there, on disk, in the process
    update,                       \* update[u]: where u's update is
    job,                          \* the service is loaded, out or absent
    outages,                      \* counter for the bound
    settled                       \* the stages that ended

jobVars == <<job, outages>>
versionVars == <<published, installed, runs, update>>
vars == <<outputVars, runVars, versionVars, jobVars, settled>>

Idle == [at |-> "idle"]

Modes == {"slot",    \* the schedule's `harness update --restart --only-if-idle'
          "now",     \* without the gate, or with --restart-service
          "board"}   \* the button of the page

Init ==
    /\ OutputInit /\ RunInit
    /\ published = 0 /\ installed = 0 /\ runs = 0
    /\ update = [u \in Updaters |-> Idle]
    /\ job = "loaded" /\ outages = 0
    /\ settled = 0

-----------------------------------------------------------------------------
(* Updates.                                                                *)

Publish ==
    /\ published < MaxReleases /\ published' = published + 1
    /\ UNCHANGED <<installed, runs, update, jobVars, settled, outputVars, runVars>>

\* Asked of the script on disk, which the process that asks may not be.
Reported == installed

Fired(mode) == [at |-> "upgrading", mode |-> mode, before |-> Reported]

\* The button needs a page.
Fire(u, mode) ==
    /\ update[u] = Idle
    /\ mode = "board" => job = "loaded"
    /\ update' = [update EXCEPT ![u] = Fired(mode)]
    /\ UNCHANGED <<published, installed, runs, jobVars, settled, outputVars, runVars>>

\* `uv tool upgrade': it installs the newest there is, or fails.
Upgrade(u) ==
    /\ update[u].at = "upgrading"
    /\ \/ /\ installed' = published
          /\ update' = [update EXCEPT ![u].at = "upgraded"]
       \/ /\ CallsFail /\ update' = [update EXCEPT ![u] = Idle]
          /\ UNCHANGED installed
    /\ UNCHANGED <<published, runs, jobVars, settled, outputVars, runVars>>

\* Only a version that changed is worth a restart.
ChangedAlways(u) == TRUE

Changed(u) == update[u].before # Reported

\* The stages in a .processing/ directory.
ActiveStages == IF Running THEN {"stage"} ELSE {}

Deferred(u) == update[u].mode # "now" /\ ActiveStages # {}

Decide(u) ==
    /\ update[u].at = "upgraded"
    /\ update' = [update EXCEPT ![u] =
          IF Changed(u) /\ ~Deferred(u)
          THEN [at |-> "restarting", mode |-> update[u].mode] ELSE Idle]
    /\ UNCHANGED <<published, installed, runs, jobVars, settled, outputVars, runVars>>

OfThePage(u) == update[u] # Idle /\ update[u].mode = "board"

\* The process is killed, with the button's update; a stage that ran goes back
\* to the front of its queue.
Killed(done) ==
    /\ LoseRun
    /\ update' = [w \in Updaters |->
                      IF w \in done \/ OfThePage(w) THEN Idle ELSE update[w]]

\* It is started from what is installed.
Kickstart(u) ==
    /\ update[u].at = "restarting" /\ job = "loaded"
    /\ Killed({u})
    /\ runs' = installed
    /\ UNCHANGED <<published, installed, jobVars, settled>>

KickstartFails(u) ==
    /\ CallsFail \/ job # "loaded"
    /\ update[u].at = "restarting"
    /\ update' = [update EXCEPT ![u] = Idle]
    /\ UNCHANGED <<published, installed, runs, jobVars, settled, outputVars, runVars>>

-----------------------------------------------------------------------------
(* What launchd is told, and what it does by itself.                       *)

Outage == outages < MaxOutages /\ outages' = outages + 1

\* `harness update' alone restarts nothing; that it finds nothing new is left out.
UpdateOnly ==
    /\ Outage
    /\ installed # published /\ installed' = published
    /\ UNCHANGED <<published, runs, update, job, settled, outputVars, runVars>>

\* KeepAlive: a service that died is started again.
Dies ==
    /\ Outage /\ job = "loaded"
    /\ Killed({})
    /\ runs' = installed
    /\ UNCHANGED <<published, installed, job, settled>>

\* `harness service install': the copy that runs is booted out ...
ServiceInstall ==
    /\ Outage /\ job # "out"
    /\ Killed({})
    /\ job' = "out"
    /\ UNCHANGED <<published, installed, runs, settled>>

\* ... and, once it is gone, the new one started, or nothing.  It is started
\* twice, by the bootstrap and at once again: no stage ends in between.
Bootstrap ==
    /\ job = "out"
    /\ \/ job' = "loaded" /\ runs' = installed
       \/ CallsFail /\ job' = "absent" /\ UNCHANGED runs
    /\ UNCHANGED <<published, installed, update, outages, settled, outputVars, runVars>>

\* `harness service uninstall'
ServiceUninstall ==
    /\ Outage /\ job = "loaded"
    /\ Killed({})
    /\ job' = "absent"
    /\ UNCHANGED <<published, installed, runs, settled>>

\* A job of its own fires the updates.  Replacing it boots it out, in whatever
\* update it is, and fires the new one at once.
Replaced(u, next) ==
    /\ Outage
    /\ update[u] # Idle => update[u].mode # "board"
    /\ next # update[u]
    /\ update' = [update EXCEPT ![u] = next]
    /\ UNCHANGED <<published, installed, runs, job, settled, outputVars, runVars>>

AutoupdateInstall(u) == Replaced(u, Fired("now"))
AutoupdateSchedule(u) == Replaced(u, Fired("slot"))
AutoupdateUninstall(u) == Replaced(u, Idle)

-----------------------------------------------------------------------------

Claim ==
    /\ job = "loaded" /\ settled < Stages
    /\ \E kind \in Kinds : StartRun(kind)
    /\ UNCHANGED <<versionVars, jobVars, settled>>

Stage ==
    /\ RunStep
    /\ settled' = IF run'.at = "ended" THEN settled + 1 ELSE settled
    /\ UNCHANGED <<versionVars, jobVars>>

View(v) == ViewStep(v) /\ UNCHANGED <<versionVars, jobVars, settled>>
Visit(v) ==
    /\ job = "loaded" /\ ViewerActs(v)
    /\ UNCHANGED <<versionVars, jobVars, settled>>

\* What an update does next, once it is under way.
Proceed(u) == Upgrade(u) \/ Decide(u) \/ Kickstart(u) \/ KickstartFails(u)

Next ==
    \/ Claim \/ Stage
    \/ \E v \in Viewers : View(v) \/ Visit(v)
    \/ \E u \in Updaters : \/ \E mode \in Modes : Fire(u, mode)
                           \/ Proceed(u)
                           \/ AutoupdateInstall(u) \/ AutoupdateSchedule(u)
                           \/ AutoupdateUninstall(u)
    \/ Publish \/ UpdateOnly \/ Dies \/ ServiceInstall \/ Bootstrap \/ ServiceUninstall

\* The loops of the service go on, a viewer reads what it is sent, and the
\* schedule fires for good.
Fairness ==
    /\ WF_vars(Claim) /\ WF_vars(Stage) /\ WF_vars(Bootstrap)
    /\ \A v \in Viewers : WF_vars(View(v))
    /\ \A u \in Updaters : WF_vars(Proceed(u))
    /\ \A u \in Updaters : WF_vars(Fire(u, "slot"))

Spec == Init /\ [][Next]_vars /\ Fairness

-----------------------------------------------------------------------------
(* Properties.                                                             *)

\* Every variable has its type; versions only follow one another.
TypeOK ==
    /\ RunTypeOK
    /\ runs \in Nat /\ runs <= installed /\ installed <= published
    /\ published \in 0 .. MaxReleases
    /\ \A u \in Updaters :
          \/ update[u] = Idle
          \/ /\ update[u].at \in {"upgrading", "upgraded", "restarting"}
             /\ update[u].mode \in Modes
             /\ update[u].at # "restarting" => update[u].before <= installed
    /\ job \in {"loaded", "out", "absent"}
    /\ job # "loaded" => run = Off /\ \A v \in Viewers : ~Viewing(v)
    /\ outages \in 0 .. MaxOutages
    /\ settled \in 0 .. Stages

\* cli.py:1736-1742.  Updates that find nothing new never keep a stage from its
\* end, however often they fire: every stage of a service that stays installed
\* ends, and every page's stream of its output with it.
EverythingEnds ==
    <>[](job = "loaded") => <>[](settled = Stages /\ \A v \in Viewers : ~Viewing(v))

\* README.md:92-95.  What a firing left for the next one is applied.
DeferredApplies == runs # installed ~> runs = installed
=============================================================================
