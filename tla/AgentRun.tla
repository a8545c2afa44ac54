----------------------------- MODULE AgentRun -----------------------------
(***************************************************************************)
(* One stage at a time of one task: the process its behavior starts, what  *)
(* that process writes into its pipes, the runner that reads them against  *)
(* a timer, and the outcome the consumer is given.  An agent says lines    *)
(* and, in a result message, its verdict; a verify command only has an     *)
(* exit code.                                                              *)
(***************************************************************************)
EXTENDS StageOutput

CONSTANTS
    Kinds,      \* of the stages: a subset of KindsOfStage
    PipeRoom,   \* messages a pipe holds
    MaxWrites   \* bound on what one process writes

KindsOfStage == {"single",   \* an agent of a step with one outcome
                 "multi",    \* an agent of a step with several
                 "verify"}   \* a repository's verify command

ASSUME RunAssumption ==
    Kinds \subseteq KindsOfStage /\ PipeRoom \in Nat \ {0} /\ MaxWrites \in Nat

VARIABLES
    child,      \* the process: what it does next, and what it last reported
    out, err,   \* its pipes: the messages in stdout, how full stderr is
    run,        \* the runner
    said        \* how many lines were said since the service started

runVars == <<child, out, err, run, said>>

Off == [at |-> "off"]
Running == run.at \in {"reading", "reprompt"}

RunInit ==
    /\ child = Off /\ run = Off
    /\ out = <<>> /\ err = 0 /\ said = 0

-----------------------------------------------------------------------------
(* The process.  A result is `good' (a readable verdict that is allowed),  *)
(* `mute' (none) or `broken' (is_error, or no result in it).               *)

Results == {"good", "mute", "broken"}
Messages == {"line"} \cup Results
Exits == {"exit0", "exit1"}

\* It may end or hang whenever it likes; verify has stderr in its stdout.
Intents(kind, left) ==
    Exits \cup {"hang"}
          \cup (IF left = 0 THEN {}
                ELSE IF kind = "verify" THEN {"line"} ELSE Messages \cup {"noise"})

Goes(kind, left, last) ==
    \E next \in Intents(kind, left) :
        child' = [at |-> "alive", next |-> next, left |-> left, last |-> last]

Writes ==
    /\ child.at = "alive" /\ child.next \in Messages /\ Len(out) < PipeRoom
    /\ out' = Append(out, child.next)
    /\ Goes(run.kind, child.left - 1,
            IF child.next \in Results THEN child.next ELSE child.last)
    /\ UNCHANGED <<err, run, said, outputVars>>

WritesError ==
    /\ child.at = "alive" /\ child.next = "noise" /\ err < PipeRoom
    /\ err' = err + 1
    /\ Goes(run.kind, child.left - 1, child.last)
    /\ UNCHANGED <<out, run, said, outputVars>>

Exit ==
    /\ child.at = "alive" /\ child.next \in Exits
    /\ child' = [child EXCEPT !.at = "exited"]
    /\ UNCHANGED <<out, err, run, said, outputVars>>

-----------------------------------------------------------------------------
(* The runner.                                                             *)

\* The consumer claims the task and its behavior starts the process.
StartRun(kind) ==
    /\ ~Running
    /\ run' = [at |-> "reading", kind |-> kind, final |-> "none"]
    /\ Goes(kind, MaxWrites, "none")
    /\ out' = <<>> /\ err' = 0
    /\ ResetOutput
    /\ UNCHANGED said

ReadsInTurn == IF child.at = "alive" THEN {"out"} ELSE {"out", "err"}

\* Both pipes are read at once, while the process lives.
Reads == {"out", "err"}

ReadOut ==
    /\ run.at = "reading" /\ out # <<>> /\ "out" \in Reads
    /\ out' = Tail(out)
    /\ IF Head(out) \in Results
       THEN run' = [run EXCEPT !.final = Head(out)] /\ UNCHANGED <<said, outputVars>>
       ELSE IF run.kind = "verify" THEN UNCHANGED <<run, said, outputVars>>
       ELSE said' = said + 1 /\ AppendOutput(said + 1) /\ UNCHANGED run
    /\ UNCHANGED <<child, err>>

ReadErr ==
    /\ run.at = "reading" /\ err > 0 /\ "err" \in Reads
    /\ err' = err - 1
    /\ UNCHANGED <<child, out, run, said, outputVars>>

\* Observer: what a process that did all this has earned.
Earned(answer) ==
    IF child.next = "hang" THEN "error"
    ELSE IF child.next \notin Exits THEN "time"       \* it was at work
    ELSE IF run.kind = "verify"
         THEN IF child.next = "exit0" THEN "done" ELSE "changes"
    ELSE IF child.next = "exit1" \/ child.last \in {"none", "broken"} THEN "error"
    ELSE IF child.last = "good" \/ run.kind = "single" \/ answer = "good"
         THEN "done" ELSE "error"

\* The process is reaped; the outcome goes to the inbox, an error to failed/.
End(result, answer) ==
    /\ run' = [at |-> "ended", result |-> result, earned |-> Earned(answer)]
    /\ child' = Off /\ out' = <<>> /\ err' = 0
    /\ CloseOutput
    /\ UNCHANGED said

\* A verify command is its exit code.
Verified(exit) == IF exit = "exit0" THEN "done" ELSE "changes"

\* What the exit code and the last result message come to.
Verdict(exit, final) ==
    CASE exit = "exit1" -> "error"
      [] final \in {"none", "broken"} -> "error"
      [] OTHER -> final

\* A step with one outcome means that one, verdict or not.
Fallback(kind) == IF kind = "single" THEN "done" ELSE "error"

\* Both pipes are at their end.  Without a session there is nobody to ask again.
Conclude ==
    /\ run.at = "reading" /\ child.at = "exited" /\ out = <<>> /\ err = 0
    /\ IF run.kind = "verify"
       THEN End(Verified(child.next), "none")
       ELSE LET verdict == Verdict(child.next, run.final) IN
            CASE verdict = "error" -> End("error", "none")
              [] verdict = "good"  -> End("done", "none")
              [] OTHER ->               \* mute
                    \/ /\ run.kind = "multi" /\ run' = [run EXCEPT !.at = "reprompt"]
                       /\ UNCHANGED <<child, out, err, said, outputVars>>
                    \/ End(Fallback(run.kind), "none")

\* Whatever goes wrong in the second call is no answer, and no error.
Answer ==
    /\ run.at = "reprompt"
    /\ \/ End("done", "good")
       \/ End(Fallback(run.kind), "none")

\* Nothing moves any more.  The timer is taken to be longer than a run in
\* which something does.
Stuck ==
    /\ child.at = "alive"
    /\ ~(child.next \in Messages /\ Len(out) < PipeRoom)
    /\ ~(child.next = "noise" /\ err < PipeRoom)
    /\ child.next \notin Exits
    /\ ~(out # <<>> /\ "out" \in Reads) /\ ~(err > 0 /\ "err" \in Reads)

\* Killed and reaped; a verdict that was read already goes with it.
TimesOut ==
    /\ run.at = "reading" /\ Stuck
    /\ End("error", "none")

\* The service is killed, and its processes with it.
LoseRun ==
    /\ child' = Off /\ run' = Off
    /\ out' = <<>> /\ err' = 0 /\ said' = 0
    /\ LoseOutput

RunStep ==
    \/ Writes \/ WritesError \/ Exit
    \/ ReadOut \/ ReadErr \/ Conclude \/ Answer \/ TimesOut

ViewStep(v) == (Resume(v) \/ Take(v)) /\ UNCHANGED runVars
ViewerActs(v) == (Subscribe(v) \/ Unsubscribe(v)) /\ UNCHANGED runVars

-----------------------------------------------------------------------------
(* Properties.                                                             *)

RunTypeOK ==
    /\ OutputTypeOK
    /\ \/ child = Off
       \/ /\ child.at \in {"alive", "exited"}
          /\ child.next \in Intents("single", 1)
          /\ child.left \in 0 .. MaxWrites /\ child.last \in Results \cup {"none"}
    /\ out \in Seq(Messages) /\ Len(out) <= PipeRoom
    /\ err \in 0 .. PipeRoom /\ said \in Nat
    /\ run.at \in {"off", "reading", "reprompt", "ended"}
    /\ Running => run.kind \in Kinds /\ child # Off
    /\ run.at = "ended" => run.result \in {"done", "changes", "error"}

\* However the process interleaves what it writes with what is read, and however
\* little its pipes hold, the stage ends with what the process earned: its last
\* result, told or recovered; it is timed out only if it hung, and a second call
\* that fails never makes an error of a run that had its answer.
VerdictIsRight == run.at = "ended" => run.result = run.earned
=============================================================================
