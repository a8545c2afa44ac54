---------------------------- MODULE StageOutput ----------------------------
(***************************************************************************)
(* The live output of the stage a task is in: a ring of its last lines and *)
(* a queue for each viewer of the page, all in the memory of the service   *)
(* and all on its event loop.  A viewer is served what the ring holds, one *)
(* line at a time, and then what its queue gathered meanwhile.             *)
(* Lines are numbered from 1 as the agent says them; 0 is the end marker.  *)
(***************************************************************************)
EXTENDS Naturals, Sequences

CONSTANTS
    Viewers,    \* open pages of the task
    MaxLines    \* depth of the ring, and of a viewer's queue

ASSUME OutputAssumption == MaxLines \in Nat \ {0}

VARIABLES
    buffer,     \* the ring
    running,    \* a stage of the task runs
    viewer,     \* viewer[v]: where v's stream is
    heard,      \* heard[v]: the lines v was served since it subscribed
    lagged      \* observer: v's queue has overflowed since

outputVars == <<buffer, running, viewer, heard, lagged>>

EndMark == 0
Away == [at |-> "away"]
Viewing(v) == viewer[v] # Away

OutputInit ==
    /\ buffer = <<>> /\ running = FALSE
    /\ viewer = [v \in Viewers |-> Away]
    /\ heard = [v \in Viewers |-> <<>>]
    /\ lagged = [v \in Viewers |-> FALSE]

-----------------------------------------------------------------------------
(* What the events of the stage do.                                        *)

PushedAll(seq, item) == Append(seq, item)

\* Append to a sequence that keeps its last MaxLines items.
Pushed(seq, item) == Append(IF Len(seq) < MaxLines THEN seq ELSE Tail(seq), item)

TellLive(item) ==
    /\ viewer' = [v \in Viewers |->
          IF Viewing(v) /\ viewer[v].at = "live"
          THEN [viewer[v] EXCEPT !.queue = Pushed(@, item)] ELSE viewer[v]]
    /\ lagged' = [v \in Viewers |-> lagged[v]
          \/ (Viewing(v) /\ viewer[v].at = "live" /\ Len(viewer[v].queue) = MaxLines)]
    /\ UNCHANGED heard

\* Into the queue of every viewer that is subscribed.
Tell(item) ==
    /\ viewer' = [v \in Viewers |->
          IF Viewing(v) THEN [viewer[v] EXCEPT !.queue = Pushed(@, item)] ELSE Away]
    /\ lagged' = [v \in Viewers |->
          lagged[v] \/ (Viewing(v) /\ Len(viewer[v].queue) = MaxLines)]
    /\ UNCHANGED heard

\* claimed
ResetOutput ==
    /\ buffer' = <<>> /\ running' = TRUE
    /\ UNCHANGED <<viewer, heard, lagged>>

\* stage_output
AppendOutput(line) ==
    /\ buffer' = Pushed(buffer, line)
    /\ Tell(line)
    /\ UNCHANGED running

\* consumed, failed
CloseOutput ==
    /\ buffer' = <<>> /\ running' = FALSE
    /\ Tell(EndMark)

\* The process that held it is gone, and every stream with it.
LoseOutput ==
    /\ buffer' = <<>> /\ running' = FALSE
    /\ viewer' = [v \in Viewers |-> Away]
    /\ heard' = [v \in Viewers |-> <<>>]
    /\ lagged' = [v \in Viewers |-> FALSE]

-----------------------------------------------------------------------------
(* A viewer's stream, from one yield to the next.                          *)

Leaves(v) ==
    /\ viewer' = [viewer EXCEPT ![v] = Away]
    /\ heard' = [heard EXCEPT ![v] = <<>>]
    /\ lagged' = [lagged EXCEPT ![v] = FALSE]

\* Serves the first line left to replay; with none left, goes on live if the
\* stage still runs and ends the stream if it does not.
Replay(v, left, queue) ==
    IF left # <<>>
    THEN /\ viewer' = [viewer EXCEPT ![v] =
                [at |-> "replay", left |-> Tail(left), queue |-> queue]]
         /\ heard' = [heard EXCEPT ![v] = Append(@, Head(left))]
         /\ UNCHANGED lagged
    ELSE IF running
    THEN /\ viewer' = [viewer EXCEPT ![v] = [at |-> "live", queue |-> queue]]
         /\ UNCHANGED <<heard, lagged>>
    ELSE Leaves(v)

\* The queue is registered and the ring copied in one go.
Subscribe(v) ==
    /\ ~Viewing(v)
    /\ Replay(v, buffer, <<>>)
    /\ UNCHANGED <<buffer, running>>

Resume(v) ==
    /\ Viewing(v) /\ viewer[v].at = "replay"
    /\ Replay(v, viewer[v].left, viewer[v].queue)
    /\ UNCHANGED <<buffer, running>>

Take(v) ==
    /\ Viewing(v) /\ viewer[v].at = "live" /\ viewer[v].queue # <<>>
    /\ LET item == Head(viewer[v].queue) IN
       IF item = EndMark THEN Leaves(v)
       ELSE /\ viewer' = [viewer EXCEPT ![v].queue = Tail(@)]
            /\ heard' = [heard EXCEPT ![v] = Append(@, item)]
            /\ UNCHANGED lagged
    /\ UNCHANGED <<buffer, running>>

\* The page is closed.
Unsubscribe(v) == Viewing(v) /\ Leaves(v) /\ UNCHANGED <<buffer, running>>

-----------------------------------------------------------------------------
(* Properties.                                                             *)

OutputTypeOK ==
    /\ buffer \in Seq(Nat \ {0}) /\ Len(buffer) <= MaxLines
    /\ running \in BOOLEAN
    /\ \A v \in Viewers :
          \/ viewer[v] = Away
          \/ /\ viewer[v].at \in {"replay", "live"}
             /\ viewer[v].queue \in Seq(Nat) /\ Len(viewer[v].queue) <= MaxLines
             /\ viewer[v].at = "replay" => viewer[v].left \in Seq(Nat \ {0})
    /\ heard \in [Viewers -> Seq(Nat \ {0})]
    /\ lagged \in [Viewers -> BOOLEAN]

\* stage_output.py:57-59.  A viewer is served the lines in the order they were
\* said, none twice, and none left out between two that it is served, over the
\* seam of replay and live and over the stages of the task; unless it was so
\* slow that its queue overflowed.
StreamInOrder ==
    \A v \in Viewers : \A i \in 1 .. Len(heard[v]) - 1 :
        /\ heard[v][i] < heard[v][i + 1]
        /\ lagged[v] \/ heard[v][i + 1] = heard[v][i] + 1
=============================================================================
