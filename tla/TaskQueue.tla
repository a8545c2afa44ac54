----------------------------- MODULE TaskQueue -----------------------------
(***************************************************************************)
(* What the TaskQueue port promises to the core (ports/queue.py), with no  *)
(* file system in sight: every task has one home queue, at most one client *)
(* holds it, a transfer moves it in one step, and a task whose holder died *)
(* comes back to the queue it was claimed from.  FsQueue implements this.  *)
(***************************************************************************)
CONSTANTS
    Tasks, Queues, Actors,
    Guarded,     \* queues that sweep an unreadable file into the failed queue
    Failed,      \* the queue unreadable files are swept into
    Nowhere,     \* home of a task that was never put, or was discarded
    Unclaimed,   \* holder of a task that lies in its queue
    Orphaned     \* holder of a task claimed by a process that died

VARIABLES
    home,        \* home[t]: the queue t belongs to, or Nowhere
    holder       \* holder[t]: the client holding t, Unclaimed or Orphaned

vars == <<home, holder>>

Init ==
    /\ home = [t \in Tasks |-> Nowhere]
    /\ holder = [t \in Tasks |-> Unclaimed]

\* Insert an unclaimed task.
Put(t, q) ==
    /\ home[t] = Nowhere
    /\ home' = [home EXCEPT ![t] = q]
    /\ UNCHANGED holder

\* Hand an unclaimed task to one client.
Claim(a, t) ==
    /\ home[t] # Nowhere
    /\ holder[t] = Unclaimed
    /\ holder' = [holder EXCEPT ![t] = a]
    /\ UNCHANGED home

\* Move a claimed task to another queue: it leaves one home and gains the
\* next, and is released, in the same step.
Transfer(a, t, q) ==
    /\ holder[t] = a
    /\ home' = [home EXCEPT ![t] = q]
    /\ holder' = [holder EXCEPT ![t] = Unclaimed]

\* Remove a claimed task for good.
Discard(a, t) ==
    /\ holder[t] = a
    /\ home' = [home EXCEPT ![t] = Nowhere]
    /\ holder' = [holder EXCEPT ![t] = Unclaimed]

\* An unreadable task is swept, unclaimed, into the failed queue.
SweepAway(t) ==
    /\ home[t] \in Guarded
    /\ holder[t] \in {Unclaimed, Orphaned}
    /\ home' = [home EXCEPT ![t] = Failed]
    /\ holder' = [holder EXCEPT ![t] = Unclaimed]

\* Every client dies: what they held is orphaned, nothing else changes.
Crash ==
    /\ holder' = [t \in Tasks |->
                    IF holder[t] \in Actors THEN Orphaned ELSE holder[t]]
    /\ UNCHANGED home

\* Return a task claimed before the crash to its own queue.
Recover(t) ==
    /\ holder[t] = Orphaned
    /\ holder' = [holder EXCEPT ![t] = Unclaimed]
    /\ UNCHANGED home

Next ==
    \/ \E t \in Tasks, q \in Queues : Put(t, q)
    \/ \E a \in Actors, t \in Tasks : Claim(a, t) \/ Discard(a, t)
    \/ \E a \in Actors, t \in Tasks, q \in Queues : Transfer(a, t, q)
    \/ \E t \in Tasks : Recover(t) \/ SweepAway(t)
    \/ Crash

Spec == Init /\ [][Next]_vars
=============================================================================
