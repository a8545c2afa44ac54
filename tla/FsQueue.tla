------------------------------ MODULE FsQueue ------------------------------
(***************************************************************************)
(* drivers/fs_queue.py: a queue is a directory of task files with a        *)
(* .processing/ directory inside.  Every step below is one atomic file     *)
(* system operation, and clients - the event loop, the threads that serve  *)
(* the operator's requests, other processes - interleave between any two.  *)
(* A process crash may fall between any two steps as well.                 *)
(*                                                                         *)
(* A file's content is abstracted to its revision (how many handlings are  *)
(* recorded in it) and its lockId.  Temporary files of _write() are left   *)
(* out: no listing sees one, and the rename that publishes one is atomic.  *)
(***************************************************************************)
EXTENDS Naturals, FiniteSets

CONSTANTS
    Tasks,       \* task ids
    Actors,      \* clients of the queues inside the harness process
    Queues,      \* every queue directory
    Inbox,       \* the queue new tasks are put into
    Guarded,     \* queues built with quarantine=failed: the inbox, the steps
    Failed,      \* the failed queue, where a quarantined file goes
    Recovered,   \* the queues Harness.recover() walks after a restart
    MaxRev,      \* bound: revisions a task may reach
    NoFile, Corrupt, NoLock, NoTask, NoQueue

ASSUME QueueAssumption ==
    /\ Inbox \in Queues
    /\ Guarded \subseteq Queues
    /\ Failed \in Queues \ Guarded
    /\ Recovered \subseteq Queues
    /\ Guarded \subseteq Recovered
    /\ MaxRev \in Nat

ASSUME MarkerAssumption ==
    /\ NoLock \notin Actors
    /\ NoTask \notin Tasks
    /\ NoQueue \notin Queues
    /\ NoFile # Corrupt
    /\ NoFile \notin [rev : Nat, lock : Actors \cup {NoLock}]
    /\ Corrupt \notin [rev : Nat, lock : Actors \cup {NoLock}]

Content == [rev : Nat, lock : Actors \cup {NoLock}]

VARIABLES
    root,        \* root[q][t]: the file <q>/<t>.json, or NoFile
    held,        \* held[q][t]: the file <q>/.processing/<t>.json, or NoFile
    pc,          \* pc[a]: how far a's current operation has got
    task,        \* task[a]: the task a is working on
    queue,       \* queue[a]: the queue a listed the task in
    rev,         \* rev[a]: the revision of a's copy of the task
    up,          \* the harness process is running
    born,        \* ids handed out so far (new_task_id never repeats one)
    gone,        \* tasks discarded by a client
    writing      \* tasks whose `harness submit' has created an empty file

clients == <<pc, task, queue, rev>>
vars == <<root, held, clients, up, born, gone, writing>>

Idle == "idle"          \* between two operations
Listed == "listed"      \* holds a copy read by list()
Renamed == "renamed"    \* claim(): the file is in .processing/, not yet stamped
Working == "working"    \* claim() returned
Written == "written"    \* transfer(): the new content is in .processing/
Sweeping == "sweeping"  \* list(): read an unreadable file, about to move it

\* The steps at which a client owns the file in .processing/.
Holding(a) == pc[a] \in {Renamed, Working, Written}

File(rv, lock) == [rev |-> rv, lock |-> lock]

Init ==
    /\ root = [q \in Queues |-> [t \in Tasks |-> NoFile]]
    /\ held = [q \in Queues |-> [t \in Tasks |-> NoFile]]
    /\ pc = [a \in Actors |-> Idle]
    /\ task = [a \in Actors |-> NoTask]
    /\ queue = [a \in Actors |-> NoQueue]
    /\ rev = [a \in Actors |-> 0]
    /\ up = TRUE
    /\ born = {}
    /\ gone = {}
    /\ writing = {}

Begin(a, stage, t, q, r) ==
    /\ pc' = [pc EXCEPT ![a] = stage]
    /\ task' = [task EXCEPT ![a] = t]
    /\ queue' = [queue EXCEPT ![a] = q]
    /\ rev' = [rev EXCEPT ![a] = r]

Goto(a, stage) ==
    /\ pc' = [pc EXCEPT ![a] = stage]
    /\ UNCHANGED <<task, queue, rev>>

Finish(a) == Begin(a, Idle, NoTask, NoQueue, 0)

\* put(): one atomic write of a fresh task, by the poller or the import.
Put(t) ==
    /\ up
    /\ t \notin born
    /\ root' = [root EXCEPT ![Inbox][t] = File(0, NoLock)]
    /\ born' = born \cup {t}
    /\ UNCHANGED <<held, clients, up, gone, writing>>

\* `harness submit' is a process of its own, harness running or not, and it
\* does not go through put(): it opens the file in the inbox ...
SubmitOpen(t) ==
    /\ t \notin born
    /\ root' = [root EXCEPT ![Inbox][t] = Corrupt]
    /\ born' = born \cup {t}
    /\ writing' = writing \cup {t}
    /\ UNCHANGED <<held, clients, up, gone>>

\* ... and then writes it, wherever the open file has been moved meanwhile.
SubmitWrite(t) ==
    /\ t \in writing
    /\ root' = [q \in Queues |->
                  IF root[q][t] = NoFile THEN root[q]
                  ELSE [root[q] EXCEPT ![t] = File(0, NoLock)]]
    /\ writing' = writing \ {t}
    /\ UNCHANGED <<held, clients, up, born, gone>>

\* The submitting process dies in between.
SubmitDies(t) ==
    /\ t \in writing
    /\ writing' = writing \ {t}
    /\ UNCHANGED <<root, held, clients, up, born, gone>>

\* list(): a readable file becomes a copy in the client's memory.
List(a, q, t) ==
    /\ up
    /\ pc[a] = Idle
    /\ root[q][t] \notin {NoFile, Corrupt}
    /\ Begin(a, Listed, t, q, root[q][t].rev)
    /\ UNCHANGED <<root, held, up, born, gone, writing>>

\* list(): a file that does not parse is about to be quarantined.
ListCorrupt(a, q, t) ==
    /\ up
    /\ pc[a] = Idle
    /\ q \in Guarded
    /\ root[q][t] = Corrupt
    /\ Begin(a, Sweeping, t, q, 0)
    /\ UNCHANGED <<root, held, up, born, gone, writing>>

\* _quarantine_file(): move whatever is at the path now; gone is fine.
Quarantine(a) ==
    /\ pc[a] = Sweeping
    /\ root' = IF root[queue[a]][task[a]] = NoFile
               THEN root
               ELSE [root EXCEPT ![queue[a]][task[a]] = NoFile,
                                 ![Failed][task[a]] = root[queue[a]][task[a]]]
    /\ Finish(a)
    /\ UNCHANGED <<held, up, born, gone, writing>>

\* Mutant: the lease is a copy, the original stays listed.
ClaimByCopy(a) ==
    /\ pc[a] = Listed
    /\ root[queue[a]][task[a]] # NoFile
    /\ held' = [held EXCEPT ![queue[a]][task[a]] = root[queue[a]][task[a]]]
    /\ Goto(a, Renamed)
    /\ UNCHANGED <<root, up, born, gone, writing>>

\* claim(), the rename that is the lease.
ClaimRename(a) ==
    /\ pc[a] = Listed
    /\ root[queue[a]][task[a]] # NoFile
    /\ root' = [root EXCEPT ![queue[a]][task[a]] = NoFile]
    /\ held' = [held EXCEPT ![queue[a]][task[a]] = root[queue[a]][task[a]]]
    /\ Goto(a, Renamed)
    /\ UNCHANGED <<up, born, gone, writing>>

\* Mutant: a lost race is not noticed.
ClaimLostUnnoticed(a) ==
    /\ pc[a] = Listed
    /\ root[queue[a]][task[a]] = NoFile
    /\ Begin(a, Working, NoTask, NoQueue, 0)
    /\ UNCHANGED <<root, held, up, born, gone, writing>>

\* claim() returns None: another client moved the file first.
ClaimLost(a) ==
    /\ pc[a] = Listed
    /\ root[queue[a]][task[a]] = NoFile
    /\ Finish(a)
    /\ UNCHANGED <<root, held, up, born, gone, writing>>

\* claim() stamps the lock onto the caller's copy - the one list() returned,
\* however old it is by now - and writes that over the claimed file.
ClaimWrite(a) ==
    /\ pc[a] = Renamed
    /\ held' = [held EXCEPT ![queue[a]][task[a]] = File(rev[a], a)]
    /\ Goto(a, Working)
    /\ UNCHANGED <<root, up, born, gone, writing>>

\* transfer(), first half: the updated task is written where it is held,
\* under the queue it is leaving.
TransferWrite(a) ==
    /\ pc[a] = Working
    /\ rev[a] < MaxRev
    /\ held' = [held EXCEPT ![queue[a]][task[a]] = File(rev[a] + 1, NoLock)]
    /\ Begin(a, Written, task[a], queue[a], rev[a] + 1)
    /\ UNCHANGED <<root, up, born, gone, writing>>

\* Mutant: write into the destination, and leave the claimed file behind.
TransferByCopy(a, q) ==
    /\ pc[a] = Written
    /\ root' = [root EXCEPT ![q][task[a]] = held[queue[a]][task[a]]]
    /\ Finish(a)
    /\ UNCHANGED <<held, up, born, gone, writing>>

\* transfer(), second half: the rename into the destination's directory.
TransferRename(a, q) ==
    /\ pc[a] = Written
    /\ root' = [root EXCEPT ![q][task[a]] = held[queue[a]][task[a]]]
    /\ held' = [held EXCEPT ![queue[a]][task[a]] = NoFile]
    /\ Finish(a)
    /\ UNCHANGED <<up, born, gone, writing>>

\* discard(): the operator deleted the task.
Discard(a) ==
    /\ pc[a] = Working
    /\ held' = [held EXCEPT ![queue[a]][task[a]] = NoFile]
    /\ gone' = gone \cup {task[a]}
    /\ Finish(a)
    /\ UNCHANGED <<root, up, born, writing>>

\* A hand-edited or damaged file no longer parses.
Damage(q, t) ==
    /\ UNCHANGED <<clients, up, born, gone, writing>>
    /\ \/ /\ root[q][t] \notin {NoFile, Corrupt}
          /\ root' = [root EXCEPT ![q][t] = Corrupt]
          /\ UNCHANGED held
       \/ /\ held[q][t] \notin {NoFile, Corrupt}
          /\ held' = [held EXCEPT ![q][t] = Corrupt]
          /\ UNCHANGED root

\* The process is killed.  Memory is lost, the files stay as they are.
Crash ==
    /\ up
    /\ up' = FALSE
    /\ pc' = [a \in Actors |-> Idle]
    /\ task' = [a \in Actors |-> NoTask]
    /\ queue' = [a \in Actors |-> NoQueue]
    /\ rev' = [a \in Actors |-> 0]
    /\ UNCHANGED <<root, held, born, gone, writing>>

\* recover(), first half for one file: clear the lock where it lies.
RecoverWrite(q, t) ==
    /\ ~up
    /\ q \in Recovered
    /\ held[q][t] \notin {NoFile, Corrupt}
    /\ held[q][t].lock # NoLock
    /\ held' = [held EXCEPT ![q][t].lock = NoLock]
    /\ UNCHANGED <<root, clients, up, born, gone, writing>>

\* Mutant: everything starts over.
RecoverIntoInbox(q, t) ==
    /\ ~up
    /\ q \in Recovered
    /\ held[q][t] \notin {NoFile, Corrupt}
    /\ held[q][t].lock = NoLock
    /\ root' = [root EXCEPT ![Inbox][t] = held[q][t]]
    /\ held' = [held EXCEPT ![q][t] = NoFile]
    /\ UNCHANGED <<clients, up, born, gone, writing>>

\* recover(), second half: rename it back into its own queue.
RecoverRename(q, t) ==
    /\ ~up
    /\ q \in Recovered
    /\ held[q][t] \notin {NoFile, Corrupt}
    /\ held[q][t].lock = NoLock
    /\ root' = [root EXCEPT ![q][t] = held[q][t]]
    /\ held' = [held EXCEPT ![q][t] = NoFile]
    /\ UNCHANGED <<clients, up, born, gone, writing>>

\* recover() meets a stranded file that does not parse.
RecoverCorrupt(q, t) ==
    /\ ~up
    /\ q \in Guarded
    /\ held[q][t] = Corrupt
    /\ root' = [root EXCEPT ![Failed][t] = Corrupt]
    /\ held' = [held EXCEPT ![q][t] = NoFile]
    /\ UNCHANGED <<clients, up, born, gone, writing>>

\* Mutant: only the inbox and the step queues are recovered.
StartEarly ==
    /\ ~up
    /\ \A q \in Guarded, t \in Tasks : held[q][t] = NoFile
    /\ up' = TRUE
    /\ UNCHANGED <<root, held, clients, born, gone, writing>>

\* recover() has walked every queue it knows; only then do the loops run.
Start ==
    /\ ~up
    /\ \A q \in Recovered, t \in Tasks : held[q][t] \in {NoFile, Corrupt}
    /\ \A q \in Guarded, t \in Tasks : held[q][t] = NoFile
    /\ up' = TRUE
    /\ UNCHANGED <<root, held, clients, born, gone, writing>>

Client(a) ==
    \/ \E q \in Queues, t \in Tasks : List(a, q, t) \/ ListCorrupt(a, q, t)
    \/ Quarantine(a) \/ ClaimRename(a) \/ ClaimLost(a) \/ ClaimWrite(a)
    \/ TransferWrite(a) \/ Discard(a)
    \/ \E q \in Queues : TransferRename(a, q)

Restart ==
    \/ \E q \in Queues, t \in Tasks :
          RecoverWrite(q, t) \/ RecoverRename(q, t) \/ RecoverCorrupt(q, t)
    \/ Start

Next ==
    \/ \E t \in Tasks : Put(t) \/ SubmitOpen(t) \/ SubmitWrite(t) \/ SubmitDies(t)
    \/ \E a \in Actors : Client(a)
    \/ \E q \in Queues, t \in Tasks : Damage(q, t)
    \/ Crash
    \/ Restart

Spec == Init /\ [][Next]_vars
-----------------------------------------------------------------------------
TypeOK ==
    /\ root \in [Queues -> [Tasks -> Content \cup {NoFile, Corrupt}]]
    /\ held \in [Queues -> [Tasks -> Content \cup {NoFile, Corrupt}]]
    /\ pc \in [Actors -> {Idle, Listed, Renamed, Working, Written, Sweeping}]
    /\ task \in [Actors -> Tasks \cup {NoTask}]
    /\ queue \in [Actors -> Queues \cup {NoQueue}]
    /\ \A a \in Actors : pc[a] # Idle => task[a] \in Tasks /\ queue[a] \in Queues
    /\ rev \in [Actors -> Nat]
    /\ up \in BOOLEAN
    /\ born \in SUBSET Tasks
    /\ gone \in SUBSET Tasks
    /\ writing \in SUBSET Tasks

InRoot(t, q) == root[q][t] # NoFile
InHeld(t, q) == held[q][t] # NoFile

\* transfer() "must be atomic: the task must never exist in both queues at
\* once" (ports/queue.py): over all queue directories and all .processing/
\* directories a task has at most one file, whatever interleaves or crashes.
OneFile ==
    \A t \in Tasks : \A q1, q2 \in Queues :
        /\ InRoot(t, q1) /\ InRoot(t, q2) => q1 = q2
        /\ InHeld(t, q1) /\ InHeld(t, q2) => q1 = q2
        /\ ~(InRoot(t, q1) /\ InHeld(t, q2))

\* A task that was put and not deleted is always on disk somewhere: neither a
\* lost race nor a crash nor a recovery makes it vanish, and a deleted one
\* never comes back (ADR-0003: "a claimed task silently vanishing").
NothingLost ==
    \A t \in Tasks :
        (t \in born \ gone) <=> (\E q \in Queues : InRoot(t, q) \/ InHeld(t, q))

\* The two together: a task is one file, from put to delete.
OneFileEach == OneFile /\ NothingLost

\* The rename is the lease: two clients never work on the same task, and the
\* file a client works on is where it claimed it.
ExclusiveClaim ==
    /\ \A a, b \in Actors : Holding(a) /\ Holding(b) /\ task[a] = task[b] => a = b
    /\ \A a \in Actors : Holding(a) => held[queue[a]][task[a]] # NoFile

\* While the harness runs, every claimed file of a queue recover() walks has a
\* live client that will finish with it: nothing is stranded in .processing/.
NoneStranded ==
    up => \A q \in Recovered, t \in Tasks :
            held[q][t] \notin {NoFile, Corrupt} =>
                \E a \in Actors : Holding(a) /\ queue[a] = q /\ task[a] = t

\* A task that lies unclaimed in a queue carries no lock of a former claim,
\* crashed ones included (ports/queue.py: recover clears lockId).  A file of a
\* claim that died is swept by quarantine only unread, hence Corrupt.
UnclaimedIsUnlocked ==
    \A q \in Queues, t \in Tasks :
        root[q][t] \notin {NoFile, Corrupt} => root[q][t].lock = NoLock

-----------------------------------------------------------------------------
(* The port's contract, as the clients of the driver see it.               *)
CONSTANTS Nowhere, Unclaimed, Orphaned

ASSUME PortAssumption ==
    /\ Nowhere \notin Queues
    /\ Unclaimed # Orphaned
    /\ Unclaimed \notin Actors
    /\ Orphaned \notin Actors

\* The queue whose directory - or whose .processing/ - has the task's file.
HomeOf(t) ==
    IF \E q \in Queues : InRoot(t, q) \/ InHeld(t, q)
    THEN CHOOSE q \in Queues : InRoot(t, q) \/ InHeld(t, q)
    ELSE Nowhere

HolderOf(t) ==
    IF \E a \in Actors : Holding(a) /\ task[a] = t
    THEN CHOOSE a \in Actors : Holding(a) /\ task[a] = t
    ELSE IF \E q \in Queues : InHeld(t, q) THEN Orphaned ELSE Unclaimed

Port == INSTANCE TaskQueue WITH
            home <- [t \in Tasks |-> HomeOf(t)],
            holder <- [t \in Tasks |-> HolderOf(t)]

\* The directory of files implements the port: every file operation is one
\* of the port's operations or invisible to it.
ImplementsPort == Port!Spec
=============================================================================
