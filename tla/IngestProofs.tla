---------------------------- MODULE IngestProofs ----------------------------
(***************************************************************************)
(* Ingest's guarantees, for any set of issues and request threads and any  *)
(* bound on what people, crashes and failing calls do.                     *)
(***************************************************************************)
EXTENDS Ingest, TLAPS

(* A task that is neither deleted nor retired.                             *)
Live(n) == tasks[n].at \notin {Nowhere, "retired"}

(* While the harness runs, the poller knows the key of every live task a   *)
(* poll has put, whether from its own put or from the keys seeded at the   *)
(* start.                                                                  *)
SeenCovers ==
    loop # Down =>
        \A n \in DOMAIN tasks :
            tasks[n].by = "poll" /\ Live(n) => KeyOf(n) \in seen

(* Once a reflection has removed the other labels, nothing but its own     *)
(* call adds a state's label to the issue.                                 *)
Cleared ==
    loop.stage = "telling" =>
        (loop.cleared =>
           labels[tasks[loop.task].issue] \cap (Managed \ {Queued})
             \subseteq {loop.target})

(* The queues, written out.                                                *)
LEMMA PlacesAre ==
    Places = {"inbox", "step", "done", "failed", "retired", "nowhere"}
BY DEF Places, QueueOrder, Nowhere

(* The tasks there are keep their places in the sequence.                  *)
LEMMA TasksDomain ==
    ASSUME tasks \in Seq(Task)
    PROVE  DOMAIN tasks = 1 .. Len(tasks)
OBVIOUS

(* Noting which tasks lie still for a request changes nothing else of it.  *)
LEMMA Undisturbed ==
    ASSUME TypeOK, NEW n \in DOMAIN tasks, import' = Stirred(n),
           DOMAIN tasks' = DOMAIN tasks
    PROVE  import' \in [Threads -> ImportState']
<1>1. ImportState' = ImportState
  BY DEF ImportState
<1>2. ASSUME NEW a \in Threads, import[a] # NoImport
      PROVE  [import[a] EXCEPT !.still = @ \ {n}] \in ImportState
  <2>1. PICK r \in ImportState : r = import[a] /\ r # NoImport
    BY <1>2 DEF TypeOK
  <2>2. [r EXCEPT !.still = @ \ {n}] \in ImportState
    BY <2>1 DEF ImportState
  <2> QED
    BY <2>1, <2>2
<1>3. NoImport \in ImportState
  BY DEF ImportState
<1> QED
  BY <1>1, <1>2, <1>3 DEF Stirred

(* What moving a task changes: its place, and nothing of any other task.   *)
LEMMA Moved ==
    ASSUME TypeOK, NEW n \in DOMAIN tasks, NEW q \in Places, MoveTo(n, q)
    PROVE  /\ tasks' \in Seq(Task)
           /\ Len(tasks') = Len(tasks)
           /\ DOMAIN tasks' = DOMAIN tasks
           /\ \A m \in DOMAIN tasks :
                 /\ tasks'[m].issue = tasks[m].issue
                 /\ tasks'[m].by = tasks[m].by
                 /\ tasks'[m].at = IF m = n THEN q ELSE tasks[m].at
           /\ import' \in [Threads -> ImportState']
<1>1. \A m \in DOMAIN tasks : tasks[m] \in Task
  BY DEF TypeOK
<1>2. tasks' = [tasks EXCEPT ![n] = [tasks[n] EXCEPT !.at = q, !.held = FALSE]]
  BY DEF MoveTo
<1>3. [tasks[n] EXCEPT !.at = q, !.held = FALSE] \in Task
  BY <1>1 DEF Task
<1>4. /\ tasks' \in Seq(Task)
      /\ Len(tasks') = Len(tasks)
      /\ DOMAIN tasks' = DOMAIN tasks
  BY <1>2, <1>3 DEF TypeOK
<1>5. \A m \in DOMAIN tasks :
         /\ tasks'[m].issue = tasks[m].issue
         /\ tasks'[m].by = tasks[m].by
         /\ tasks'[m].at = IF m = n THEN q ELSE tasks[m].at
  BY <1>1, <1>2 DEF Task
<1>6. import' \in [Threads -> ImportState']
  BY <1>4, Undisturbed DEF MoveTo
<1> QED
  BY <1>4, <1>5, <1>6

(* What claiming a task changes: that it is held.                          *)
LEMMA Claimed ==
    ASSUME TypeOK, NEW n \in DOMAIN tasks, Hold(n)
    PROVE  /\ tasks' \in Seq(Task)
           /\ Len(tasks') = Len(tasks)
           /\ DOMAIN tasks' = DOMAIN tasks
           /\ \A m \in DOMAIN tasks :
                 /\ tasks'[m].issue = tasks[m].issue
                 /\ tasks'[m].by = tasks[m].by
                 /\ tasks'[m].at = tasks[m].at
           /\ import' \in [Threads -> ImportState']
<1>1. \A m \in DOMAIN tasks : tasks[m] \in Task
  BY DEF TypeOK
<1>2. tasks' = [tasks EXCEPT ![n] = [tasks[n] EXCEPT !.held = TRUE]]
  BY DEF Hold
<1>3. [tasks[n] EXCEPT !.held = TRUE] \in Task
  BY <1>1 DEF Task
<1>4. /\ tasks' \in Seq(Task)
      /\ Len(tasks') = Len(tasks)
      /\ DOMAIN tasks' = DOMAIN tasks
  BY <1>2, <1>3 DEF TypeOK
<1>5. \A m \in DOMAIN tasks :
         /\ tasks'[m].issue = tasks[m].issue
         /\ tasks'[m].by = tasks[m].by
         /\ tasks'[m].at = tasks[m].at
  BY <1>1, <1>2 DEF Task
<1>6. import' \in [Threads -> ImportState']
  BY <1>4, Undisturbed DEF Hold
<1> QED
  BY <1>4, <1>5, <1>6

(* What putting a task adds: one task at the end, in the inbox.            *)
LEMMA Added ==
    ASSUME TypeOK, NEW by \in {"poll", "import"}, NEW i \in Issues, Put(by, i)
    PROVE  /\ tasks' \in Seq(Task)
           /\ told' \in Seq(Managed \cup {None})
           /\ Len(told') = Len(tasks')
           /\ DOMAIN tasks' = DOMAIN tasks \cup {Len(tasks) + 1}
           /\ Len(tasks) + 1 \notin DOMAIN tasks
           /\ \A m \in DOMAIN tasks : tasks'[m] = tasks[m]
           /\ tasks'[Len(tasks) + 1].issue = i
           /\ tasks'[Len(tasks) + 1].by = by
<1> DEFINE new == [issue |-> i, by |-> by, at |-> "inbox", held |-> FALSE]
<1>1. new \in Task
  BY PlacesAre DEF Task
<1>2. tasks' = Append(tasks, new) /\ told' = Append(told, None)
  BY DEF Put
<1> HIDE DEF new
<1>3. /\ tasks' \in Seq(Task)
      /\ Len(tasks') = Len(tasks) + 1
      /\ DOMAIN tasks' = DOMAIN tasks \cup {Len(tasks) + 1}
      /\ Len(tasks) + 1 \notin DOMAIN tasks
      /\ \A m \in DOMAIN tasks : tasks'[m] = tasks[m]
      /\ tasks'[Len(tasks) + 1] = new
  BY <1>1, <1>2 DEF TypeOK
<1>4. told' \in Seq(Managed \cup {None}) /\ Len(told') = Len(told) + 1
  BY <1>2 DEF TypeOK
<1> QED
  BY <1>3, <1>4 DEF TypeOK, new

(* What the loop is in the middle of, by its stage.                        *)
LEMMA Stages ==
    ASSUME TypeOK
    PROVE  /\ loop.stage = "polling" =>
                loop \in [stage : {"polling"}, todo : SUBSET Issues,
                          half : Issues \cup {None}, batch : SUBSET Issues]
           /\ loop.stage = "putting" =>
                loop \in [stage : {"putting"}, batch : SUBSET Issues]
           /\ loop.stage = "telling" =>
                loop \in [stage : {"telling"}, task : DOMAIN tasks,
                          target : Managed, cleared : BOOLEAN]
BY DEF TypeOK, LoopState, Down, Free

(* A task is of an issue, in a place, and a reflection is of such a task.  *)
LEMMA TasksTyped ==
    ASSUME TypeOK
    PROVE  \A n \in DOMAIN tasks :
              /\ tasks[n] \in Task
              /\ tasks[n].issue \in Issues
              /\ tasks[n].by \in {"poll", "import"}
              /\ tasks[n].at \in Places
<1>1. \A n \in DOMAIN tasks : tasks[n] \in Task
  BY DEF TypeOK
<1> QED
  BY <1>1 DEF Task

LEMMA Reflected ==
    ASSUME TypeOK, loop.stage = "telling"
    PROVE  /\ loop.task \in DOMAIN tasks
           /\ loop.target \in Managed
           /\ tasks[loop.task].issue \in Issues
<1>1. loop \in [stage : {"telling"}, task : DOMAIN tasks,
                target : Managed, cleared : BOOLEAN]
  BY Stages
<1>2. loop.task \in DOMAIN tasks /\ loop.target \in Managed
  BY <1>1
<1> QED
  BY <1>2, TasksTyped

(* Telling of a task there is keeps the record of what was told.           *)
LEMMA Told ==
    ASSUME TypeOK, NEW n \in DOMAIN tasks,
           TellNothing \/ \E l \in Managed : Tell(n, l)
    PROVE  told' \in Seq(Managed \cup {None}) /\ Len(told') = Len(told)
<1>1. DOMAIN told = DOMAIN tasks
  BY DEF TypeOK
<1>2. CASE TellNothing
  BY <1>2 DEF TellNothing, TypeOK
<1>3. ASSUME NEW l \in Managed, Tell(n, l)
      PROVE  told' \in Seq(Managed \cup {None}) /\ Len(told') = Len(told)
  BY <1>1, <1>3 DEF Tell, TypeOK
<1> QED
  BY <1>2, <1>3

(* A request under way has an issue, and can be taken a stage further.     *)
LEMMA Requests ==
    ASSUME TypeOK, NEW a \in Threads, import[a].stage # "none"
    PROVE  /\ import[a].issue \in Issues
           /\ import[a].stage = "looking" =>
                import[a] \in
                  [stage : {"looking"}, issue : Issues,
                   looked : 0 .. Len(QueueOrder) - 1,
                   known : SUBSET DOMAIN tasks, still : SUBSET DOMAIN tasks]
           /\ import[a].stage \in {"labelling", "putting"} =>
                import[a] \in
                  [stage : {"labelling", "putting"}, issue : Issues,
                   looked : {Len(QueueOrder)},
                   known : SUBSET DOMAIN tasks, still : SUBSET DOMAIN tasks]
BY DEF TypeOK, ImportState, NoImport

(* The loop may come to rest, and start a reflection, of any task there is. *)
LEMMA LoopStates ==
    /\ Free \in LoopState
    /\ Down \in LoopState
    /\ \A todo, batch \in SUBSET Issues, half \in Issues \cup {None} :
          Polling(todo, half, batch) \in LoopState
    /\ \A batch \in SUBSET Issues : Putting(batch) \in LoopState
    /\ \A n \in DOMAIN tasks, l \in Managed, c \in BOOLEAN :
          Telling(n, l, c) \in LoopState
BY DEF LoopState, Polling, Putting, Telling

(* Every label the harness sets is one of its labels.                      *)
LEMMA LabelsTyped ==
    ASSUME TypeOK, NEW i \in Issues, NEW L \in SUBSET Labels,
           labels' = [labels EXCEPT ![i] = L]
    PROVE  /\ labels' \in [Issues -> SUBSET Labels]
           /\ labels'[i] = L
           /\ \A j \in Issues : j # i => labels'[j] = labels[j]
BY DEF TypeOK

-----------------------------------------------------------------------------
(* Type correctness.                                                       *)

(* A step that leaves the tasks alone and gives the other variables values *)
(* of their types keeps TypeOK.                                            *)
LEMMA TypeKept ==
    ASSUME TypeOK, UNCHANGED <<tasks, told>>,
           labels' \in [Issues -> SUBSET Labels],
           listing' \subseteq Issues, claimed' \subseteq Issues,
           seen' \subseteq {PollKind, "github"} \X Issues,
           loop' \in LoopState, import' \in [Threads -> ImportState],
           {wants', requests', imports', crashes', errors'} \subseteq Nat
    PROVE  TypeOK'
<1>1. LoopState' = LoopState /\ ImportState' = ImportState
  BY DEF LoopState, ImportState
<1> QED
  BY <1>1 DEF TypeOK

(* The same for a step of the loop that also moves a task.                 *)
LEMMA TypeMoved ==
    ASSUME TypeOK, NEW n \in DOMAIN tasks, NEW q \in Places, MoveTo(n, q),
           UNCHANGED <<labels, listing, claimed, seen>>,
           told' \in Seq(Managed \cup {None}), Len(told') = Len(told),
           loop' \in LoopState,
           {wants', requests', imports', crashes', errors'} \subseteq Nat
    PROVE  TypeOK'
<1>1. /\ tasks' \in Seq(Task) /\ Len(tasks') = Len(tasks)
      /\ DOMAIN tasks' = DOMAIN tasks
      /\ import' \in [Threads -> ImportState']
  BY Moved
<1>2. LoopState' = LoopState
  BY <1>1 DEF LoopState
<1> QED
  BY <1>1, <1>2 DEF TypeOK

LEMMA TypeStep == TypeOK /\ [Next]_vars => TypeOK'
<1> SUFFICES ASSUME TypeOK, [Next]_vars PROVE TypeOK'
  OBVIOUS
<1> USE DEF counters
<1>1. CASE UNCHANGED vars
  BY <1>1, TypeKept DEF vars, TypeOK
<1>2. ASSUME NEW i \in Issues, Want(i) PROVE TypeOK'
  <2>1. labels[i] \cup {Todo} \in SUBSET Labels
    BY DEF TypeOK, Labels
  <2>2. labels' \in [Issues -> SUBSET Labels]
    BY <1>2, <2>1, LabelsTyped DEF Want, AddLabel
  <2> QED
    BY <1>2, <2>2, TypeKept DEF Want, TypeOK
<1>3. ASSUME NEW i \in Issues, IndexCatchesUp(i) PROVE TypeOK'
  BY <1>3, TypeKept DEF IndexCatchesUp, TypeOK
<1>4. CASE PollList
  <2>1. loop' \in LoopState
    BY <1>4, LoopStates DEF PollList, TypeOK
  <2> QED
    BY <1>4, <2>1, TypeKept DEF PollList, TypeOK
<1>5. ASSUME NEW i \in Issues, PollRemove(i) PROVE TypeOK'
  <2>1. labels' \in [Issues -> SUBSET Labels]
    BY <1>5, LabelsTyped DEF PollRemove, RemoveLabel, TypeOK
  <2>2. loop' \in LoopState
    BY <1>5, Stages DEF PollRemove, PollClaims, LoopState
  <2> QED
    BY <1>5, <2>1, <2>2, TypeKept DEF PollRemove, PollClaims, TypeOK
<1>6. CASE PollAdd
  <2>1. loop.half \in Issues /\ loop.todo \subseteq Issues
        /\ loop.batch \subseteq Issues
    BY <1>6, Stages DEF PollAdd
  <2>2. labels[loop.half] \cup {Queued} \in SUBSET Labels
    BY <2>1 DEF TypeOK, Labels, Managed
  <2>3. labels' \in [Issues -> SUBSET Labels]
    BY <1>6, <2>1, <2>2, LabelsTyped DEF PollAdd, AddLabel
  <2>4. loop' \in LoopState
    BY <1>6, <2>1, LoopStates DEF PollAdd
  <2> QED
    BY <1>6, <2>3, <2>4, TypeKept DEF PollAdd, TypeOK
<1>7. CASE PollRaises
  <2>1. loop.half \in Issues \cup {None}
        => labels' \in [Issues -> SUBSET Labels]
    BY <1>7 DEF PollRaises, CallRaises, TypeOK, Labels, Managed
  <2>2. loop.stage = "polling" /\ loop.half \in Issues \cup {None}
    BY <1>7, Stages DEF PollRaises, PollClaims
  <2>3. claimed' \subseteq Issues /\ errors' \in Nat
    BY <1>7 DEF PollRaises, PollClaims, CallRaises, TypeOK
  <2>4. loop' \in LoopState
    BY <1>7, LoopStates DEF PollRaises
  <2> QED
    BY <1>7, <2>1, <2>2, <2>3, <2>4, TypeKept DEF PollRaises, TypeOK
<1>8. ASSUME NEW i \in Issues, PollPut(i) PROVE TypeOK'
  <2>1. loop.batch \subseteq Issues
    BY <1>8, Stages DEF PollPut
  <2>2. AfterPut(i) \in {Free} \cup {Putting(b) : b \in SUBSET Issues}
    BY <2>1 DEF AfterPut
  <2>3. loop' \in LoopState'
    BY <1>8, <2>2 DEF PollPut, LoopState, Putting
  <2>4. Put("poll", i)
    BY <1>8 DEF PollPut
  <2>5. ImportState \subseteq ImportState'
    BY <2>4, Added DEF ImportState
  <2>6. seen' \subseteq {PollKind, "github"} \X Issues
    BY <1>8 DEF PollPut, Key, TypeOK
  <2> QED
    BY <1>8, <2>3, <2>4, <2>5, <2>6, Added DEF PollPut, TypeOK
<1>9. ASSUME NEW i \in Issues, PollDrop(i) PROVE TypeOK'
  <2>1. loop.batch \subseteq Issues
    BY <1>9, Stages DEF PollDrop
  <2>2. loop' \in LoopState
    BY <1>9, <2>1, LoopStates DEF PollDrop, AfterPut
  <2> QED
    BY <1>9, <2>2, TypeKept DEF PollDrop, TypeOK
<1>10. CASE TellRemove
  <2>1. /\ loop.task \in DOMAIN tasks
        /\ tasks[loop.task].issue \in Issues
    BY <1>10, Reflected DEF TellRemove, ClearLabels
  <2>2. labels' \in [Issues -> SUBSET Labels]
    BY <1>10, <2>1, LabelsTyped DEF TellRemove, ClearLabels, TypeOK
  <2>3. loop' \in LoopState
    BY <1>10, Stages DEF TellRemove, ClearLabels, LoopState
  <2> QED
    BY <1>10, <2>2, <2>3, TypeKept DEF TellRemove, ClearLabels, TypeOK
<1>11. CASE TellAdd
  <2>1. /\ loop.task \in DOMAIN tasks /\ loop.target \in Managed
        /\ tasks[loop.task].issue \in Issues
    BY <1>11, Reflected DEF TellAdd
  <2>2. labels[tasks[loop.task].issue] \cup {loop.target} \in SUBSET Labels
    BY <2>1 DEF TypeOK, Labels
  <2>3. labels' \in [Issues -> SUBSET Labels]
    BY <1>11, <2>1, <2>2, LabelsTyped DEF TellAdd, AddLabel
  <2>4. loop' \in LoopState
    BY <1>11, LoopStates DEF TellAdd
  <2> QED
    BY <1>11, <2>3, <2>4, TypeKept DEF TellAdd, TypeOK
<1>12. CASE TellRaises
  <2>1. /\ loop.task \in DOMAIN tasks /\ loop.target \in Managed
        /\ tasks[loop.task].issue \in Issues
    BY <1>12, Reflected DEF TellRaises
  <2>2. labels' \in [Issues -> SUBSET Labels]
    BY <1>12, <2>1 DEF TellRaises, CallRaises, TypeOK, Labels
  <2>3. errors' \in Nat
    BY <1>12 DEF TellRaises, CallRaises, TypeOK
  <2>4. loop' \in LoopState
    BY <1>12, LoopStates DEF TellRaises
  <2> QED
    BY <1>12, <2>2, <2>3, <2>4, TypeKept DEF TellRaises, TypeOK
<1>13. ASSUME NEW n \in DOMAIN tasks, Dispatch(n) PROVE TypeOK'
  <2>1. ASSUME NEW q \in Places, MoveTo(n, q),
               \/ TellNothing
               \/ \E l \in Managed : Tell(n, l)
        PROVE  TypeOK'
    <3>1. loop' \in LoopState
      BY <2>1, LoopStates DEF Tell, TellNothing
    <3>2. told' \in Seq(Managed \cup {None}) /\ Len(told') = Len(told)
      BY <2>1, Told
    <3> QED
      BY <1>13, <2>1, <3>1, <3>2, TypeMoved DEF Dispatch, TypeOK
  <2> QED
    BY <1>13, <2>1, PlacesAre DEF Dispatch, Managed
<1>14. ASSUME NEW n \in DOMAIN tasks, Retire(n) PROVE TypeOK'
  <2>1. loop' \in LoopState /\ UNCHANGED told
    BY <1>14, LoopStates DEF Retire, TellNothing
  <2>2. "retired" \in Places
    BY PlacesAre
  <2> QED
    BY <1>14, <2>1, <2>2, TypeMoved DEF Retire, TypeOK
<1>15. ASSUME NEW n \in DOMAIN tasks, Heal(n) PROVE TypeOK'
  <2>1. loop' \in LoopState /\ UNCHANGED told
    BY <1>15, LoopStates DEF Heal, TellNothing
  <2>2. "done" \in Places
    BY PlacesAre
  <2> QED
    BY <1>15, <2>1, <2>2, TypeMoved DEF Heal, TypeOK
<1>16. ASSUME NEW n \in DOMAIN tasks, Consume(n) PROVE TypeOK'
  <2>1. LoopState' = LoopState
    BY <1>16, Claimed DEF Consume, LoopState
  <2> QED
    BY <1>16, <2>1, Claimed DEF Consume, TypeOK
<1>17. ASSUME NEW n \in DOMAIN tasks, BehaviorReturns(n) PROVE TypeOK'
  <2>1. ASSUME NEW q \in Places, MoveTo(n, q),
               TellNothing \/ Tell(n, FailedLabel)
        PROVE  TypeOK'
    <3>1. loop' \in LoopState
      BY <2>1, LoopStates DEF Tell, TellNothing, Managed
    <3>2. told' \in Seq(Managed \cup {None}) /\ Len(told') = Len(told)
      BY <2>1, Told DEF Managed
    <3> QED
      BY <1>17, <2>1, <3>1, <3>2, TypeMoved DEF BehaviorReturns, TypeOK
  <2> QED
    BY <1>17, <2>1, PlacesAre DEF BehaviorReturns
<1>18. ASSUME NEW n \in DOMAIN tasks, SendBack(n) PROVE TypeOK'
  <2>1. "inbox" \in Places
    BY PlacesAre
  <2> QED
    BY <1>18, <2>1, TypeMoved DEF SendBack, Operator, TypeOK
<1>19. ASSUME NEW n \in DOMAIN tasks, Delete(n) PROVE TypeOK'
  <2>1. Nowhere \in Places
    BY DEF Places
  <2> QED
    BY <1>19, <2>1, TypeMoved DEF Delete, Operator, TypeOK
<1>20. ASSUME NEW a \in Threads, NEW i \in Issues, ImportOpen(a, i)
       PROVE  TypeOK'
  <2>1. import' \in [Threads -> ImportState]
    <3>1. /\ {n \in TasksFor(i) : Matches(n, i) /\ tasks[n].at # Nowhere}
                 \subseteq DOMAIN tasks
          /\ {n \in TasksFor(i) : Matches(n, i) /\ Visible(n)}
                 \subseteq DOMAIN tasks
      BY DEF TasksFor
    <3>2. 0 \in 0 .. Len(QueueOrder) - 1
      BY DEF QueueOrder
    <3> QED
      <4> DEFINE known == {n \in TasksFor(i) : Matches(n, i) /\ tasks[n].at # Nowhere}
                 still == {n \in TasksFor(i) : Matches(n, i) /\ Visible(n)}
      <4>1. Import("looking", i, 0, known, still) \in ImportState
        BY <3>1, <3>2 DEF Import, ImportState
      <4>2. import' = [import EXCEPT ![a] = Import("looking", i, 0, known, still)]
        BY <1>20 DEF ImportOpen
      <4> HIDE DEF known, still
      <4> QED
        BY <4>1, <4>2 DEF TypeOK
  <2> QED
    BY <1>20, <2>1, TypeKept DEF ImportOpen, TypeOK
<1>21. ASSUME NEW a \in Threads, ImportLook(a) PROVE TypeOK'
  <2> DEFINE n == import[a].looked + 1
  <2>1. import[a].looked \in 0 .. 4 /\ Len(QueueOrder) = 5
    BY <1>21, Requests DEF ImportLook, QueueOrder
  <2>2. import[a].stage = "looking"
    BY <1>21 DEF ImportLook
  <2>3. CASE import' = [import EXCEPT ![a] = NoImport]
    <3>1. import' \in [Threads -> ImportState]
      BY <2>3 DEF TypeOK, ImportState
    <3> QED
      BY <1>21, <3>1, TypeKept DEF ImportLook, TypeOK
  <2>4. ASSUME NEW st \in {"labelling", "looking"},
               st = IF n = 5 THEN "labelling" ELSE "looking",
               import' = [import EXCEPT ![a] =
                             [@ EXCEPT !.looked = n, !.stage = st]]
        PROVE  TypeOK'
    <3>1. [import[a] EXCEPT !.looked = n, !.stage = st] \in ImportState
      <4>1. import[a] \in
               [stage : {"looking"}, issue : Issues,
                looked : 0 .. Len(QueueOrder) - 1,
                known : SUBSET DOMAIN tasks, still : SUBSET DOMAIN tasks]
        BY <2>2, Requests
      <4>2. CASE n = 5
        BY <2>1, <2>4, <4>1, <4>2 DEF ImportState
      <4>3. CASE n # 5
        <5>1. n \in 0 .. Len(QueueOrder) - 1 /\ st = "looking"
          BY <2>1, <2>4, <4>3
        <5> HIDE DEF n
        <5>2. [import[a] EXCEPT !.looked = n, !.stage = st] \in
                 [stage : {"looking"}, issue : Issues,
                  looked : 0 .. Len(QueueOrder) - 1,
                  known : SUBSET DOMAIN tasks, still : SUBSET DOMAIN tasks]
          BY <4>1, <5>1
        <5> QED
          BY <5>2 DEF ImportState
      <4> QED
        BY <4>2, <4>3
    <3>2. import' \in [Threads -> ImportState]
      BY <2>4, <3>1 DEF TypeOK
    <3> QED
      BY <1>21, <3>2, TypeKept DEF ImportLook, TypeOK
  <2> QED
    BY <1>21, <2>1, <2>3, <2>4 DEF ImportLook
<1>22. ASSUME NEW a \in Threads, ImportLabel(a) PROVE TypeOK'
  <2>1. import[a].issue \in Issues
    BY <1>22, Requests DEF ImportLabel
  <2>2. labels' \in [Issues -> SUBSET Labels] /\ errors' \in Nat
    BY <1>22, <2>1 DEF ImportLabel, AddLabel, CallRaises, TypeOK, Labels, Managed
  <2>3. import' \in [Threads -> ImportState]
    <3>1. [import[a] EXCEPT !.stage = "putting"] \in ImportState
      BY <1>22, Requests DEF ImportLabel, ImportState
    <3> QED
      BY <1>22, <3>1 DEF ImportLabel, TypeOK
  <2> QED
    BY <1>22, <2>2, <2>3, TypeKept DEF ImportLabel, TypeOK
<1>23. ASSUME NEW a \in Threads, ImportPut(a) PROVE TypeOK'
  <2>1. import[a].issue \in Issues
    BY <1>23, Requests DEF ImportPut
  <2>2. Put("import", import[a].issue)
    BY <1>23 DEF ImportPut
  <2>3. ImportState \subseteq ImportState' /\ LoopState \subseteq LoopState'
    BY <2>1, <2>2, Added DEF ImportState, LoopState
  <2>4. import' \in [Threads -> ImportState']
    BY <1>23, <2>3 DEF ImportPut, TypeOK, ImportState
  <2> QED
    BY <1>23, <2>1, <2>2, <2>3, <2>4, Added DEF ImportPut, TypeOK
<1>24. CASE Crash
  <2>1. import' \in [Threads -> ImportState] /\ loop' \in LoopState
    BY <1>24, LoopStates DEF Crash, ImportState
  <2> QED
    BY <1>24, <2>1, TypeKept DEF Crash, TypeOK
<1>25. CASE Start
  <2>1. /\ tasks' \in Seq(Task) /\ Len(tasks') = Len(tasks)
        /\ DOMAIN tasks' = DOMAIN tasks
    <3>1. tasks' = [n \in DOMAIN tasks |-> [tasks[n] EXCEPT !.held = FALSE]]
      BY <1>25 DEF Start, Recovered
    <3>2. \A n \in DOMAIN tasks : [tasks[n] EXCEPT !.held = FALSE] \in Task
      BY TasksTyped DEF Task
    <3>3. DOMAIN tasks = 1 .. Len(tasks) /\ Len(tasks) \in Nat
      BY DEF TypeOK
    <3> QED
      BY <3>1, <3>2, <3>3
  <2>2. seen' \subseteq {PollKind, "github"} \X Issues
    BY <1>25, TasksTyped DEF Start, KeyOf, Key
  <2>3. LoopState' = LoopState /\ ImportState' = ImportState
    BY <2>1 DEF LoopState, ImportState
  <2> QED
    BY <1>25, <2>1, <2>2, <2>3, LoopStates DEF Start, TypeOK
<1> QED
  BY <1>1, <1>2, <1>3, <1>4, <1>5, <1>6, <1>7, <1>8, <1>9, <1>10, <1>11,
     <1>12, <1>13, <1>14, <1>15, <1>16, <1>17, <1>18, <1>19, <1>20, <1>21,
     <1>22, <1>23, <1>24, <1>25
  DEF Next, LoopStep, PollStep, TellStep, ImportStep

-----------------------------------------------------------------------------
(* One task per issue: the keys the poller knows cover what polls have put. *)

LEMMA KeysKept ==
    ASSUME SeenCovers, PolledOnce, tasks' = tasks, seen \subseteq seen',
           loop # Down \/ loop' = Down
    PROVE  (SeenCovers /\ PolledOnce)'
BY DEF SeenCovers, PolledOnce, Live, KeyOf

LEMMA KeysMoved ==
    ASSUME TypeOK, SeenCovers, PolledOnce, loop # Down, seen' = seen,
           DOMAIN tasks' = DOMAIN tasks,
           \A m \in DOMAIN tasks :
              /\ tasks'[m].issue = tasks[m].issue
              /\ tasks'[m].by = tasks[m].by
              /\ tasks'[m].at \notin {Nowhere, "retired"}
                   => tasks[m].at \notin {Nowhere, "retired"}
    PROVE  (SeenCovers /\ PolledOnce)'
BY DEF SeenCovers, PolledOnce, Live, KeyOf

LEMMA KeysStep ==
    TypeOK /\ SeenCovers /\ PolledOnce /\ [Next]_vars
        => (SeenCovers /\ PolledOnce)'
<1> SUFFICES ASSUME TypeOK, SeenCovers, PolledOnce, [Next]_vars
             PROVE  (SeenCovers /\ PolledOnce)'
  OBVIOUS
<1> USE DEF counters
<1>1. CASE UNCHANGED vars
  BY <1>1, KeysKept DEF vars
<1>2. ASSUME NEW i \in Issues, Want(i) \/ IndexCatchesUp(i)
      PROVE  (SeenCovers /\ PolledOnce)'
  <2>1. tasks' = tasks /\ seen' = seen /\ loop' = loop
    BY <1>2 DEF Want, IndexCatchesUp
  <2>2. loop # Down \/ loop' = Down
    BY <2>1
  <2> QED
    BY <2>1, <2>2, KeysKept
<1>3. CASE PollList \/ PollAdd \/ PollRaises \/ TellStep
  <2>0. loop = Free \/ loop.stage \in {"polling", "telling"}
    BY <1>3 DEF PollList, PollAdd, PollRaises, PollClaims, TellStep,
       TellRemove, ClearLabels, TellAdd, TellRaises
  <2>1. loop # Down
    BY <2>0 DEF Free, Down
  <2> QED
    BY <1>3, <2>1, KeysKept DEF PollList, PollAdd, PollRaises, TellStep,
       TellRemove, ClearLabels, TellAdd, TellRaises
<1>4. ASSUME NEW i \in Issues, PollRemove(i) \/ PollDrop(i)
      PROVE  (SeenCovers /\ PolledOnce)'
  BY <1>4, KeysKept DEF PollRemove, PollClaims, PollDrop, Down
<1>5. ASSUME NEW i \in Issues, PollPut(i)
      PROVE  (SeenCovers /\ PolledOnce)'
  <2>0. Put("poll", i)
    BY <1>5 DEF PollPut
  <2>1. PICK new :
        /\ DOMAIN tasks' = DOMAIN tasks \cup {new}
        /\ new \notin DOMAIN tasks
        /\ \A m \in DOMAIN tasks : tasks'[m] = tasks[m]
        /\ tasks'[new].issue = i
        /\ tasks'[new].by = "poll"
    BY <2>0, Added
  <2>2. /\ Key("poll", i) \notin seen
        /\ seen' = seen \cup {Key("poll", i)}
        /\ loop # Down
    BY <1>5 DEF PollPut, Down
  <2>3. \A m \in DOMAIN tasks :
          tasks[m].by = "poll" /\ Live(m) => tasks[m].issue # i
    BY <2>2 DEF SeenCovers, KeyOf
  <2>4. SeenCovers'
    BY <2>1, <2>2 DEF SeenCovers, Live, KeyOf
  <2>5. PolledOnce'
    BY <2>1, <2>3 DEF PolledOnce, Live
  <2> QED
    BY <2>4, <2>5
<1>6. ASSUME NEW n \in DOMAIN tasks,
             \/ Dispatch(n) \/ Heal(n) \/ Retire(n) \/ Consume(n)
             \/ BehaviorReturns(n) \/ SendBack(n) \/ Delete(n)
      PROVE  (SeenCovers /\ PolledOnce)'
  <2>1. loop # Down /\ seen' = seen /\ Live(n)
    BY <1>6 DEF Dispatch, Heal, Retire, Consume, BehaviorReturns, SendBack, Delete,
       Operator, Free, Down, Lies, Live, Nowhere, Seeding
  <2>2. CASE Consume(n)
    BY <2>1, <2>2, Claimed, KeysMoved DEF Consume
  <2>3. ASSUME NEW q \in Places, MoveTo(n, q)
        PROVE  (SeenCovers /\ PolledOnce)'
    BY <2>1, <2>3, Moved, KeysMoved DEF Live
  <2> QED
    BY <1>6, <2>2, <2>3, PlacesAre DEF Dispatch, Heal, Retire, BehaviorReturns,
       SendBack, Delete, Nowhere
<1>7. ASSUME NEW a \in Threads, ImportLook(a) \/ ImportLabel(a)
      PROVE  (SeenCovers /\ PolledOnce)'
  <2>1. tasks' = tasks /\ seen' = seen /\ loop' = loop
    BY <1>7 DEF ImportLook, ImportLabel
  <2>2. loop # Down \/ loop' = Down
    BY <2>1
  <2> QED
    BY <2>1, <2>2, KeysKept
<1>8. ASSUME NEW a \in Threads, NEW i \in Issues, ImportOpen(a, i)
      PROVE  (SeenCovers /\ PolledOnce)'
  BY <1>8, KeysKept DEF ImportOpen
<1>9. ASSUME NEW a \in Threads, ImportPut(a)
      PROVE  (SeenCovers /\ PolledOnce)'
  <2>1. import[a].issue \in Issues
    BY <1>9, Requests DEF ImportPut
  <2>0. Put("import", import[a].issue)
    BY <1>9 DEF ImportPut
  <2>2. PICK new :
        /\ DOMAIN tasks' = DOMAIN tasks \cup {new}
        /\ \A m \in DOMAIN tasks : tasks'[m] = tasks[m]
        /\ tasks'[new].by = "import"
    BY <2>0, <2>1, Added
  <2>3. seen' = seen /\ loop' = loop
    BY <1>9 DEF ImportPut
  <2> QED
    BY <2>2, <2>3 DEF SeenCovers, PolledOnce, Live, KeyOf
<1>10. CASE Crash
  BY <1>10 DEF Crash, SeenCovers, PolledOnce
<1>11. CASE Start
  <2>1. /\ DOMAIN tasks' = DOMAIN tasks
        /\ \A m \in DOMAIN tasks :
              /\ tasks'[m].issue = tasks[m].issue
              /\ tasks'[m].by = tasks[m].by
              /\ tasks'[m].at = tasks[m].at
              /\ tasks'[m].at = Recovered[m].at
    BY <1>11, TasksTyped DEF Start, Recovered, Task
  <2>2. \A m \in DOMAIN tasks : Live(m) => Recovered[m].at \in Seeding
    BY <1>11, <2>1, TasksTyped, PlacesAre DEF Live, Seeding, Nowhere
  <2>3. SeenCovers'
    BY <1>11, <2>1, <2>2 DEF Start, SeenCovers, Live, KeyOf
  <2>4. PolledOnce'
    BY <2>1 DEF PolledOnce
  <2> QED
    BY <2>3, <2>4
<1> QED
  BY <1>1, <1>2, <1>3, <1>4, <1>5, <1>6, <1>7, <1>8, <1>9, <1>10, <1>11
  DEF Next, LoopStep, PollStep, ImportStep

-----------------------------------------------------------------------------
(* One label per state: a reflection adds its own only where it has         *)
(* removed the others.                                                     *)

(* No state's label appears, and no reflection goes on to its last call.   *)
LEMMA LabelsKept ==
    ASSUME TypeOK, OneStateLabel, Cleared,
           \A i \in Issues :
              labels'[i] \cap (Managed \ {Queued}) \subseteq labels[i],
           DOMAIN tasks \subseteq DOMAIN tasks',
           \A m \in DOMAIN tasks : tasks'[m].issue = tasks[m].issue,
           \/ loop' = loop
           \/ loop'.stage # "telling"
           \/ ~loop'.cleared
    PROVE  (OneStateLabel /\ Cleared)'
<1>1. OneStateLabel'
  BY DEF OneStateLabel
<1>2. CASE loop' = loop
  <2>1. SUFFICES ASSUME loop.stage = "telling", loop.cleared
                 PROVE  labels'[tasks'[loop.task].issue] \cap (Managed \ {Queued})
                          \subseteq {loop.target}
    BY <1>1, <1>2 DEF Cleared
  <2>2. /\ loop.task \in DOMAIN tasks
        /\ tasks'[loop.task].issue = tasks[loop.task].issue
        /\ tasks[loop.task].issue \in Issues
    BY <2>1, Reflected
  <2> QED
    BY <2>1, <2>2 DEF Cleared
<1>3. CASE loop'.stage # "telling" \/ ~loop'.cleared
  BY <1>1, <1>3 DEF Cleared
<1> QED
  BY <1>1, <1>2, <1>3 DEF Cleared

(* The loop's last call of a reflection, carried out or not.               *)
LEMMA LabelsTold ==
    ASSUME TypeOK, OneStateLabel, Cleared,
           loop.stage = "telling", loop.cleared, loop' = Free,
           \/ labels' = labels
           \/ labels' = [labels EXCEPT ![tasks[loop.task].issue] =
                            labels[tasks[loop.task].issue] \cup {loop.target}]
    PROVE  (OneStateLabel /\ Cleared)'
<1> DEFINE i == tasks[loop.task].issue
<1>1. i \in Issues /\ loop.target \in Managed
  BY Reflected
<1>2. labels[i] \cap (Managed \ {Queued}) \subseteq {loop.target}
  BY DEF Cleared
<1> HIDE DEF i
<1>3. /\ \A j \in Issues \ {i} : labels'[j] = labels[j]
      /\ labels'[i] \subseteq labels[i] \cup {loop.target}
  BY <1>1 DEF TypeOK, i
<1>4. OneStateLabel'
  <2>1. labels'[i] \cap (Managed \ {Queued}) \subseteq {loop.target}
    BY <1>2, <1>3
  <2>2. SUFFICES ASSUME NEW j \in Issues,
                        NEW l \in labels'[j] \cap (Managed \ {Queued}),
                        NEW m \in labels'[j] \cap (Managed \ {Queued})
                 PROVE  l = m
    BY DEF OneStateLabel, Managed
  <2> QED
    BY <1>3, <2>1 DEF OneStateLabel
<1>5. Cleared'
  BY DEF Cleared, Free
<1> QED
  BY <1>4, <1>5

LEMMA LabelsStep ==
    TypeOK /\ OneStateLabel /\ Cleared /\ [Next]_vars
        => (OneStateLabel /\ Cleared)'
<1> SUFFICES ASSUME TypeOK, OneStateLabel, Cleared, [Next]_vars
             PROVE  (OneStateLabel /\ Cleared)'
  OBVIOUS
<1> USE DEF counters
<1>1. CASE UNCHANGED vars
  BY <1>1, LabelsKept DEF vars
<1>2. ASSUME NEW i \in Issues, Want(i)
      PROVE  (OneStateLabel /\ Cleared)'
  <2>1. Todo \notin Managed
    BY IngestAssumption DEF Managed, Todo, Queued, PrOpen, FailedLabel
  <2>2. \A j \in Issues :
          labels'[j] \cap (Managed \ {Queued}) \subseteq labels[j]
    BY <1>2, <2>1 DEF Want, AddLabel, TypeOK
  <2> QED
    BY <1>2, <2>2, LabelsKept DEF Want
<1>3. ASSUME \/ PollList
             \/ \E i \in Issues : IndexCatchesUp(i) \/ PollDrop(i)
      PROVE  (OneStateLabel /\ Cleared)'
  <2>1. UNCHANGED <<labels, tasks>>
    BY <1>3 DEF IndexCatchesUp, PollList, PollDrop
  <2>2. loop' = loop \/ loop'.stage # "telling"
    BY <1>3 DEF IndexCatchesUp, PollList, PollDrop, AfterPut, Polling,
       Putting, Free
  <2> QED
    BY <2>1, <2>2, LabelsKept
<1>4. ASSUME NEW i \in Issues, PollRemove(i)
      PROVE  (OneStateLabel /\ Cleared)'
  <2>1. loop'.stage # "telling"
    BY <1>4, Stages DEF PollRemove, PollClaims
  <2>2. \A j \in Issues : labels'[j] \subseteq labels[j]
    BY <1>4 DEF PollRemove, RemoveLabel, TypeOK
  <2>3. tasks' = tasks
    BY <1>4 DEF PollRemove
  <2> QED
    BY <2>1, <2>2, <2>3, LabelsKept
<1>5. CASE PollAdd \/ PollRaises
  <2>1. loop'.stage # "telling" /\ tasks' = tasks
    BY <1>5 DEF PollAdd, PollRaises, Polling, Putting, Free
  <2>2. \A j \in Issues : labels'[j] \subseteq labels[j] \cup {Queued}
    BY <1>5 DEF PollAdd, PollRaises, PollClaims, AddLabel, CallRaises, TypeOK
  <2> QED
    BY <2>1, <2>2, LabelsKept
<1>6. ASSUME NEW i \in Issues, PollPut(i)
      PROVE  (OneStateLabel /\ Cleared)'
  <2>1. Put("poll", i) /\ labels' = labels
    BY <1>6 DEF PollPut
  <2>2. loop'.stage # "telling"
    BY <1>6 DEF PollPut, AfterPut, Putting, Free
  <2>3. /\ DOMAIN tasks \subseteq DOMAIN tasks'
        /\ \A m \in DOMAIN tasks : tasks'[m] = tasks[m]
    BY <2>1, Added
  <2> QED
    BY <2>1, <2>2, <2>3, LabelsKept
<1>7. CASE TellRemove
  <2> DEFINE i == tasks[loop.task].issue
  <2>1. i \in Issues /\ loop.target \in Managed
    BY <1>7, Reflected DEF TellRemove, ClearLabels
  <2>2. labels' = [labels EXCEPT ![i] = @ \ (Managed \ {loop.target})]
    BY <1>7 DEF TellRemove, ClearLabels
  <2>3. /\ tasks' = tasks
        /\ loop'.task = loop.task /\ loop'.target = loop.target
    BY <1>7, Stages DEF TellRemove, ClearLabels
  <2> HIDE DEF i
  <2>4. /\ \A j \in Issues : labels'[j] \subseteq labels[j]
        /\ labels'[i] \cap Managed \subseteq {loop.target}
    BY <2>1, <2>2 DEF TypeOK
  <2>5. OneStateLabel'
    BY <2>4 DEF OneStateLabel
  <2>6. Cleared'
    BY <2>3, <2>4 DEF Cleared, i
  <2> QED
    BY <2>5, <2>6
<1>8. CASE TellAdd
  BY <1>8, LabelsTold DEF TellAdd, AddLabel
<1>9. CASE TellRaises
  <2>1. loop' = Free /\ tasks' = tasks /\ loop.stage = "telling"
    BY <1>9 DEF TellRaises
  <2>2. CASE loop.cleared
    BY <1>9, <2>1, <2>2, LabelsTold DEF TellRaises, CallRaises
  <2>3. CASE ~loop.cleared
    <3>1. \A j \in Issues : labels'[j] \subseteq labels[j]
      BY <1>9, <2>3 DEF TellRaises, CallRaises, TypeOK
    <3>2. loop'.stage # "telling"
      BY <2>1 DEF Free
    <3> QED
      BY <2>1, <3>1, <3>2, LabelsKept
  <2> QED
    BY <2>2, <2>3
<1>10. ASSUME NEW n \in DOMAIN tasks,
              \/ Dispatch(n) \/ Heal(n) \/ Retire(n) \/ Consume(n)
              \/ BehaviorReturns(n) \/ SendBack(n) \/ Delete(n)
       PROVE  (OneStateLabel /\ Cleared)'
  <2>1. labels' = labels
    BY <1>10 DEF Dispatch, Heal, Retire, Consume, BehaviorReturns, SendBack, Delete,
       Operator
  <2>2. loop' = loop \/ loop'.stage # "telling" \/ ~loop'.cleared
    BY <1>10 DEF Dispatch, Heal, Retire, Consume, BehaviorReturns, SendBack, Delete,
       Operator, Tell, TellNothing, Telling, Free
  <2>3. CASE Consume(n)
    BY <2>1, <2>2, <2>3, Claimed, LabelsKept DEF Consume
  <2>4. ASSUME NEW q \in Places, MoveTo(n, q)
        PROVE  (OneStateLabel /\ Cleared)'
    BY <2>1, <2>2, <2>4, Moved, LabelsKept
  <2> QED
    BY <1>10, <2>3, <2>4, PlacesAre DEF Dispatch, Heal, Retire, BehaviorReturns,
       SendBack, Delete, Nowhere
<1>11. ASSUME NEW a \in Threads,
              ImportLook(a) \/ \E i \in Issues : ImportOpen(a, i)
       PROVE  (OneStateLabel /\ Cleared)'
  <2>1. labels' = labels /\ tasks' = tasks /\ loop' = loop
    BY <1>11 DEF ImportLook, ImportOpen
  <2> QED
    BY <2>1, LabelsKept
<1>12. ASSUME NEW a \in Threads, ImportLabel(a)
       PROVE  (OneStateLabel /\ Cleared)'
  <2>1. tasks' = tasks /\ loop' = loop
    BY <1>12 DEF ImportLabel
  <2>2. \A j \in Issues : labels'[j] \subseteq labels[j] \cup {Queued}
    BY <1>12 DEF ImportLabel, AddLabel, CallRaises, TypeOK
  <2> QED
    BY <2>1, <2>2, LabelsKept
<1>13. ASSUME NEW a \in Threads, ImportPut(a)
       PROVE  (OneStateLabel /\ Cleared)'
  <2>1. import[a].issue \in Issues
    BY <1>13, Requests DEF ImportPut
  <2>2. Put("import", import[a].issue) /\ labels' = labels /\ loop' = loop
    BY <1>13 DEF ImportPut
  <2>3. /\ DOMAIN tasks \subseteq DOMAIN tasks'
        /\ \A m \in DOMAIN tasks : tasks'[m] = tasks[m]
    BY <2>1, <2>2, Added
  <2> QED
    BY <2>2, <2>3, LabelsKept
<1>14. CASE Crash \/ Start
  <2>1. labels' = labels /\ loop'.stage # "telling"
    BY <1>14 DEF Crash, Start, Down, Free
  <2>2. /\ DOMAIN tasks' = DOMAIN tasks
        /\ \A m \in DOMAIN tasks : tasks'[m].issue = tasks[m].issue
    BY <1>14, TasksTyped DEF Crash, Start, Recovered, Task
  <2> QED
    BY <2>1, <2>2, LabelsKept
<1> QED
  BY <1>1, <1>2, <1>3, <1>4, <1>5, <1>6, <1>7, <1>8, <1>9, <1>10, <1>11,
     <1>12, <1>13, <1>14 DEF Next, LoopStep, PollStep, TellStep, ImportStep

-----------------------------------------------------------------------------
(* The inductive invariant, and what it implies.                           *)

IInv == TypeOK /\ SeenCovers /\ PolledOnce /\ Cleared /\ OneStateLabel

LEMMA IInvInit == Init => IInv
<1> SUFFICES ASSUME Init PROVE IInv
  OBVIOUS
<1>1. TypeOK
  <2>1. loop \in LoopState /\ import \in [Threads -> ImportState]
    BY LoopStates DEF Init, ImportState
  <2>2. /\ tasks \in Seq(Task)
        /\ told \in Seq(Managed \cup {None})
        /\ Len(told) = Len(tasks)
    BY DEF Init
  <2> QED
    BY <2>1, <2>2 DEF Init, TypeOK
<1>2. SeenCovers /\ PolledOnce
  BY DEF Init, SeenCovers, PolledOnce
<1>3. Cleared /\ OneStateLabel
  BY DEF Init, Cleared, OneStateLabel, Free
<1> QED
  BY <1>1, <1>2, <1>3 DEF IInv

LEMMA IInvStep == IInv /\ [Next]_vars => IInv'
BY TypeStep, KeysStep, LabelsStep DEF IInv

LEMMA Inductive == Spec => []IInv
BY IInvInit, IInvStep, PTL DEF Spec

(* Every reachable state has the types of TypeOK.                          *)
THEOREM TypeCorrect == Spec => []TypeOK
<1>1. IInv => TypeOK
  BY DEF IInv
<1> QED
  BY <1>1, Inductive, PTL

(* Polling never makes a second live task of an issue: for any number of   *)
(* issues, imports, restarts and calls that raise.                         *)
THEOREM PolledOnceHolds == Spec => []PolledOnce
<1>1. IInv => PolledOnce
  BY DEF IInv
<1> QED
  BY <1>1, Inductive, PTL

(* An issue never carries the labels of two states, however many tasks it  *)
(* has and whichever of the calls of a reflection raise.                   *)
THEOREM OneStateLabelHolds == Spec => []OneStateLabel
<1>1. IInv => OneStateLabel
  BY DEF IInv
<1> QED
  BY <1>1, Inductive, PTL

-----------------------------------------------------------------------------
(* A single task's label: what a claim, an import and a reflection leave   *)
(* behind, as long as nothing raised or crashed.                           *)

Clean == errors = 0 /\ crashes = 0

(* What a poll has claimed, and what of it is still to be put.             *)
InHand(i) == loop.stage \in {"polling", "putting"} /\ i \in loop.batch

(* An import that has set its label and is about to put its task.          *)
Importing(i) == \E a \in Threads : import[a].stage = "putting" /\ import[a].issue = i

(* Without a crash the ledger holds whatever was put or is in hand, so what *)
(* is in hand is new to the poller: it will be put and not dropped.        *)
Ledger ==
    crashes = 0 =>
        /\ loop # Down
        /\ \A i \in Issues : Key("poll", i) \in seen => i \in claimed
        /\ \A i \in Issues : InHand(i) => i \in claimed /\ Key("poll", i) \notin seen
        /\ loop.stage = "polling" =>
              /\ loop.half # None => loop.half \in claimed /\ Key("poll", loop.half) \notin seen
              /\ loop.todo \cap claimed \subseteq {loop.half}

(* A reflection is of what was last told of its task.                      *)
Retells == loop.stage = "telling" => told[loop.task] = loop.target

(* An issue without a task carries at most the label of a claim, and that  *)
(* one if a task is about to be put.                                       *)
Untasked(i) ==
    TasksFor(i) = {} =>
        /\ labels[i] \cap Managed \subseteq {Queued}
        /\ InHand(i) \/ Importing(i) => Queued \in labels[i]

(* The label a task's last reflection left, unless a second task is coming *)
(* or a reflection is under way.                                           *)
Target(n) == IF told[n] = None THEN Queued ELSE told[n]
Single(i, n) ==
    TasksFor(i) = {n} /\ ~InHand(i) /\ ~Importing(i) =>
        IF loop.stage = "telling" /\ loop.task = n
        THEN loop.cleared => labels[i] \cap Managed \subseteq {loop.target}
        ELSE labels[i] \cap Managed = {Target(n)}

Labelled ==
    Clean => \A i \in Issues : Untasked(i) /\ \A n \in DOMAIN tasks : Single(i, n)

(* Every task of an issue stays one of it.                                 *)
LEMMA SameTasks ==
    ASSUME DOMAIN tasks' = DOMAIN tasks,
           \A m \in DOMAIN tasks : tasks'[m].issue = tasks[m].issue
    PROVE  \A i : TasksFor(i)' = TasksFor(i)
BY DEF TasksFor

(* No step takes an error or a crash back.                                 *)
LEMMA NeverCleaner ==
    ASSUME TypeOK, [Next]_vars
    PROVE  /\ errors \in Nat /\ crashes \in Nat
           /\ errors' = errors \/ errors' = errors + 1
           /\ crashes' = crashes \/ crashes' = crashes + 1
           /\ (Clean' => Clean) /\ (crashes' = 0 => crashes = 0)
<1>1. errors \in Nat /\ crashes \in Nat
  BY DEF TypeOK
<1>2. errors' = errors \/ errors' = errors + 1
  BY DEF Next, vars, counters, Want, IndexCatchesUp, PollList, LoopStep, PollStep, PollAdd,
         PollRaises, CallRaises, PollRemove, PollPut, PollDrop, TellStep, TellRemove,
         ClearLabels, TellAdd, TellRaises, Dispatch, Consume, BehaviorReturns, Heal,
         Retire, SendBack, Delete, Operator, ImportStep, ImportLook, ImportLabel,
         ImportPut, ImportOpen, Crash, Start
<1>3. crashes' = crashes \/ crashes' = crashes + 1
  BY DEF Next, vars, counters, Want, IndexCatchesUp, PollList, LoopStep, PollStep, PollAdd,
         PollRaises, PollRemove, PollPut, PollDrop, TellStep, TellRemove,
         ClearLabels, TellAdd, TellRaises, Dispatch, Consume, BehaviorReturns, Heal,
         Retire, SendBack, Delete, Operator, ImportStep, ImportLook, ImportLabel,
         ImportPut, ImportOpen, Crash, Start
<1> QED
  BY <1>1, <1>2, <1>3 DEF Clean

(* What comes to rest, or tells, has nothing in hand.                      *)
LEMMA LedgerKept ==
    ASSUME Ledger, crashes' = 0 => crashes = 0, UNCHANGED seen,
           claimed \subseteq claimed',
           \/ loop' = loop /\ claimed' = claimed
           \/ loop' = Free
           \/ loop'.stage = "telling"
    PROVE  Ledger'
BY DEF Ledger, InHand, Free, Down, Key

LEMMA LedgerStep == TypeOK /\ Ledger /\ [Next]_vars => Ledger'
<1> SUFFICES ASSUME TypeOK, Ledger, [Next]_vars, crashes = 0, crashes' = 0
             PROVE  Ledger'
  BY NeverCleaner DEF Ledger
<1>1. CASE UNCHANGED vars
  BY <1>1, LedgerKept DEF vars
<1>2. ASSUME NEW i \in Issues, Want(i) \/ IndexCatchesUp(i) PROVE Ledger'
  <2>1. UNCHANGED <<seen, claimed, loop>>
    BY <1>2 DEF Want, IndexCatchesUp
  <2> QED
    BY <2>1, LedgerKept
<1>3. CASE PollList
  <2>1. loop' = Polling(listing \ claimed, None, {}) /\ UNCHANGED <<seen, claimed>>
    BY <1>3 DEF PollList
  <2> QED
    BY <2>1 DEF Ledger, InHand, Polling, Down, Key
<1>4. ASSUME NEW i \in Issues, PollRemove(i) PROVE Ledger'
  <2>1. /\ loop.stage = "polling" /\ i \in loop.todo /\ loop.half = None
        /\ claimed' = claimed \cup {i} /\ seen' = seen
        /\ loop' = [loop EXCEPT !.half = i]
    BY <1>4 DEF PollRemove, PollClaims
  <2>2. loop \in [stage : {"polling"}, todo : SUBSET Issues,
                  half : Issues \cup {None}, batch : SUBSET Issues]
    BY <2>1, Stages
  <2>3. /\ loop'.stage = "polling" /\ loop'.todo = loop.todo
        /\ loop'.half = i /\ loop'.batch = loop.batch
    BY <2>1, <2>2
  <2>4. loop.todo \cap claimed = {}
    <3>1. loop.todo \cap claimed \subseteq {None} /\ loop.todo \subseteq Issues
      BY <2>1, <2>2 DEF Ledger
    <3> QED
      BY <3>1, IngestAssumption
  <2>5. Key("poll", i) \notin seen
    BY <2>1, <2>4 DEF Ledger
  <2> QED
    BY <2>1, <2>3, <2>4, <2>5 DEF Ledger, InHand, Down, Key
<1>5. CASE PollAdd
  <2>1. /\ loop.stage = "polling" /\ loop.half # None
        /\ UNCHANGED <<seen, claimed>>
        /\ \/ loop' = Putting(loop.batch \cup {loop.half})
           \/ loop' = Polling(loop.todo \ {loop.half}, None, loop.batch \cup {loop.half})
    BY <1>5 DEF PollAdd
  <2>2. \A i \in loop.batch \cup {loop.half} :
           i \in Issues => i \in claimed /\ Key("poll", i) \notin seen
    BY <2>1 DEF Ledger, InHand
  <2>3. (loop.todo \ {loop.half}) \cap claimed = {}
    BY <2>1 DEF Ledger
  <2> QED
    BY <2>1, <2>2, <2>3 DEF Ledger, InHand, Polling, Putting, Down, Key
<1>6. CASE PollRaises
  <2>1. loop' = Free /\ seen' = seen /\ claimed \subseteq claimed'
    BY <1>6 DEF PollRaises, PollClaims
  <2> QED
    BY <2>1, LedgerKept
<1>7. ASSUME NEW i \in Issues, PollPut(i) PROVE Ledger'
  <2>1. /\ loop.stage = "putting" /\ i \in loop.batch
        /\ seen' = seen \cup {Key("poll", i)} /\ claimed' = claimed
        /\ loop' = Free \/ loop' = Putting(loop.batch \ {i})
    BY <1>7 DEF PollPut, AfterPut
  <2>2. i \in claimed
    BY <2>1 DEF Ledger, InHand
  <2>3. \A j \in Issues : InHand(j)' => j \in loop.batch /\ j # i
    BY <2>1 DEF InHand, Free, Putting
  <2>4. \A j \in loop.batch : j \in Issues => j \in claimed /\ Key("poll", j) \notin seen
    BY <2>1 DEF Ledger, InHand
  <2>5. \A j : j # i => Key("poll", j) # Key("poll", i)
    BY DEF Key
  <2>6. loop' # Down /\ loop'.stage # "polling"
    BY <2>1 DEF Free, Putting, Down
  <2>7. \A j \in Issues : Key("poll", j)' = Key("poll", j)
    BY DEF Key
  <2> QED
    BY <2>1, <2>2, <2>3, <2>4, <2>5, <2>6, <2>7 DEF Ledger
<1>8. ASSUME NEW i \in Issues, PollDrop(i) PROVE Ledger'
  <2>1. loop.stage = "putting" /\ i \in loop.batch /\ Key("poll", i) \in seen
    BY <1>8 DEF PollDrop
  <2> QED
    BY <2>1 DEF Ledger, InHand
<1>9. CASE TellRemove
  <2>1. /\ loop' = [loop EXCEPT !.cleared = TRUE] /\ loop.stage = "telling"
        /\ UNCHANGED <<seen, claimed>>
    BY <1>9 DEF TellRemove, ClearLabels
  <2>2. loop'.stage = "telling"
    BY <2>1, Stages
  <2> QED
    BY <2>1, <2>2, LedgerKept
<1>10. CASE TellAdd \/ TellRaises
  <2>1. loop' = Free /\ UNCHANGED <<seen, claimed>>
    BY <1>10 DEF TellAdd, TellRaises
  <2> QED
    BY <2>1, LedgerKept
<1>11. ASSUME NEW n \in DOMAIN tasks,
              \/ Dispatch(n) \/ Heal(n) \/ Retire(n) \/ Consume(n)
              \/ BehaviorReturns(n) \/ SendBack(n) \/ Delete(n)
       PROVE  Ledger'
  <2>1. /\ UNCHANGED <<seen, claimed>>
        /\ loop' = loop \/ loop' = Free \/ loop'.stage = "telling"
    BY <1>11 DEF Dispatch, Heal, Retire, Consume, BehaviorReturns, SendBack, Delete,
                 Operator, Tell, TellNothing, Telling
  <2> QED
    BY <2>1, LedgerKept
<1>12. ASSUME NEW a \in Threads,
              ImportStep(a) \/ \E i \in Issues : ImportOpen(a, i)
       PROVE  Ledger'
  <2>1. UNCHANGED <<seen, claimed, loop>>
    BY <1>12 DEF ImportStep, ImportLook, ImportLabel, ImportPut, ImportOpen
  <2> QED
    BY <2>1, LedgerKept
<1>13. CASE Crash
  BY <1>13, NeverCleaner DEF Crash
<1>14. CASE Start
  BY <1>14 DEF Start, Ledger
<1> QED
  BY <1>1, <1>2, <1>3, <1>4, <1>5, <1>6, <1>7, <1>8, <1>9, <1>10, <1>11, <1>12,
     <1>13, <1>14 DEF Next, LoopStep, PollStep, TellStep

(* Moving a task leaves what an import is about to put.                    *)
LEMMA ImportsStay ==
    ASSUME TypeOK, NEW n, import' = Stirred(n)
    PROVE  \A i : Importing(i)' <=> Importing(i)
<1>1. ASSUME NEW a \in Threads
      PROVE  import'[a].stage = "putting" <=> import[a].stage = "putting"
  <2>1. CASE import[a] = NoImport
    BY <2>1 DEF Stirred, NoImport
  <2>2. CASE import[a] # NoImport
    <3>1. import'[a] = [import[a] EXCEPT !.still = @ \ {n}]
      BY <2>2 DEF Stirred
    <3> QED
      BY <2>2, <3>1 DEF TypeOK, ImportState
  <2> QED
    BY <2>1, <2>2
<1>2. ASSUME NEW a \in Threads, import[a].stage = "putting"
      PROVE  import'[a].issue = import[a].issue
  <2>1. import[a] # NoImport
    BY <1>2 DEF NoImport
  <2>2. import'[a] = [import[a] EXCEPT !.still = @ \ {n}]
    BY <2>1 DEF Stirred
  <2> QED
    BY <2>1, <2>2 DEF TypeOK, ImportState
<1> QED
  BY <1>1, <1>2 DEF Importing

(* A step that neither tells, puts, claims nor labels.                     *)
LEMMA LabelledKept ==
    ASSUME Labelled, Clean' => Clean, DOMAIN tasks' = DOMAIN tasks,
           \A m \in DOMAIN tasks : tasks'[m].issue = tasks[m].issue,
           \A i \in Issues : labels'[i] \cap Managed = labels[i] \cap Managed,
           told' = told,
           \A i \in Issues : InHand(i)' <=> InHand(i),
           \A i \in Issues : Importing(i)' <=> Importing(i),
           \/ loop' = loop
           \/ loop.stage # "telling" /\ loop'.stage # "telling"
    PROVE  Labelled'
<1>1. \A i : TasksFor(i)' = TasksFor(i)
  BY SameTasks
<1>2. Queued \in Managed
  BY DEF Managed
<1>3. \A i \in Issues : Untasked(i) => Untasked(i)'
  BY <1>1, <1>2 DEF Untasked
<1>4. \A i \in Issues, n \in DOMAIN tasks : Single(i, n) => Single(i, n)'
  BY <1>1 DEF Single, Target
<1> QED
  BY <1>3, <1>4 DEF Labelled

(* The one who puts a task of an issue has labelled it.                    *)
LEMMA LabelledPut ==
    ASSUME TypeOK, Labelled, Clean' => Clean,
           NEW by \in {"poll", "import"}, NEW i \in Issues, Put(by, i),
           InHand(i) \/ Importing(i), labels' = labels,
           \A j \in Issues \ {i} : InHand(j)' <=> InHand(j),
           \A j \in Issues \ {i} : Importing(j)' <=> Importing(j),
           \/ loop' = loop
           \/ loop.stage # "telling" /\ loop'.stage # "telling"
    PROVE  Labelled'
<1>1. PICK new :
        /\ DOMAIN tasks' = DOMAIN tasks \cup {new}
        /\ new \notin DOMAIN tasks
        /\ \A m \in DOMAIN tasks : tasks'[m] = tasks[m]
        /\ tasks'[new].issue = i
        /\ new = Len(tasks) + 1
  BY Added
<1>2. told'[new] = None /\ \A m \in DOMAIN tasks : told'[m] = told[m]
  <2>1. told' = Append(told, None) /\ new = Len(told) + 1 /\ DOMAIN tasks = 1 .. Len(told)
    BY <1>1 DEF Put, TypeOK
  <2>2. told \in Seq(Managed \cup {None})
    BY DEF TypeOK
  <2>3. \A m \in 1 .. Len(told) : Append(told, None)[m] = told[m]
    BY <2>2
  <2>4. Append(told, None)[Len(told) + 1] = None
    BY <2>2
  <2> QED
    BY <2>1, <2>3, <2>4
<1>3. TasksFor(i)' = TasksFor(i) \cup {new}
  BY <1>1 DEF TasksFor
<1>4. \A j \in Issues \ {i} : TasksFor(j)' = TasksFor(j)
  BY <1>1 DEF TasksFor
<1>5. loop'.stage = "telling" => loop'.task # new
  <2>1. loop'.stage = "telling" => loop' = loop /\ loop.task \in DOMAIN tasks
    BY Reflected
  <2> QED
    BY <1>1, <2>1
<1>6. SUFFICES ASSUME Clean, \A j \in Issues : Untasked(j),
                      \A j \in Issues, n \in DOMAIN tasks : Single(j, n)
               PROVE  \A j \in Issues : Untasked(j)' /\ \A n \in DOMAIN tasks' : Single(j, n)'
  BY DEF Labelled
<1>7. ASSUME NEW j \in Issues \ {i} PROVE Untasked(j)'
  BY <1>4, <1>6, <1>7 DEF Untasked
<1>8. ASSUME NEW j \in Issues \ {i}, NEW n \in DOMAIN tasks' PROVE Single(j, n)'
  <2>1. CASE n = new
    <3>1. new \notin TasksFor(j)
      BY <1>1 DEF TasksFor
    <3> QED
      BY <1>4, <2>1, <3>1 DEF Single
  <2>2. CASE n # new
    <3>1. n \in DOMAIN tasks /\ Single(j, n) /\ told'[n] = told[n]
      BY <1>1, <1>2, <1>6, <2>2
    <3> QED
      BY <1>4, <1>8, <3>1 DEF Single, Target
  <2> QED
    BY <2>1, <2>2
<1>9. Untasked(i)'
  BY <1>3 DEF Untasked
<1>10. ASSUME NEW n \in DOMAIN tasks', TasksFor(i)' = {n}
       PROVE  Single(i, n)'
  <2>1. n = new /\ TasksFor(i) = {}
    <3>1. new \notin TasksFor(i)
      BY <1>1 DEF TasksFor
    <3> QED
      BY <1>3, <1>10, <3>1
  <2>2. labels[i] \cap Managed = {Queued}
    <3>1. Queued \in Managed
      BY DEF Managed
    <3> QED
      BY <1>6, <2>1, <3>1 DEF Untasked
  <2>3. labels'[i] \cap Managed = {Target(n)'}
    BY <1>2, <2>1, <2>2 DEF Target
  <2> QED
    BY <1>5, <2>1, <2>3 DEF Single
<1>11. \A n \in DOMAIN tasks' : Single(i, n)'
  BY <1>10 DEF Single
<1> QED
  BY <1>7, <1>8, <1>9, <1>11

(* A label beside those there are, and a task of the issue to come of it.  *)
LEMMA LabelledMore ==
    ASSUME TypeOK, Labelled, Clean' => Clean, NEW i \in Issues,
           labels' = [labels EXCEPT ![i] = @ \cup {Queued}],
           UNCHANGED <<tasks, told>>,
           InHand(i)' \/ Importing(i)',
           \A j \in Issues \ {i} : InHand(j)' <=> InHand(j),
           \A j \in Issues \ {i} : Importing(j)' <=> Importing(j),
           \/ loop' = loop
           \/ loop.stage # "telling" /\ loop'.stage # "telling"
    PROVE  Labelled'
<1>1. \A j : TasksFor(j)' = TasksFor(j)
  BY SameTasks
<1>2. labels'[i] = labels[i] \cup {Queued} /\ \A j \in Issues \ {i} : labels'[j] = labels[j]
  BY DEF TypeOK
<1>3. \A j \in Issues : Untasked(j) => Untasked(j)'
  BY <1>1, <1>2 DEF Untasked
<1>4. \A j \in Issues, n \in DOMAIN tasks : Single(j, n) => Single(j, n)'
  BY <1>1, <1>2 DEF Single, Target
<1> QED
  BY <1>3, <1>4 DEF Labelled

(* The loop begins to tell of a task.                                      *)
LEMMA LabelledTell ==
    ASSUME TypeOK, Labelled, Clean' => Clean, loop = Free,
           NEW n \in DOMAIN tasks, NEW q \in Places, MoveTo(n, q),
           NEW l \in Managed, Tell(n, l), labels' = labels
    PROVE  Labelled' /\ Retells'
<1>1. /\ DOMAIN tasks' = DOMAIN tasks
      /\ \A m \in DOMAIN tasks : tasks'[m].issue = tasks[m].issue
  BY Moved
<1>2. \A j : TasksFor(j)' = TasksFor(j)
  BY <1>1, SameTasks
<1>3. \A j : Importing(j)' <=> Importing(j)
  BY ImportsStay DEF MoveTo
<1>4. /\ loop'.stage = "telling" /\ loop'.task = n /\ loop'.target = l
      /\ loop'.cleared = FALSE
  BY DEF Tell, Telling
<1>5. told'[n] = l /\ \A m \in DOMAIN tasks \ {n} : told'[m] = told[m]
  <2>1. DOMAIN told = DOMAIN tasks
    BY DEF TypeOK
  <2> QED
    BY <2>1 DEF Tell
<1>6. \A j : ~InHand(j) /\ ~InHand(j)'
  BY <1>4 DEF InHand, Free
<1>7. \A j \in Issues : Untasked(j) => Untasked(j)'
  BY <1>2, <1>3, <1>6 DEF Untasked
<1>8. ASSUME NEW j \in Issues, NEW m \in DOMAIN tasks, Single(j, m)
      PROVE  Single(j, m)'
  <2>1. CASE m = n
    BY <1>4, <2>1 DEF Single
  <2>2. CASE m # n
    <3>1. loop.stage # "telling"
      BY DEF Free
    <3> QED
      BY <1>2, <1>3, <1>4, <1>5, <1>6, <1>8, <2>2, <3>1 DEF Single, Target
  <2> QED
    BY <2>1, <2>2
<1>9. Labelled'
  BY <1>1, <1>7, <1>8 DEF Labelled
<1> QED
  BY <1>4, <1>5, <1>9 DEF Retells

LEMMA LabelledStep ==
    TypeOK /\ Ledger /\ Retells /\ Labelled /\ [Next]_vars => (Retells /\ Labelled)'
<1> SUFFICES ASSUME TypeOK, Ledger, Retells, Labelled, [Next]_vars
             PROVE  (Retells /\ Labelled)'
  OBVIOUS
<1> USE DEF counters
<1>0. (Clean' => Clean) /\ errors \in Nat /\ crashes \in Nat
  BY NeverCleaner
<1>1. CASE UNCHANGED vars
  <2>1. UNCHANGED <<labels, tasks, told, loop, import>>
    BY <1>1 DEF vars
  <2>2. \A i \in Issues : (InHand(i)' <=> InHand(i)) /\ (Importing(i)' <=> Importing(i))
    BY <2>1 DEF InHand, Importing
  <2> QED
    BY <1>0, <2>1, <2>2, LabelledKept DEF Retells
<1>2. ASSUME NEW i \in Issues, Want(i) \/ IndexCatchesUp(i)
      PROVE  (Retells /\ Labelled)'
  <2>1. UNCHANGED <<tasks, told, loop, import>>
    BY <1>2 DEF Want, IndexCatchesUp
  <2>2. \A j \in Issues : (InHand(j)' <=> InHand(j)) /\ (Importing(j)' <=> Importing(j))
    BY <2>1 DEF InHand, Importing
  <2>3. Todo \notin Managed
    BY IngestAssumption DEF Managed, Todo, Queued, PrOpen, FailedLabel
  <2>4. \A j \in Issues : labels'[j] \cap Managed = labels[j] \cap Managed
    BY <1>2, <2>3 DEF Want, AddLabel, IndexCatchesUp, TypeOK
  <2> QED
    BY <1>0, <2>1, <2>2, <2>4, LabelledKept DEF Retells
<1>3. CASE PollList
  <2>1. /\ UNCHANGED <<labels, tasks, told, import>> /\ loop = Free
        /\ loop' = Polling(listing \ claimed, None, {})
    BY <1>3 DEF PollList
  <2>2. loop.stage # "telling" /\ loop'.stage # "telling"
    BY <2>1 DEF Free, Polling
  <2>3. \A j \in Issues : (InHand(j)' <=> InHand(j)) /\ (Importing(j)' <=> Importing(j))
    BY <2>1 DEF InHand, Importing, Free, Polling
  <2> QED
    BY <1>0, <2>1, <2>2, <2>3, LabelledKept DEF Retells
<1>4. ASSUME NEW i \in Issues, PollRemove(i) PROVE (Retells /\ Labelled)'
  <2>1. /\ UNCHANGED <<tasks, told, import>> /\ loop.stage = "polling"
        /\ loop' = [loop EXCEPT !.half = i]
        /\ labels' = [labels EXCEPT ![i] = @ \ {Todo}]
    BY <1>4 DEF PollRemove, PollClaims, RemoveLabel
  <2>2. loop \in [stage : {"polling"}, todo : SUBSET Issues,
                  half : Issues \cup {None}, batch : SUBSET Issues]
    BY <2>1, Stages
  <2>3. loop'.stage = "polling" /\ loop'.batch = loop.batch
    BY <2>1, <2>2
  <2>4. \A j \in Issues : (InHand(j)' <=> InHand(j)) /\ (Importing(j)' <=> Importing(j))
    BY <2>1, <2>3 DEF InHand, Importing
  <2>5. Todo \notin Managed
    BY IngestAssumption DEF Managed, Todo, Queued, PrOpen, FailedLabel
  <2>6. \A j \in Issues : labels'[j] \cap Managed = labels[j] \cap Managed
    BY <2>1, <2>5 DEF TypeOK
  <2> QED
    BY <1>0, <2>1, <2>3, <2>4, <2>6, LabelledKept DEF Retells
<1>5. CASE PollAdd
  <2>1. PICK i \in Issues : i = loop.half
    BY <1>5, Stages DEF PollAdd
  <2>2. /\ UNCHANGED <<tasks, told, import>> /\ loop.stage = "polling"
        /\ \/ loop' = Putting(loop.batch \cup {i})
           \/ loop' = Polling(loop.todo \ {i}, None, loop.batch \cup {i})
        /\ labels' = [labels EXCEPT ![i] = @ \cup {Queued}]
    BY <1>5, <2>1 DEF PollAdd, AddLabel, Put
  <2>3. loop'.stage \in {"polling", "putting"} /\ loop'.batch = loop.batch \cup {i}
    BY <2>2 DEF Putting, Polling
  <2>4. /\ InHand(i)' /\ \A j \in Issues \ {i} : InHand(j)' <=> InHand(j)
        /\ \A j \in Issues : Importing(j)' <=> Importing(j)
    BY <2>2, <2>3 DEF InHand, Importing
  <2> QED
    BY <1>0, <2>2, <2>3, <2>4, LabelledMore DEF Retells
<1>6. CASE PollRaises \/ TellRaises
  <2>1. loop' = Free /\ errors' = errors + 1
    BY <1>6 DEF PollRaises, TellRaises, CallRaises
  <2> QED
    BY <1>0, <2>1 DEF Retells, Labelled, Clean, Free
<1>7. ASSUME NEW i \in Issues, PollPut(i) PROVE (Retells /\ Labelled)'
  <2>1. /\ loop.stage = "putting" /\ i \in loop.batch /\ Put("poll", i)
        /\ UNCHANGED <<labels, import>>
        /\ loop' = IF loop.batch = {i} THEN Free ELSE Putting(loop.batch \ {i})
    BY <1>7 DEF PollPut, AfterPut
  <2>2. loop'.stage # "telling"
    BY <2>1 DEF Free, Putting
  <2>3. /\ InHand(i)
        /\ \A j \in Issues \ {i} : InHand(j)' <=> InHand(j)
        /\ \A j \in Issues : Importing(j)' <=> Importing(j)
    BY <2>1 DEF InHand, Importing, Free, Putting
  <2> QED
    BY <1>0, <2>1, <2>2, <2>3, LabelledPut DEF Retells
<1>8. ASSUME NEW i \in Issues, PollDrop(i) PROVE (Retells /\ Labelled)'
  <2>1. /\ loop.stage = "putting" /\ i \in loop.batch /\ Key("poll", i) \in seen
        /\ UNCHANGED <<errors, crashes>>
        /\ loop' = IF loop.batch = {i} THEN Free ELSE Putting(loop.batch \ {i})
    BY <1>8 DEF PollDrop, AfterPut
  <2>2. crashes # 0
    BY <2>1 DEF Ledger, InHand
  <2> QED
    BY <2>1, <2>2 DEF Retells, Labelled, Clean, Free, Putting
<1>9. CASE TellRemove
  <2>1. /\ loop.stage = "telling" /\ loop.task \in DOMAIN tasks
        /\ tasks[loop.task].issue \in Issues /\ loop.target \in Managed
    BY <1>9, Reflected DEF TellRemove, ClearLabels
  <2>2. PICK i \in Issues : i = tasks[loop.task].issue
    BY <2>1
  <2>3. /\ labels' = [labels EXCEPT ![i] = @ \ (Managed \ {loop.target})]
        /\ UNCHANGED <<tasks, told, import>>
        /\ loop' = [loop EXCEPT !.cleared = TRUE]
    BY <1>9, <2>2 DEF TellRemove, ClearLabels
  <2>4. /\ loop'.stage = "telling" /\ loop'.task = loop.task
        /\ loop'.target = loop.target /\ loop'.cleared
    BY <2>1, <2>3, Stages
  <2>5. \A j : ~InHand(j) /\ ~InHand(j)' /\ (Importing(j)' <=> Importing(j))
    BY <2>1, <2>3, <2>4 DEF InHand, Importing
  <2>6. /\ labels'[i] \cap Managed \subseteq {loop.target}
        /\ labels'[i] \subseteq labels[i]
        /\ \A j \in Issues \ {i} : labels'[j] = labels[j]
    BY <2>3 DEF TypeOK
  <2>7. \A j : TasksFor(j)' = TasksFor(j)
    BY <2>3, SameTasks
  <2>8. loop.task \in TasksFor(i)
    BY <2>1, <2>2 DEF TasksFor
  <2>9. \A j \in Issues : Untasked(j) => Untasked(j)'
    BY <2>5, <2>6, <2>7, <2>8 DEF Untasked
  <2>10. ASSUME NEW j \in Issues, NEW m \in DOMAIN tasks, Single(j, m), TasksFor(j) = {m}
         PROVE  Single(j, m)'
    <3>1. CASE j = i
      <4>1. m = loop.task
        BY <2>8, <2>10, <3>1
      <4> QED
        BY <2>1, <2>4, <2>6, <3>1, <4>1 DEF Single
    <3>2. CASE j # i
      <4>1. m # loop.task
        BY <2>2, <2>10, <3>2 DEF TasksFor
      <4>2. Target(m)' = Target(m)
        BY <2>3 DEF Target
      <4> QED
        BY <2>4, <2>5, <2>6, <2>7, <2>10, <3>2, <4>1, <4>2 DEF Single
    <3> QED
      BY <3>1, <3>2
  <2>11. \A j \in Issues, m \in DOMAIN tasks : Single(j, m) => Single(j, m)'
    BY <2>7, <2>10 DEF Single
  <2>12. Retells'
    BY <2>1, <2>3, <2>4 DEF Retells
  <2> QED
    BY <1>0, <2>3, <2>9, <2>11, <2>12 DEF Labelled
<1>10. CASE TellAdd
  <2>1. /\ loop.stage = "telling" /\ loop.task \in DOMAIN tasks
        /\ tasks[loop.task].issue \in Issues /\ loop.target \in Managed /\ loop.cleared
    BY <1>10, Reflected DEF TellAdd
  <2>2. PICK i \in Issues : i = tasks[loop.task].issue
    BY <2>1
  <2>3. /\ labels' = [labels EXCEPT ![i] = @ \cup {loop.target}]
        /\ UNCHANGED <<tasks, told, import>> /\ loop' = Free
    BY <1>10, <2>2 DEF TellAdd, AddLabel
  <2>4. loop'.stage # "telling" /\ \A j : ~InHand(j) /\ ~InHand(j)'
    BY <2>1, <2>3 DEF InHand, Free
  <2>5. \A j : Importing(j)' <=> Importing(j)
    BY <2>3 DEF Importing
  <2>6. /\ labels'[i] = labels[i] \cup {loop.target}
        /\ \A j \in Issues \ {i} : labels'[j] = labels[j]
    BY <2>3 DEF TypeOK
  <2>7. \A j : TasksFor(j)' = TasksFor(j)
    BY <2>3, SameTasks
  <2>8. loop.task \in TasksFor(i)
    BY <2>1, <2>2 DEF TasksFor
  <2>9. \A j \in Issues : Untasked(j) => Untasked(j)'
    BY <2>4, <2>5, <2>6, <2>7, <2>8 DEF Untasked
  <2>10. ASSUME NEW j \in Issues, NEW m \in DOMAIN tasks, Single(j, m), TasksFor(j) = {m}
         PROVE  Single(j, m)'
    <3>1. Target(m)' = Target(m)
      BY <2>3 DEF Target
    <3>2. CASE j = i
      <4>1. m = loop.task /\ Target(m) = loop.target
        <5>1. m = loop.task
          BY <2>8, <2>10, <3>2
        <5>2. None \notin Managed
          BY IngestAssumption DEF Labels
        <5> QED
          BY <2>1, <5>1, <5>2 DEF Retells, Target
      <4> QED
        BY <2>1, <2>4, <2>5, <2>6, <2>7, <2>10, <3>1, <3>2, <4>1 DEF Single
    <3>3. CASE j # i
      <4>1. m # loop.task
        BY <2>2, <2>10, <3>3 DEF TasksFor
      <4> QED
        BY <2>4, <2>5, <2>6, <2>7, <2>10, <3>1, <3>3, <4>1 DEF Single
    <3> QED
      BY <3>2, <3>3
  <2>11. \A j \in Issues, m \in DOMAIN tasks : Single(j, m) => Single(j, m)'
    BY <2>7, <2>10 DEF Single
  <2> QED
    BY <1>0, <2>3, <2>4, <2>9, <2>11 DEF Labelled, Retells
<1>11. ASSUME NEW n \in DOMAIN tasks,
              \/ Dispatch(n) \/ Heal(n) \/ Retire(n) \/ Consume(n)
              \/ BehaviorReturns(n) \/ SendBack(n) \/ Delete(n)
       PROVE  (Retells /\ Labelled)'
  <2>1. labels' = labels
    BY <1>11 DEF Dispatch, Heal, Retire, Consume, BehaviorReturns, SendBack, Delete,
                 Operator
  <2>2. ASSUME \/ Hold(n)
               \/ \E q \in Places : MoveTo(n, q),
               told' = told,
               loop' = loop \/ (loop = Free /\ loop' = Free)
        PROVE  (Retells /\ Labelled)'
    <3>1. /\ DOMAIN tasks' = DOMAIN tasks
          /\ \A m \in DOMAIN tasks : tasks'[m].issue = tasks[m].issue
      BY <2>2, Moved, Claimed
    <3>2. \A j : Importing(j)' <=> Importing(j)
      BY <2>2, ImportsStay DEF MoveTo, Hold
    <3>3. loop' = loop
      BY <2>2
    <3>4. \A j : InHand(j)' <=> InHand(j)
      BY <3>3 DEF InHand
    <3> QED
      BY <1>0, <2>1, <2>2, <3>1, <3>2, <3>3, <3>4, LabelledKept DEF Retells
  <2>3. ASSUME NEW q \in Places, MoveTo(n, q), NEW l \in Managed, Tell(n, l), loop = Free
        PROVE  (Retells /\ Labelled)'
    BY <1>0, <2>1, <2>3, LabelledTell
  <2>4. {"inbox", "step", "done", "failed", "retired", Nowhere} \subseteq Places
    BY PlacesAre DEF Nowhere
  <2>5. CASE Dispatch(n)
    <3>1. StepLabels \subseteq Managed /\ PrOpen \in Managed /\ FailedLabel \in Managed
      BY DEF Managed
    <3>2. loop = Free
      BY <2>5 DEF Dispatch
    <3>3. \/ MoveTo(n, "step") /\ \E l \in StepLabels : Tell(n, l)
          \/ MoveTo(n, "step") /\ TellNothing
          \/ MoveTo(n, "done") /\ Tell(n, PrOpen)
          \/ MoveTo(n, "failed") /\ Tell(n, FailedLabel)
      BY <2>5 DEF Dispatch
    <3>4. CASE MoveTo(n, "step") /\ TellNothing
      BY <2>2, <2>4, <3>2, <3>4 DEF TellNothing
    <3>5. CASE ~(MoveTo(n, "step") /\ TellNothing)
      BY <2>3, <2>4, <3>1, <3>2, <3>3, <3>5
    <3> QED
      BY <3>4, <3>5
  <2>6. CASE BehaviorReturns(n)
    <3>1. loop = Free /\ FailedLabel \in Managed
      BY <2>6 DEF BehaviorReturns, Managed
    <3>2. \/ MoveTo(n, "inbox") /\ TellNothing
          \/ MoveTo(n, "failed") /\ Tell(n, FailedLabel)
      BY <2>6 DEF BehaviorReturns
    <3>3. CASE MoveTo(n, "inbox") /\ TellNothing
      BY <2>2, <2>4, <3>1, <3>3 DEF TellNothing
    <3>4. CASE MoveTo(n, "failed") /\ Tell(n, FailedLabel)
      BY <2>3, <2>4, <3>1, <3>4
    <3> QED
      BY <3>2, <3>3, <3>4
  <2>7. CASE Heal(n) \/ Retire(n)
    BY <2>2, <2>4, <2>7 DEF Heal, Retire, TellNothing
  <2>8. CASE Consume(n)
    BY <2>2, <2>8 DEF Consume
  <2>9. CASE SendBack(n) \/ Delete(n)
    BY <2>2, <2>4, <2>9 DEF SendBack, Delete, Operator
  <2> QED
    BY <1>11, <2>5, <2>6, <2>7, <2>8, <2>9
<1>12. ASSUME NEW a \in Threads, ImportLook(a) \/ \E i \in Issues : ImportOpen(a, i)
       PROVE  (Retells /\ Labelled)'
  <2>1. UNCHANGED <<labels, tasks, told, loop>>
    BY <1>12 DEF ImportLook, ImportOpen
  <2>2. /\ import[a].stage # "putting" /\ import'[a].stage # "putting"
        /\ \A b \in Threads \ {a} : import'[b] = import[b]
    <3>1. CASE ImportLook(a)
      <4>1. import[a].stage = "looking"
        BY <3>1 DEF ImportLook
      <4>2. import[a] \in
              [stage : {"looking"}, issue : Issues,
               looked : 0 .. Len(QueueOrder) - 1,
               known : SUBSET DOMAIN tasks, still : SUBSET DOMAIN tasks]
        BY <4>1, Requests
      <4>3. import'[a].stage # "putting"
        <5>1. PICK n, st : /\ st \in {"labelling", "looking"}
                           /\ \/ import'[a] = NoImport
                              \/ import'[a] = [import[a] EXCEPT !.looked = n, !.stage = st]
          <6>1. PICK n, st : /\ n = import[a].looked + 1
                             /\ st = IF n = Len(QueueOrder) THEN "labelling" ELSE "looking"
            OBVIOUS
          <6> QED
            BY <3>1, <6>1 DEF ImportLook, TypeOK
        <5>2. CASE import'[a] = NoImport
          BY <5>2 DEF NoImport
        <5>3. CASE import'[a] = [import[a] EXCEPT !.looked = n, !.stage = st]
          <6>1. import'[a].stage = st
            BY <4>2, <5>3
          <6> QED
            BY <5>1, <6>1
        <5> QED
          BY <5>1, <5>2, <5>3
      <4> QED
        BY <3>1, <4>1, <4>3 DEF ImportLook, TypeOK
    <3>2. ASSUME NEW i \in Issues, ImportOpen(a, i)
          PROVE  /\ import[a].stage # "putting" /\ import'[a].stage # "putting"
                 /\ \A b \in Threads \ {a} : import'[b] = import[b]
      BY <3>2 DEF ImportOpen, Import, NoImport, TypeOK
    <3> QED
      BY <1>12, <3>1, <3>2
  <2>3. \A j : (Importing(j)' <=> Importing(j)) /\ (InHand(j)' <=> InHand(j))
    BY <2>1, <2>2 DEF Importing, InHand
  <2> QED
    BY <1>0, <2>1, <2>3, LabelledKept DEF Retells
<1>13. ASSUME NEW a \in Threads, ImportLabel(a) PROVE (Retells /\ Labelled)'
  <2>1. PICK i \in Issues : i = import[a].issue
    BY <1>13, Requests DEF ImportLabel
  <2>2. UNCHANGED <<tasks, told, loop>> /\ import' = [import EXCEPT ![a].stage = "putting"]
    BY <1>13 DEF ImportLabel
  <2>3. Retells'
    BY <2>2 DEF Retells
  <2>4. CASE errors' = errors + 1
    BY <1>0, <2>3, <2>4 DEF Labelled, Clean
  <2>5. CASE AddLabel(i, Queued)
    <3>1. import[a].stage = "labelling" /\ import[a].issue = i
      BY <1>13, <2>1 DEF ImportLabel
    <3>2. /\ import'[a].stage = "putting" /\ import'[a].issue = i
          /\ \A b \in Threads \ {a} : import'[b] = import[b]
      BY <2>2, <3>1, Requests DEF TypeOK
    <3>3. /\ Importing(i)'
          /\ \A j \in Issues \ {i} : Importing(j)' <=> Importing(j)
          /\ \A j : InHand(j)' <=> InHand(j)
      BY <2>2, <3>1, <3>2 DEF Importing, InHand
    <3> QED
      BY <1>0, <2>2, <2>3, <2>5, <3>3, LabelledMore DEF AddLabel
  <2> QED
    BY <1>13, <2>1, <2>4, <2>5 DEF ImportLabel, CallRaises
<1>14. ASSUME NEW a \in Threads, ImportPut(a) PROVE (Retells /\ Labelled)'
  <2>1. PICK i \in Issues : i = import[a].issue
    BY <1>14, Requests DEF ImportPut
  <2>2. /\ import[a].stage = "putting" /\ import[a].issue = i /\ Put("import", i)
        /\ UNCHANGED <<labels, loop>> /\ import' = [import EXCEPT ![a] = NoImport]
    BY <1>14, <2>1 DEF ImportPut
  <2>3. /\ Importing(i)
        /\ \A j \in Issues \ {i} : Importing(j)' <=> Importing(j)
        /\ \A j : InHand(j)' <=> InHand(j)
    BY <2>2 DEF Importing, InHand, NoImport, TypeOK
  <2>4. Retells'
    <3>1. SUFFICES ASSUME loop.stage = "telling" PROVE told'[loop.task] = loop.target
      BY <2>2 DEF Retells
    <3>2. loop.task \in DOMAIN told
      BY <3>1, Reflected DEF TypeOK
    <3>3. told' = Append(told, None) /\ told \in Seq(Managed \cup {None})
      BY <2>2 DEF Put, TypeOK
    <3>4. told'[loop.task] = told[loop.task]
      BY <3>2, <3>3
    <3> QED
      BY <3>1, <3>4 DEF Retells
  <2> QED
    BY <1>0, <2>2, <2>3, <2>4, LabelledPut
<1>15. CASE Crash \/ Start
  <2>1. loop'.stage # "telling"
    BY <1>15 DEF Crash, Start, Down, Free
  <2>2. ~Clean'
    BY <1>0, <1>15 DEF Crash, Start, Clean, Ledger
  <2> QED
    BY <2>1, <2>2 DEF Retells, Labelled
<1> QED
  BY <1>1, <1>2, <1>3, <1>4, <1>5, <1>6, <1>7, <1>8, <1>9, <1>10, <1>11, <1>12,
     <1>13, <1>14, <1>15 DEF Next, LoopStep, PollStep, TellStep, ImportStep

(* As long as nothing raised or crashed, an issue with a single task shows *)
(* the last state of that task that has a label (poll(), add() and         *)
(* GithubLabelReflector, whoever comes between their calls).               *)
THEOREM LabelTellsStateHolds == Spec => []LabelTellsState
<1>1. Init => Ledger /\ Retells /\ Labelled
  <2>1. Init => Ledger /\ Retells
    BY DEF Init, Ledger, Retells, InHand, Free, Down
  <2>2. ASSUME Init PROVE Labelled
    <3>1. DOMAIN tasks = {} /\ \A i \in Issues : labels[i] = {} /\ ~InHand(i) /\ ~Importing(i)
      BY <2>2 DEF Init, InHand, Importing, Free, NoImport
    <3> QED
      BY <3>1 DEF Labelled, Untasked
  <2> QED
    BY <2>1, <2>2
<1>2. TypeOK /\ Ledger /\ Retells /\ Labelled => LabelTellsState
  <2> SUFFICES ASSUME TypeOK, Labelled,
                      NEW n \in DOMAIN tasks, NEW i, i = tasks[n].issue,
                      errors = 0, crashes = 0, loop = Free, TasksFor(i) = {n},
                      \A a \in Threads : ~(import[a].stage = "putting" /\ import[a].issue = i)
               PROVE  labels[i] \cap Managed = {Target(n)}
    BY DEF LabelTellsState, Target
  <2>1. i \in Issues
    BY TasksTyped
  <2>2. ~InHand(i) /\ ~Importing(i) /\ loop.stage # "telling"
    BY DEF InHand, Importing, Free
  <2> QED
    BY <2>1, <2>2 DEF Labelled, Clean, Single
<1>3. IInv /\ Ledger /\ Retells /\ Labelled /\ [Next]_vars
         => (IInv /\ Ledger /\ Retells /\ Labelled)'
  BY IInvStep, LedgerStep, LabelledStep DEF IInv
<1>4. IInv => TypeOK
  BY DEF IInv
<1> QED
  BY <1>1, <1>2, <1>3, <1>4, IInvInit, PTL DEF Spec

-----------------------------------------------------------------------------
(* What an import finds.                                                   *)

(* A task that lay still since request a began is listed in a queue that   *)
(* the request has yet to look through.                                    *)
Ahead(a, n) ==
    /\ tasks[n].issue = import[a].issue
    /\ Matches(n, import[a].issue)
    /\ ~tasks[n].held
    /\ \E k \in import[a].looked + 1 .. Len(QueueOrder) : tasks[n].at = QueueOrder[k]

(* A request that has looked through every queue has seen no such task.    *)
Still ==
    /\ loop = Down => \A a \in Threads : import[a] = NoImport
    /\ \A a \in Threads :
          import[a] # NoImport => \A n \in import[a].still : Ahead(a, n)

LEMMA StillInTasks ==
    ASSUME TypeOK, NEW a \in Threads, import[a] # NoImport
    PROVE  import[a].still \subseteq DOMAIN tasks
BY DEF TypeOK, ImportState

(* A step that moves no task and takes no request further.                 *)
LEMMA StillKept ==
    ASSUME TypeOK, Still, loop' = Down => loop = Down,
           \A m \in DOMAIN tasks : tasks'[m] = tasks[m],
           \A a \in Threads : import'[a] = import[a] \/ import'[a] = NoImport
    PROVE  Still'
<1>1. ASSUME NEW a \in Threads, import'[a] # NoImport, NEW n \in import'[a].still
      PROVE  Ahead(a, n)'
  <2>1. import'[a] = import[a] /\ import[a] # NoImport
    BY <1>1
  <2>2. n \in DOMAIN tasks /\ Ahead(a, n)
    BY <1>1, <2>1, StillInTasks DEF Still
  <2>3. tasks'[n] = tasks[n]
    BY <2>2
  <2> QED
    BY <2>1, <2>2, <2>3 DEF Ahead, Matches, KeyOf
<1> QED
  BY <1>1 DEF Still

(* A step that moves a task, or claims it, leaves the others where they lie. *)
LEMMA StillStirred ==
    ASSUME TypeOK, Still, loop' = Down => loop = Down, NEW n \in DOMAIN tasks,
           import' = Stirred(n), \A m \in DOMAIN tasks \ {n} : tasks'[m] = tasks[m]
    PROVE  Still'
<1>1. ASSUME NEW a \in Threads, import[a] # NoImport
      PROVE  /\ import'[a].issue = import[a].issue
             /\ import'[a].looked = import[a].looked
             /\ import'[a].still = import[a].still \ {n}
  <2>1. import'[a] = [import[a] EXCEPT !.still = @ \ {n}]
    BY <1>1 DEF Stirred
  <2> QED
    BY <1>1, <2>1 DEF TypeOK, ImportState
<1>2. \A a \in Threads : import[a] = NoImport => import'[a] = NoImport
  BY DEF Stirred
<1>3. ASSUME NEW a \in Threads, import'[a] # NoImport, NEW m \in import'[a].still
      PROVE  Ahead(a, m)'
  <2>1. import[a] # NoImport
    BY <1>2, <1>3
  <2>2. m \in import[a].still /\ m # n
    BY <1>1, <1>3, <2>1
  <2>3. m \in DOMAIN tasks /\ Ahead(a, m)
    BY <2>1, <2>2, StillInTasks DEF Still
  <2>4. tasks'[m] = tasks[m]
    BY <2>2, <2>3
  <2> QED
    BY <1>1, <2>1, <2>3, <2>4 DEF Ahead, Matches, KeyOf
<1> QED
  BY <1>2, <1>3 DEF Still

LEMMA StillMoved ==
    ASSUME TypeOK, Still, loop' = Down => loop = Down, NEW n \in DOMAIN tasks,
           Hold(n) \/ \E q : MoveTo(n, q)
    PROVE  Still'
<1>1. import' = Stirred(n)
  BY DEF Hold, MoveTo
<1>2. \A m \in DOMAIN tasks \ {n} : tasks'[m] = tasks[m]
  BY DEF Hold, MoveTo
<1> QED
  BY <1>1, <1>2, StillStirred

(* A request begins with every queue ahead of it.                          *)
LEMMA StillOpened ==
    ASSUME TypeOK, Still, NEW a \in Threads, NEW i \in Issues, ImportOpen(a, i)
    PROVE  Still'
<1>1. /\ loop # Down /\ loop' = loop /\ tasks' = tasks
      /\ \A b \in Threads \ {a} : import'[b] = import[b]
  BY DEF ImportOpen, TypeOK
<1>2. PICK known : import'[a] =
         Import("looking", i, 0, known, {n \in TasksFor(i) : Matches(n, i) /\ Visible(n)})
  BY DEF ImportOpen, TypeOK
<1>3. /\ import'[a].issue = i /\ import'[a].looked = 0
      /\ import'[a].still = {n \in TasksFor(i) : Matches(n, i) /\ Visible(n)}
  BY <1>2 DEF Import
<1>4. ASSUME NEW n \in import'[a].still PROVE Ahead(a, n)'
  <2>1. /\ n \in DOMAIN tasks /\ tasks[n].issue = i /\ Matches(n, i)
        /\ ~tasks[n].held /\ tasks[n].at # Nowhere
    BY <1>3, <1>4 DEF TasksFor, Visible
  <2>2. PICK k \in DOMAIN QueueOrder : tasks[n].at = QueueOrder[k]
    BY <2>1, TasksTyped DEF Places
  <2>3. k \in 0 + 1 .. Len(QueueOrder)
    BY DEF QueueOrder
  <2> QED
    BY <1>1, <1>3, <2>1, <2>2, <2>3 DEF Ahead, Matches, KeyOf
<1>5. ASSUME NEW b \in Threads \ {a}, import'[b] # NoImport, NEW n \in import'[b].still
      PROVE  Ahead(b, n)'
  <2>1. import'[b] = import[b] /\ tasks' = tasks /\ Ahead(b, n)
    BY <1>1, <1>5 DEF Still
  <2> QED
    BY <2>1 DEF Ahead, Matches, KeyOf
<1> QED
  BY <1>1, <1>4, <1>5 DEF Still

(* A queue in which nothing was found has none of the tasks ahead.         *)
LEMMA StillLooked ==
    ASSUME TypeOK, Still, NEW a \in Threads, ImportLook(a)
    PROVE  Still'
<1>1. /\ loop' = loop /\ tasks' = tasks /\ import[a].stage = "looking"
      /\ \A b \in Threads \ {a} : import'[b] = import[b]
  BY DEF ImportLook, TypeOK
<1>2. import[a] # NoImport
  BY <1>1 DEF NoImport
<1>3. import[a].looked \in 0 .. Len(QueueOrder) - 1 /\ Len(QueueOrder) = 5
  BY <1>1, Requests DEF NoImport, QueueOrder
<1>4. loop # Down
  BY <1>2 DEF Still
<1>5. CASE import'[a] = NoImport
  <2>1. \A b \in Threads : import'[b] = import[b] \/ import'[b] = NoImport
    BY <1>1, <1>5
  <2> QED
    BY <1>1, <2>1, StillKept
<1>6. CASE import'[a] # NoImport
  <2>1. ~\E t \in TasksFor(import[a].issue) :
           /\ Lies(t, QueueOrder[import[a].looked + 1])
           /\ Matches(t, import[a].issue)
    BY <1>6 DEF ImportLook, TypeOK
  <2>2. /\ import'[a].issue = import[a].issue /\ import'[a].still = import[a].still
        /\ import'[a].looked = import[a].looked + 1
    <3>1. import'[a] = [import[a] EXCEPT !.looked = import[a].looked + 1,
                          !.stage = IF import[a].looked + 1 = Len(QueueOrder)
                                    THEN "labelling" ELSE "looking"]
      BY <1>6 DEF ImportLook, TypeOK
    <3>2. import[a] \in [stage : {"looking"}, issue : Issues,
                         looked : 0 .. Len(QueueOrder) - 1,
                         known : SUBSET DOMAIN tasks, still : SUBSET DOMAIN tasks]
      BY <1>1, Requests
    <3> QED
      BY <3>1, <3>2
  <2>3. ASSUME NEW n \in import[a].still PROVE Ahead(a, n)'
    <3>1. n \in DOMAIN tasks /\ Ahead(a, n)
      BY <1>2, <2>3, StillInTasks DEF Still
    <3>2. PICK k \in import[a].looked + 1 .. Len(QueueOrder) : tasks[n].at = QueueOrder[k]
      BY <3>1 DEF Ahead
    <3>3. k # import[a].looked + 1
      BY <2>1, <3>1, <3>2 DEF Ahead, TasksFor, Lies
    <3>4. k \in (import[a].looked + 1) + 1 .. Len(QueueOrder)
      BY <1>3, <3>2, <3>3
    <3> QED
      BY <1>1, <2>2, <3>1, <3>2, <3>4 DEF Ahead, Matches, KeyOf
  <2>4. ASSUME NEW b \in Threads \ {a}, import'[b] # NoImport, NEW n \in import'[b].still
        PROVE  Ahead(b, n)'
    <3>1. import'[b] = import[b] /\ tasks' = tasks /\ Ahead(b, n)
      BY <1>1, <2>4 DEF Still
    <3> QED
      BY <3>1 DEF Ahead, Matches, KeyOf
  <2> QED
    BY <1>1, <1>4, <2>2, <2>3, <2>4 DEF Still
<1> QED
  BY <1>5, <1>6

LEMMA StillLabelled ==
    ASSUME TypeOK, Still, NEW a \in Threads, ImportLabel(a)
    PROVE  Still'
<1>1. /\ loop' = loop /\ tasks' = tasks /\ import[a].stage = "labelling"
      /\ \A b \in Threads \ {a} : import'[b] = import[b]
      /\ import'[a] = [import[a] EXCEPT !.stage = "putting"]
  BY DEF ImportLabel, TypeOK
<1>2. import[a] # NoImport
  BY <1>1 DEF NoImport
<1>3. import[a] \in [stage : {"labelling", "putting"}, issue : Issues,
                     looked : {Len(QueueOrder)},
                     known : SUBSET DOMAIN tasks, still : SUBSET DOMAIN tasks]
  BY <1>1, Requests
<1>4. /\ import'[a].issue = import[a].issue /\ import'[a].still = import[a].still
      /\ import'[a].looked = import[a].looked
  BY <1>1, <1>3
<1>5. ASSUME NEW n \in import'[a].still PROVE Ahead(a, n)'
  <2>1. Ahead(a, n)
    BY <1>2, <1>4, <1>5 DEF Still
  <2> QED
    BY <1>1, <1>4, <2>1 DEF Ahead, Matches, KeyOf
<1>6. ASSUME NEW b \in Threads \ {a}, import'[b] # NoImport, NEW n \in import'[b].still
      PROVE  Ahead(b, n)'
  <2>1. import'[b] = import[b] /\ tasks' = tasks /\ Ahead(b, n)
    BY <1>1, <1>6 DEF Still
  <2> QED
    BY <2>1 DEF Ahead, Matches, KeyOf
<1>7. loop # Down
  BY <1>2 DEF Still
<1> QED
  BY <1>1, <1>5, <1>6, <1>7 DEF Still

LEMMA StillStep == TypeOK /\ Still /\ [Next]_vars => Still'
<1>0. SUFFICES ASSUME TypeOK, Still, [Next]_vars PROVE Still'
  OBVIOUS
<1>1. CASE UNCHANGED vars
  BY <1>0, <1>1, StillKept DEF vars
<1>2. ASSUME NEW i \in Issues, Want(i) \/ IndexCatchesUp(i) PROVE Still'
  BY <1>0, <1>2, StillKept DEF Want, IndexCatchesUp
<1>3. ASSUME UNCHANGED <<tasks, import>>, loop' # Down PROVE Still'
  BY <1>0, <1>3, StillKept
<1>4. CASE PollList \/ PollAdd \/ PollRaises
  <2>1. UNCHANGED <<tasks, import>>
    BY <1>4 DEF PollList, PollAdd, PollRaises
  <2>2. loop' # Down
    BY <1>4 DEF PollList, PollAdd, PollRaises, Polling, Putting, Free, Down
  <2> QED
    BY <1>3, <2>1, <2>2
<1>5. ASSUME NEW i \in Issues, PollRemove(i) PROVE Still'
  <2>1. loop'.stage = "polling"
    BY <1>0, <1>5, Stages DEF PollRemove, PollClaims
  <2> QED
    BY <1>3, <1>5, <2>1 DEF PollRemove, Down
<1>6. ASSUME NEW i \in Issues, PollDrop(i) PROVE Still'
  BY <1>3, <1>6 DEF PollDrop, AfterPut, Free, Putting, Down
<1>7. ASSUME NEW i \in Issues, PollPut(i) PROVE Still'
  <2>1. loop' # Down /\ import' = import
    BY <1>7 DEF PollPut, AfterPut, Free, Putting, Down
  <2>2. \A m \in DOMAIN tasks : tasks'[m] = tasks[m]
    BY <1>0, <1>7, Added DEF PollPut
  <2> QED
    BY <1>0, <2>1, <2>2, StillKept
<1>8. CASE TellStep
  <2>1. UNCHANGED <<tasks, import>>
    BY <1>8 DEF TellStep, TellRemove, ClearLabels, TellAdd, TellRaises
  <2>2. loop' = Free \/ TellRemove
    BY <1>8 DEF TellStep, TellAdd, TellRaises
  <2>3. ASSUME TellRemove PROVE loop'.stage = "telling"
    <3>1. loop \in [stage : {"telling"}, task : DOMAIN tasks,
                    target : Managed, cleared : BOOLEAN]
      BY <1>0, <2>3, Stages DEF TellRemove, ClearLabels
    <3>2. loop' = [loop EXCEPT !.cleared = TRUE]
      BY <2>3 DEF TellRemove, ClearLabels
    <3> QED
      BY <3>1, <3>2
  <2> QED
    BY <1>3, <2>1, <2>2, <2>3 DEF Free, Down
<1>9. ASSUME NEW n \in DOMAIN tasks,
             Dispatch(n) \/ Consume(n) \/ BehaviorReturns(n) \/ Heal(n) \/ Retire(n)
               \/ SendBack(n) \/ Delete(n)
      PROVE  Still'
  <2>1. Hold(n) \/ \E q : MoveTo(n, q)
    <3>1. CASE Consume(n)
      BY <3>1 DEF Consume
    <3>2. CASE Dispatch(n)
      BY <3>2 DEF Dispatch
    <3>3. CASE BehaviorReturns(n)
      BY <3>3 DEF BehaviorReturns
    <3> QED
      BY <1>9, <3>1, <3>2, <3>3 DEF Heal, Retire, SendBack, Delete
  <2>2. loop' = loop \/ loop' = Free \/ loop'.stage = "telling"
    <3>1. \A l : Tell(n, l) => loop'.stage = "telling"
      BY DEF Tell, Telling
    <3>2. CASE Dispatch(n)
      BY <3>1, <3>2 DEF Dispatch, TellNothing
    <3>3. CASE BehaviorReturns(n)
      BY <3>1, <3>3 DEF BehaviorReturns, TellNothing
    <3> QED
      BY <1>9, <3>2, <3>3
         DEF Consume, Heal, Retire, TellNothing, SendBack, Delete, Operator
  <2>3. loop' = Down => loop = Down
    BY <2>2 DEF Free, Down
  <2> QED
    BY <1>0, <2>1, <2>3, StillMoved
<1>10. ASSUME NEW a \in Threads, NEW i \in Issues, ImportOpen(a, i) PROVE Still'
  BY <1>0, <1>10, StillOpened
<1>11. ASSUME NEW a \in Threads, ImportLook(a) \/ ImportLabel(a) PROVE Still'
  BY <1>0, <1>11, StillLooked, StillLabelled
<1>12. ASSUME NEW a \in Threads, ImportPut(a) PROVE Still'
  <2>1. import[a] # NoImport
    BY <1>12 DEF ImportPut, NoImport
  <2>2. import[a].issue \in Issues
    BY <1>0, <1>12, Requests DEF ImportPut
  <2>3. \A m \in DOMAIN tasks : tasks'[m] = tasks[m]
    BY <1>0, <1>12, <2>2, Added DEF ImportPut
  <2>4. /\ loop' = loop
        /\ \A b \in Threads : import'[b] = import[b] \/ import'[b] = NoImport
    BY <1>0, <1>12 DEF ImportPut, TypeOK
  <2> QED
    BY <1>0, <2>3, <2>4, StillKept
<1>13. CASE Crash
  BY <1>13 DEF Crash, Still
<1>14. CASE Start
  <2>1. \A a \in Threads : import'[a] = NoImport
    BY <1>0, <1>14 DEF Start, Still
  <2> QED
    BY <2>1 DEF Still
<1> QED
  BY <1>0, <1>1, <1>2, <1>4, <1>5, <1>6, <1>7, <1>8, <1>9, <1>10, <1>11, <1>12,
     <1>13, <1>14 DEF Next, LoopStep, PollStep, ImportStep

(* add() of drivers/github_issue_import.py looks through the queues one    *)
(* after another while tasks move between them: it may miss a task that    *)
(* moves, but it never puts a task beside one that lay still all the while. *)
THEOREM ImportFindsRestingHolds == Spec => ImportFindsResting
<1>1. Init => Still
  BY DEF Init, Still
<1>2. TypeOK /\ Still => \A a \in Threads : ImportPut(a) => import[a].still = {}
  <2> SUFFICES ASSUME TypeOK, Still, NEW a \in Threads, import[a].stage = "putting"
               PROVE  import[a].still = {}
    BY DEF ImportPut
  <2>1. import[a] # NoImport
    BY DEF NoImport
  <2>2. import[a].looked = 5 /\ Len(QueueOrder) = 5
    BY Requests DEF QueueOrder
  <2>3. \A n \in import[a].still : Ahead(a, n)
    BY <2>1 DEF Still
  <2>4. import[a].looked + 1 .. Len(QueueOrder) = {}
    BY <2>2
  <2> QED
    BY <2>3, <2>4 DEF Ahead
<1>3. TypeOK /\ Still => [\A a \in Threads : ImportPut(a) => import[a].still = {}]_vars
  BY <1>2
<1>4. TypeOK /\ Still /\ [Next]_vars => Still'
  BY StillStep
<1> QED
  BY <1>1, <1>3, <1>4, TypeCorrect, PTL DEF Spec, ImportFindsResting

=============================================================================
