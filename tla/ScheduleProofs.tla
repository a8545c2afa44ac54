--------------------------- MODULE ScheduleProofs ---------------------------
(***************************************************************************)
(* What the keys of scheduled tasks guarantee, for any processes, cadences *)
(* and conditions, and any number of changes, stops and troubles; and that *)
(* an occurrence is the newest minute its expression names.                *)
(***************************************************************************)
EXTENDS Schedule, TLAPS, FiniteSetTheorems, WellFoundedInduction

Occurrences == {NoOccurrence} \cup {OccurrenceOf[p][t] : p \in Processes, t \in Instants}

KeySet == [process : Processes, occurrence : Occurrences,
           found : Conditions \cup {None}]

(* Every task of the world, and that its key is the one its process gives. *)
TaskSet == [key : KeySet, found : Conditions \cup {None}, place : Places]
PerInterval(p) == Definition[p].dedup = "per-interval"
KeyFits(x) == ~PerInterval(x.key.process) => x.key.found = x.found

Shapes ==
    /\ now \in Instants /\ up \in BOOLEAN
    /\ standing \in [Processes -> SUBSET Conditions]
    /\ \A p \in Processes : IsFiniteSet(standing[p])
    /\ last \in [Processes -> Occurrences]
    /\ seen \in [Processes -> SUBSET KeySet]
    /\ batch \in Seq(TaskSet) /\ tasks \in Seq(TaskSet)
    /\ \A n \in DOMAIN tasks : KeyFits(tasks[n])
    /\ owed \in [Processes -> SUBSET TaskSet]

(* A running poller knows the key of every task a start would read, and of  *)
(* no task that there never was.                                            *)
SeenCovers ==
    up => /\ \A n \in DOMAIN tasks :
                tasks[n].place = "kept" => tasks[n].key \in seen[tasks[n].key.process]
          /\ \A p \in Processes : \A key \in seen[p] :
                \E n \in DOMAIN tasks : tasks[n].key = key

(* What is owed bears the key of the last occurrence, and is put already or *)
(* still to be put.                                                         *)
Tasked(p, x) ==
    \E n \in DOMAIN tasks :
        /\ tasks[n].key.process = p
        /\ IF PerInterval(p) THEN tasks[n].key.occurrence = last[p]
           ELSE tasks[n].found = x.found
Batched(x) == \E n \in DOMAIN batch : batch[n] = x
Owing ==
    \A p \in Processes : \A x \in owed[p] :
        /\ x.key.process = p /\ KeyFits(x)
        /\ PerInterval(p) => x.key.occurrence = last[p]
        /\ up => Batched(x) \/ Tasked(p, x)

(* A process that is gone owes nothing.                                    *)
OwesNone == ~up => \A p \in Processes : owed[p] = {}

(* What a tick is still to put is owed.                                    *)
BatchOwed ==
    \A n \in DOMAIN batch : batch[n] \in owed[batch[n].key.process]

IInv == Shapes /\ SeenCovers /\ OneTaskPerKey /\ Owing /\ OwesNone /\ BatchOwed

-----------------------------------------------------------------------------

LEMMA Initially == Init => IInv
<1> SUFFICES ASSUME Init PROVE IInv
  OBVIOUS
<1>1. /\ \A p \in Processes : standing[p] = {} /\ seen[p] = {} /\ owed[p] = {}
      /\ batch = <<>> /\ tasks = <<>> /\ DOMAIN tasks = {} /\ DOMAIN batch = {}
  BY DEF Init
<1>2. IsFiniteSet({})
  BY FS_EmptySet
<1>3. Shapes
  BY <1>1, <1>2 DEF Init, Shapes, Occurrences
<1> QED
  BY <1>1, <1>3 DEF IInv, SeenCovers, OneTaskPerKey, Owing, OwesNone, BatchOwed

(* A check lists what it found: a sequence of conditions, or nothing by name. *)
LEMMA Evaluated ==
    ASSUME Shapes, NEW p \in Processes, NEW found \in Evaluations(p)
    PROVE  found \in Seq(Conditions \cup {None})
<1>1. CASE Definition[p].always
  <2>1. found = <<None>>
    BY <1>1 DEF Evaluations
  <2> HIDE DEF Evaluations
  <2> QED
    BY <2>1
<1>2. CASE found \in Listings(standing[p])
  <2>1. Cardinality(standing[p]) \in Nat
    BY FS_CardinalityType DEF Shapes
  <2>2. found \in [1 .. Cardinality(standing[p]) -> Conditions \cup {None}]
    BY <1>2 DEF Listings, Shapes
  <2> HIDE DEF Evaluations
  <2> QED
    BY <2>1, <2>2
<1>3. CASE found = <<>>
  BY <1>3
<1> QED
  BY <1>1, <1>2, <1>3 DEF Evaluations

(* The tasks of a tick are of its process and its occurrence.              *)
LEMMA PolledBatch ==
    ASSUME Shapes, NEW p \in Processes, NEW found \in Seq(Conditions \cup {None}),
           NEW o \in Occurrences,
           NEW tick, tick = [n \in DOMAIN found |-> Task(p, o, found[n])]
    PROVE  /\ tick \in Seq(TaskSet) /\ DOMAIN tick = DOMAIN found
           /\ \A n \in DOMAIN tick :
                 /\ tick[n].key.process = p /\ KeyFits(tick[n])
                 /\ PerInterval(p) => tick[n].key.occurrence = o
<1>1. ASSUME NEW n \in DOMAIN found
      PROVE  /\ Task(p, o, found[n]) \in TaskSet
             /\ Task(p, o, found[n]).key.process = p
             /\ KeyFits(Task(p, o, found[n]))
             /\ PerInterval(p) => Task(p, o, found[n]).key.occurrence = o
  <2>1. found[n] \in Conditions \cup {None}
    OBVIOUS
  <2>2. NoOccurrence \in Occurrences
    BY DEF Occurrences
  <2>3. Key(p, o, found[n]) \in KeySet
    BY <2>1, <2>2 DEF Key, KeySet
  <2>4. /\ Key(p, o, found[n]).process = p
        /\ PerInterval(p) => Key(p, o, found[n]).occurrence = o
        /\ ~PerInterval(p) => Key(p, o, found[n]).found = found[n]
    BY DEF Key, PerInterval
  <2> QED
    BY <2>1, <2>3, <2>4 DEF Task, TaskSet, Places, KeyFits
<1>2. found \in [1 .. Len(found) -> Conditions \cup {None}] /\ Len(found) \in Nat
  OBVIOUS
<1>3. tick \in [1 .. Len(found) -> TaskSet]
  BY <1>1, <1>2
<1>4. tick \in Seq(TaskSet)
  BY <1>2, <1>3
<1> QED
  BY <1>1, <1>4

(* What leaves the tasks and the memory alone.                             *)
LEMMA SameMemory ==
    ASSUME IInv, UNCHANGED <<up, last, seen, batch, tasks, owed>>, Shapes'
    PROVE  IInv'
BY DEF IInv, SeenCovers, OneTaskPerKey, Owing, OwesNone, BatchOwed, Batched, Tasked

(* A tick that asks its check: nothing is waiting to be put.               *)
LEMMA Ticks ==
    ASSUME IInv, NEW p \in Processes, Occurs(p),
           UNCHANGED <<now, standing, up, seen, tasks>>,
           \/ \E found \in Evaluations(p) :
                 /\ batch' = [n \in DOMAIN found |-> Task(p, OccurrenceOf[p][now], found[n])]
                 /\ owed' = [owed EXCEPT ![p] = {batch'[n] : n \in DOMAIN found}]
           \/ batch' = batch /\ owed' = [owed EXCEPT ![p] = {}]
    PROVE  IInv'
<1>1. /\ OccurrenceOf[p][now] \in Occurrences /\ batch = <<>> /\ up
      /\ last' = [last EXCEPT ![p] = OccurrenceOf[p][now]]
  BY DEF Occurs, IInv, Shapes, Occurrences
<1> DEFINE Batch ==
        /\ batch' \in Seq(TaskSet)
        /\ owed' = [owed EXCEPT ![p] = {batch'[n] : n \in DOMAIN batch'}]
        /\ \A n \in DOMAIN batch' :
              /\ batch'[n].key.process = p /\ KeyFits(batch'[n])
              /\ PerInterval(p) => batch'[n].key.occurrence = OccurrenceOf[p][now]
<1>2. Batch
  <2>1. CASE batch' = batch /\ owed' = [owed EXCEPT ![p] = {}]
    <3>1. batch' = <<>> /\ DOMAIN batch' = {}
      BY <1>1, <2>1
    <3>2. {batch'[n] : n \in DOMAIN batch'} = {}
      BY <3>1
    <3>3. owed' = [owed EXCEPT ![p] = {batch'[n] : n \in DOMAIN batch'}]
      BY <2>1, <3>2
    <3>4. batch' \in Seq(TaskSet)
      BY <3>1
    <3> QED
      BY <3>1, <3>3, <3>4
  <2>2. ASSUME NEW found \in Evaluations(p),
               batch' = [n \in DOMAIN found |-> Task(p, OccurrenceOf[p][now], found[n])],
               owed' = [owed EXCEPT ![p] = {batch'[n] : n \in DOMAIN found}]
        PROVE  Batch
    <3>1. found \in Seq(Conditions \cup {None})
      BY Evaluated DEF IInv
    <3> QED
      <4>1. /\ batch' \in Seq(TaskSet) /\ DOMAIN batch' = DOMAIN found
            /\ \A n \in DOMAIN batch' :
                  /\ batch'[n].key.process = p /\ KeyFits(batch'[n])
                  /\ PerInterval(p) => batch'[n].key.occurrence = OccurrenceOf[p][now]
        BY <1>1, <2>2, <3>1, PolledBatch, SMTT(30) DEF IInv
      <4> QED
        BY <2>2, <4>1
  <2> QED
    BY <2>1, <2>2
<1>3. owed' \in [Processes -> SUBSET TaskSet]
  <2>1. {batch'[n] : n \in DOMAIN batch'} \subseteq TaskSet
    BY <1>2
  <2> QED
    BY <1>2, <2>1 DEF IInv, Shapes
<1>4. Shapes'
  BY <1>1, <1>2, <1>3 DEF IInv, Shapes
<1>5. SeenCovers' /\ OneTaskPerKey'
  BY DEF IInv, SeenCovers, OneTaskPerKey
<1>6. Owing'
  <2>1. ASSUME NEW q \in Processes, NEW x \in owed'[q]
        PROVE  /\ x.key.process = q /\ KeyFits(x)
               /\ PerInterval(q) => x.key.occurrence = last'[q]
               /\ Batched(x)' \/ Tasked(q, x)'
    <3>1. CASE q = p
      BY <1>1, <1>2, <2>1, <3>1 DEF IInv, Shapes, Batched
    <3>2. CASE q # p
      <4>1. x \in owed[q] /\ last'[q] = last[q] /\ ~Batched(x)
        BY <1>1, <1>2, <2>1, <3>2 DEF IInv, Shapes, Batched
      <4>2. Tasked(q, x)
        BY <1>1, <4>1 DEF IInv, Owing
      <4> QED
        BY <4>1, <4>2 DEF IInv, Owing, Tasked
    <3> QED
      BY <3>1, <3>2
  <2> QED
    BY <2>1 DEF Owing
<1>7. BatchOwed'
  BY <1>2 DEF IInv, Shapes, BatchOwed
<1> QED
  BY <1>1, <1>4, <1>5, <1>6, <1>7 DEF IInv, OwesNone

(* A task of the batch is put, or its key is known: then there is one.     *)
LEMMA Puts == ASSUME IInv, Ingest PROVE IInv'
<1>0. PICK x, p : x = Head(batch) /\ p = x.key.process
  OBVIOUS
<1>1. /\ up /\ batch # <<>> /\ batch' = Tail(batch)
      /\ UNCHANGED <<now, standing, up, last, owed>>
      /\ \/ x.key \in seen[p] /\ UNCHANGED <<seen, tasks>>
         \/ /\ x.key \notin seen[p]
            /\ seen' = [seen EXCEPT ![p] = @ \cup {x.key}]
            /\ tasks' = Append(tasks, x)
  BY <1>0 DEF Ingest
<1>2. /\ x \in TaskSet /\ p \in Processes
      /\ batch' \in Seq(TaskSet)
      /\ \A n \in DOMAIN batch' : n + 1 \in DOMAIN batch /\ batch'[n] = batch[n + 1]
      /\ \A n \in DOMAIN batch : batch[n] = x \/ \E k \in DOMAIN batch' : batch'[k] = batch[n]
  <2>1. x \in TaskSet
    BY <1>0, <1>1 DEF IInv, Shapes
  <2>2. /\ batch' \in Seq(TaskSet) /\ Len(batch') = Len(batch) - 1
        /\ \A n \in 1 .. Len(batch) - 1 : batch'[n] = batch[n + 1]
        /\ DOMAIN batch = 1 .. Len(batch) /\ DOMAIN batch' = 1 .. Len(batch) - 1
        /\ Len(batch) \in Nat \ {0} /\ x = batch[1]
    BY <1>0, <1>1 DEF IInv, Shapes
  <2>3. ASSUME NEW n \in DOMAIN batch, n # 1
        PROVE  n - 1 \in DOMAIN batch' /\ batch'[n - 1] = batch[n]
    BY <2>2, <2>3
  <2>4. p \in Processes
    BY <1>0, <2>1 DEF TaskSet, KeySet
  <2> QED
    BY <2>1, <2>2, <2>3, <2>4
<1>3. x \in owed[p] /\ KeyFits(x) /\ (PerInterval(p) => x.key.occurrence = last[p])
  <2>1. 1 \in DOMAIN batch /\ batch[1] = x
    BY <1>0, <1>1 DEF IInv, Shapes
  <2>2. x \in owed[p]
    BY <1>0, <2>1 DEF IInv, BatchOwed
  <2> QED
    BY <1>2, <2>2 DEF IInv, Owing
<1>4. /\ tasks' \in Seq(TaskSet)
      /\ \A n \in DOMAIN tasks : /\ n \in DOMAIN tasks' /\ tasks'[n] = tasks[n]
                                 /\ tasks[n] \in TaskSet /\ n \in Nat
      /\ \A n \in DOMAIN tasks' \ DOMAIN tasks :
            /\ tasks'[n] = x /\ x.key \notin seen[p]
            /\ DOMAIN tasks = 1 .. Len(tasks) /\ DOMAIN tasks' = 1 .. n /\ n \in Nat
  <2>1. CASE x.key \in seen[p]
    BY <1>1, <2>1 DEF IInv, Shapes
  <2>2. CASE x.key \notin seen[p]
    <3>1. tasks' = Append(tasks, x) /\ tasks \in Seq(TaskSet)
      BY <1>1, <2>2 DEF IInv, Shapes
    <3>2. /\ Len(tasks) \in Nat /\ DOMAIN tasks = 1 .. Len(tasks)
          /\ DOMAIN tasks' = 1 .. Len(tasks) + 1 /\ tasks' \in Seq(TaskSet)
          /\ tasks'[Len(tasks) + 1] = x
          /\ \A n \in 1 .. Len(tasks) : tasks'[n] = tasks[n] /\ tasks[n] \in TaskSet
      BY <1>2, <3>1
    <3> QED
      BY <2>2, <3>2
  <2> QED
    BY <2>1, <2>2
<1>5. Shapes'
  <2>1. seen' \in [Processes -> SUBSET KeySet]
    <3>1. x.key \in KeySet
      BY <1>2 DEF TaskSet
    <3>2. seen' = seen \/ seen' = [seen EXCEPT ![p] = seen[p] \cup {x.key}]
      BY <1>1
    <3> QED
      BY <1>2, <3>1, <3>2 DEF IInv, Shapes
  <2>2. \A n \in DOMAIN tasks' : KeyFits(tasks'[n])
    BY <1>3, <1>4 DEF IInv, Shapes
  <2> QED
    BY <1>1, <1>2, <1>4, <2>1, <2>2 DEF IInv, Shapes
<1>6. \E n \in DOMAIN tasks' : tasks'[n].key = x.key
  <2>1. CASE x.key \in seen[p]
    BY <1>1, <1>2, <1>4, <2>1 DEF IInv, SeenCovers
  <2>2. CASE x.key \notin seen[p]
    <3>1. tasks' = Append(tasks, x)
      BY <1>1, <2>2
    <3>2. Len(tasks) + 1 \in DOMAIN tasks' /\ tasks'[Len(tasks) + 1] = x
      BY <1>2, <3>1 DEF IInv, Shapes
    <3> QED
      BY <3>2
  <2> QED
    BY <2>1, <2>2
<1>7. SeenCovers'
  <2>1. ASSUME NEW n \in DOMAIN tasks', tasks'[n].place = "kept"
        PROVE  tasks'[n].key \in seen'[tasks'[n].key.process]
    <3>1. CASE n \in DOMAIN tasks
      <4>1. tasks[n].key \in seen[tasks[n].key.process] /\ tasks'[n] = tasks[n]
            /\ tasks[n].key.process \in Processes
        <5>1. tasks'[n] = tasks[n] /\ tasks[n] \in TaskSet
          BY <1>4, <3>1
        <5> QED
          BY <1>1, <2>1, <3>1, <5>1 DEF IInv, SeenCovers, TaskSet, KeySet
      <4> QED
        BY <1>1, <4>1 DEF IInv, Shapes
    <3>2. CASE n \notin DOMAIN tasks
      <4>1. tasks'[n] = x /\ x.key \notin seen[p]
        BY <1>4, <2>1, <3>2
      <4> QED
        BY <1>0, <1>1, <1>2, <4>1 DEF IInv, Shapes
    <3> QED
      BY <3>1, <3>2
  <2>2. ASSUME NEW q \in Processes, NEW key \in seen'[q]
        PROVE  \E n \in DOMAIN tasks' : tasks'[n].key = key
    <3>1. key \in seen[q] \/ key = x.key
      BY <1>1, <2>2 DEF IInv, Shapes
    <3>2. CASE key \in seen[q]
      BY <1>1, <1>4, <3>2 DEF IInv, SeenCovers
    <3> QED
      BY <1>6, <3>1, <3>2
  <2> QED
    BY <2>1, <2>2 DEF SeenCovers
<1>8. OneTaskPerKey'
  <2> SUFFICES ASSUME NEW n \in DOMAIN tasks', NEW k \in DOMAIN tasks',
                      n < k, tasks'[n].key = tasks'[k].key
               PROVE  tasks'[n].place = "archived"
    BY DEF OneTaskPerKey
  <2>1. n \in DOMAIN tasks /\ tasks'[n] = tasks[n] /\ tasks[n] \in TaskSet
    <3>1. CASE n \notin DOMAIN tasks
      <4>1. DOMAIN tasks' = 1 .. n /\ n \in Nat /\ k \in DOMAIN tasks'
        BY <1>4, <3>1
      <4> QED
        BY <4>1
    <3> QED
      BY <1>4, <3>1
  <2>2. CASE k \in DOMAIN tasks
    BY <1>4, <2>1, <2>2 DEF IInv, OneTaskPerKey
  <2>3. CASE k \notin DOMAIN tasks
    <3>1. tasks'[k] = x /\ x.key \notin seen[p]
      BY <1>4, <2>3
    <3>2. tasks[n].key = x.key /\ tasks[n].key \notin seen[tasks[n].key.process]
      BY <1>0, <2>1, <3>1
    <3>3. tasks[n].place # "kept"
      BY <1>1, <2>1, <3>2 DEF IInv, SeenCovers
    <3> QED
      BY <2>1, <3>3 DEF IInv, Shapes, TaskSet, Places
  <2> QED
    BY <2>2, <2>3
<1>9. Tasked(p, x)'
  <2>1. PICK n \in DOMAIN tasks' : tasks'[n].key = x.key
    BY <1>6
  <2>2. tasks'[n].key.process = p /\ KeyFits(tasks'[n])
    BY <1>0, <1>5, <2>1 DEF Shapes
  <2> QED
    BY <1>1, <1>3, <2>1, <2>2 DEF Tasked, KeyFits
<1>10. Owing'
  <2>1. ASSUME NEW q \in Processes, NEW y \in owed[q]
        PROVE  Batched(y)' \/ Tasked(q, y)'
    <3>1. y.key.process = q /\ (Batched(y) \/ Tasked(q, y))
      BY <1>1 DEF IInv, Owing
    <3>2. CASE Tasked(q, y)
      BY <1>1, <1>4, <3>2 DEF Tasked
    <3>3. CASE Batched(y)
      BY <1>0, <1>2, <1>9, <3>1, <3>3 DEF Batched
    <3> QED
      BY <3>1, <3>2, <3>3
  <2> QED
    BY <1>1, <2>1 DEF IInv, Owing
<1>11. BatchOwed'
  BY <1>1, <1>2 DEF IInv, BatchOwed
<1> QED
  BY <1>1, <1>5, <1>7, <1>8, <1>10, <1>11 DEF IInv, OwesNone

(* Archiving only changes where one task lies.                             *)
LEMMA Archives ==
    ASSUME IInv, NEW n \in DOMAIN tasks, Archive(n) PROVE IInv'
<1>1. /\ tasks' \in Seq(TaskSet) /\ DOMAIN tasks' = DOMAIN tasks
      /\ \A k \in DOMAIN tasks : /\ tasks'[k].key = tasks[k].key
                                 /\ tasks'[k].found = tasks[k].found
                                 /\ tasks'[k].place \in {tasks[k].place, "archived"}
  <2>1. tasks[n] \in TaskSet /\ "archived" \in Places
    BY DEF IInv, Shapes, Places
  <2>2. [tasks[n] EXCEPT !.place = "archived"] \in TaskSet
    BY <2>1 DEF TaskSet
  <2>3. tasks' = [tasks EXCEPT ![n] = [tasks[n] EXCEPT !.place = "archived"]]
    BY DEF Archive
  <2>4. tasks' \in Seq(TaskSet) /\ DOMAIN tasks' = DOMAIN tasks
    BY <2>2, <2>3 DEF IInv, Shapes
  <2> QED
    BY <2>1, <2>3, <2>4 DEF TaskSet
<1>2. Shapes'
  BY <1>1 DEF Archive, memory, IInv, Shapes, KeyFits
<1>3. SeenCovers'
  BY <1>1 DEF Archive, memory, IInv, SeenCovers, Shapes, TaskSet, Places
<1>4. OneTaskPerKey'
  BY <1>1 DEF IInv, OneTaskPerKey
<1>5. Owing'
  BY <1>1 DEF Archive, memory, IInv, Owing, Batched, Tasked
<1>6. BatchOwed'
  BY DEF Archive, memory, IInv, BatchOwed
<1> QED
  BY <1>2, <1>3, <1>4, <1>5, <1>6 DEF Archive, IInv, OwesNone

LEMMA Step == IInv /\ [Next]_vars => IInv'
<1> SUFFICES ASSUME IInv, [Next]_vars PROVE IInv'
  OBVIOUS
<1>1. CASE Pass \/ SetBack
  BY <1>1, SameMemory DEF Pass, SetBack, memory, IInv, Shapes
<1>2. ASSUME NEW p \in Processes, Change(p) PROVE IInv'
  <2>1. PICK c \in Conditions :
           standing' = [standing EXCEPT
                           ![p] = IF c \in @ THEN @ \ {c} ELSE @ \cup {c}]
    BY <1>2 DEF Change
  <2>2. /\ IsFiniteSet(standing[p] \ {c}) /\ IsFiniteSet(standing[p] \cup {c})
    BY FS_RemoveElement, FS_AddElement DEF IInv, Shapes
  <2>3. Shapes'
    BY <1>2, <2>1, <2>2 DEF Change, memory, IInv, Shapes
  <2> QED
    BY <1>2, <2>3, SameMemory DEF Change, memory
<1>3. ASSUME NEW n \in DOMAIN tasks, Archive(n) PROVE IInv'
  BY <1>3, Archives
<1>4. ASSUME NEW p \in Processes, Poll(p) \/ PollKeyless(p) \/ PollRaises(p)
      PROVE  IInv'
  <2>1. CASE Poll(p)
    BY <2>1, Ticks DEF Poll
  <2>2. CASE PollKeyless(p)
    BY <2>2, Ticks DEF PollKeyless
  <2>3. CASE PollRaises(p)
    <3>1. batch' = batch
      BY <2>3 DEF PollRaises, Occurs
    <3> QED
      BY <2>3, <3>1, Ticks DEF PollRaises
  <2> QED
    BY <1>4, <2>1, <2>2, <2>3
<1>5. CASE Ingest
  BY <1>5, Puts
<1>6. CASE Stop
  <2>1. /\ batch' = <<>> /\ ~up' /\ UNCHANGED <<now, standing, tasks>>
        /\ \A p \in Processes : seen'[p] = {} /\ owed'[p] = {}
    BY <1>6 DEF Stop
  <2>2. Shapes'
    <3>1. last' = [p \in Processes |-> NoOccurrence] /\ NoOccurrence \in Occurrences
      BY <1>6 DEF Stop, Occurrences
    <3>2. seen' = [p \in Processes |-> {}] /\ owed' = [p \in Processes |-> {}]
      BY <1>6 DEF Stop
    <3>3. batch' \in Seq(TaskSet)
      BY <2>1
    <3>4. /\ last' \in [Processes -> Occurrences] /\ seen' \in [Processes -> SUBSET KeySet]
          /\ owed' \in [Processes -> SUBSET TaskSet]
      BY <3>1, <3>2
    <3> QED
      BY <1>6, <2>1, <3>3, <3>4 DEF Stop, IInv, Shapes
  <2> QED
    BY <2>1, <2>2 DEF IInv, SeenCovers, OneTaskPerKey, Owing, OwesNone, BatchOwed
<1>7. CASE Start
  <2>1. /\ UNCHANGED <<now, standing, last, batch, tasks, owed>> /\ up'
        /\ seen' = [p \in Processes |-> KeysOf(p, Seeding)]
        /\ \A p \in Processes : owed[p] = {}
    BY <1>7 DEF Start, IInv, OwesNone
  <2>2. ASSUME NEW n \in DOMAIN tasks PROVE tasks[n] \in TaskSet
    BY <2>2 DEF IInv, Shapes
  <2>3. \A p \in Processes :
           KeysOf(p, Seeding) \subseteq KeySet
    BY <2>2 DEF KeysOf, TaskSet
  <2>4. Shapes'
    BY <2>1, <2>3 DEF IInv, Shapes
  <2>5. SeenCovers'
    BY <2>1, <2>2 DEF SeenCovers, KeysOf, Seeding, TaskSet, KeySet
  <2> QED
    BY <2>1, <2>4, <2>5 DEF IInv, OneTaskPerKey, Owing, OwesNone, BatchOwed
<1>8. CASE UNCHANGED vars
  BY <1>8, SameMemory DEF vars, memory, IInv, Shapes
<1> QED
  BY <1>1, <1>2, <1>3, <1>4, <1>5, <1>6, <1>7, <1>8 DEF Next

(* One task for an occurrence, or for a condition, over stops, archives, a  *)
(* clock that goes back and checks that fail (ScheduledTrigger.poll,        *)
(* _dedup_key, SourcePoller.seed, tick).                                    *)
THEOREM OneTaskPerKeyHolds == Spec => []OneTaskPerKey
<1>1. IInv => OneTaskPerKey
  BY DEF IInv
<1> QED
  BY <1>1, Initially, Step, PTL DEF Spec

(* What a check returned is not lost while the harness lives                *)
(* (SourcePoller.tick, _task_for).                                          *)
THEOREM ReturnedIsTaskedHolds == Spec => []ReturnedIsTasked
<1>1. IInv => ReturnedIsTasked
  <2> SUFFICES ASSUME IInv, up, batch = <<>>, NEW p \in Processes, NEW x \in owed[p]
               PROVE  Tasked(p, x)
    BY DEF ReturnedIsTasked, Tasked, PerInterval
  <2>1. ~Batched(x)
    BY DEF Batched
  <2> QED
    BY <2>1 DEF IInv, Owing
<1> QED
  BY <1>1, Initially, Step, PTL DEF Spec

-----------------------------------------------------------------------------
(* The occurrence an instant belongs to.                                    *)

LEMMA Least ==
    ASSUME NEW T \in SUBSET Nat, T # {}
    PROVE  \E x \in T : \A y \in T : x <= y
<1>1. PICK x \in T : \A y \in T : <<y, x>> \notin OpToRel(<, Nat)
  BY NatLessThanWellFounded, WFMin
<1>2. ASSUME NEW y \in T PROVE x <= y
  <2>1. <<y, x>> \notin {ss \in Nat \X Nat : ss[1] < ss[2]}
    BY <1>1 DEF OpToRel
  <2>2. <<y, x>> \in Nat \X Nat
    OBVIOUS
  <2>3. ~(y < x)
    BY <2>1, <2>2
  <2> QED
    BY <2>3
<1> QED
  BY <1>2

LEMMA MinIs ==
    ASSUME NEW T \in SUBSET Nat, T # {}
    PROVE  Min(T) \in T /\ \A y \in T : Min(T) <= y
BY Least DEF Min

LEMMA MaxIs ==
    ASSUME NEW T \in SUBSET Nat, T # {}, NEW b \in Nat, \A x \in T : x <= b
    PROVE  Max(T) \in T /\ \A y \in T : y <= Max(T)
<1> DEFINE D == {b - x : x \in T}
<1>1. D \in SUBSET Nat /\ D # {}
  <2>1. \A x \in T : b - x \in Nat
    OBVIOUS
  <2>2. D # {}
    OBVIOUS
  <2> QED
    BY <2>1, <2>2
<1>2. PICK d \in D : \A e \in D : d <= e
  BY <1>1, Least
<1>3. PICK x \in T : d = b - x
  OBVIOUS
<1>4. ASSUME NEW y \in T PROVE x >= y
  <2>1. b - x <= b - y
    BY <1>2, <1>3
  <2> QED
    BY <2>1
<1>5. \E z \in T : \A y \in T : z >= y
  BY <1>4
<1>6. Max(T) \in T /\ \A y \in T : Max(T) >= y
  BY <1>5 DEF Max
<1> QED
  BY <1>6

(* A field of an accepted expression names values within its bounds.        *)
ItemTexts == [whole : BOOLEAN, from : Nat, to : Nat, step : Nat]

LEMMA FieldBounded ==
    ASSUME NEW raw \in Seq(ItemTexts), NEW lo \in Nat, NEW hi \in Nat, FieldOK(raw, lo, hi)
    PROVE  FieldValues(raw, lo, hi) \subseteq lo .. hi
<1> SUFFICES ASSUME NEW n \in DOMAIN Items(raw), NEW v \in ItemValues(Items(raw)[n], lo, hi)
             PROVE  v \in lo .. hi
  BY DEF FieldValues
<1>1. ItemOK(Items(raw)[n], lo, hi)
  BY DEF FieldOK
<1>2. PICK b : b = Bounds(Items(raw)[n], lo, hi)
  OBVIOUS
<1>3. b.from \in Nat /\ b.to \in Nat
  <2>1. CASE raw = Star
    <3>1. Items(raw)[n] = Whole(1)
      BY <2>1 DEF Items
    <3>2. b = [Whole(1) EXCEPT !.from = lo, !.to = hi]
      BY <1>2, <3>1 DEF Bounds, Whole
    <3> QED
      BY <3>2 DEF Whole
  <2>2. CASE raw # Star
    <3>1. Items(raw)[n] \in ItemTexts
      BY <2>2 DEF Items
    <3>2. b \in ItemTexts
      BY <1>2, <3>1 DEF Bounds, ItemTexts
    <3> QED
      BY <3>2 DEF ItemTexts
  <2> QED
    BY <2>1, <2>2
<1>4. lo <= b.from /\ b.to <= hi /\ v \in b.from .. b.to
  BY <1>1, <1>2 DEF ItemOK, ItemValues
<1> QED
  BY <1>3, <1>4

Raw(p) == Definition[p].cron

LEMMA CronBounded ==
    ASSUME NEW p \in DOMAIN Schedules
    PROVE  /\ p \in Processes /\ Definition[p].byCron
           /\ Schedules[p] = ScheduleOf(Raw(p))
           /\ FieldValues(Raw(p)[1], 0, 59) \subseteq 0 .. 59
           /\ FieldValues(Raw(p)[2], 0, 23) \subseteq 0 .. 23
           /\ FieldValues(Raw(p)[5], 0, 7) \subseteq 0 .. 7
<1>1. p \in Processes /\ Definition[p].byCron /\ Schedules[p] = ScheduleOf(Raw(p))
  BY DEF Schedules, Raw
<1>2. CronOK(Raw(p))
  BY <1>1, ScheduleAssumption DEF CadenceOK, Raw
<1>3. Raw(p) \in Seq(Seq(ItemTexts)) /\ Len(Raw(p)) = 5
  BY <1>1, <1>2, CadenceAssumption DEF Raw, Fields, ItemTexts, CronOK
<1>4. /\ Raw(p)[1] \in Seq(ItemTexts) /\ Raw(p)[2] \in Seq(ItemTexts)
      /\ Raw(p)[5] \in Seq(ItemTexts)
  <2>1. PICK S : S = Seq(ItemTexts)
    OBVIOUS
  <2>4. PICK raw : raw = Raw(p)
    OBVIOUS
  <2>2. Len(raw) = 5
    BY <1>3, <2>1, <2>4
  <2>5. raw \in Seq(S)
    BY <1>3, <2>1, <2>4
  <2>3. raw[1] \in S /\ raw[2] \in S /\ raw[5] \in S
    <3>1. 1 \in 1 .. Len(raw) /\ 2 \in 1 .. Len(raw) /\ 5 \in 1 .. Len(raw)
      BY <2>2
    <3>2. \A n \in 1 .. Len(raw) : raw[n] \in S
      BY <2>5
    <3> QED
      BY <3>1, <3>2
  <2> QED
    BY <2>1, <2>3, <2>4
<1>5. /\ FieldOK(Raw(p)[1], 0, 59) /\ FieldOK(Raw(p)[2], 0, 23) /\ FieldOK(Raw(p)[5], 0, 7)
  BY <1>2 DEF CronOK
<1>6. FieldValues(Raw(p)[1], 0, 59) \subseteq 0 .. 59
  BY <1>4, <1>5, FieldBounded
<1>7. FieldValues(Raw(p)[2], 0, 23) \subseteq 0 .. 23
  BY <1>4, <1>5, FieldBounded
<1>8. FieldValues(Raw(p)[5], 0, 7) \subseteq 0 .. 7
  <2>1. Raw(p)[5] \in Seq(ItemTexts) /\ FieldOK(Raw(p)[5], 0, 7) /\ 0 \in Nat /\ 7 \in Nat
    BY <1>4, <1>5
  <2> QED
    BY <2>1, FieldBounded
<1> QED
  BY <1>1, <1>6, <1>7, <1>8

(* A minute of a day, and the day of a minute.                              *)
LEMMA DayIs ==
    ASSUME NEW d \in Nat, NEW h \in 0 .. 23, NEW m \in 0 .. 59
    PROVE  MinutesOf(d, h, m) \in Nat /\ DayOf(MinutesOf(d, h, m)) = d
<1>1. PICK r \in 0 .. 1439 : MinutesOf(d, h, m) = d * 1440 + r
  <2>1. h * 60 + m \in 0 .. 1439 /\ MinutesOf(d, h, m) = d * 1440 + (h * 60 + m)
    BY DEF MinutesOf
  <2> QED
    BY <2>1
<1> QED
  BY <1>1 DEF DayOf

LEMMA DayBounds ==
    ASSUME NEW t \in Nat
    PROVE  DayOf(t) \in Nat /\ DayOf(t) * 1440 <= t /\ t < (DayOf(t) + 1) * 1440
BY DEF DayOf

(* The walk: its day is the first that has a candidate, its minute the last *)
(* candidate of that day.                                                   *)
LEMMA Walked ==
    ASSUME NEW p \in DOMAIN Schedules, NEW t \in Instants,
           OccurrenceAtOrBefore(Schedules[p], t) # NoOccurrence,
           NEW s, s = Schedules[p], NEW o, o = OccurrenceAtOrBefore(s, t)
    PROVE  \E n \in 0 .. LookbackDays - 1 :
              /\ o \in Candidates(DayOf(t) - n, s, t)
              /\ DayMatches(DayOf(t) - n, s)
              /\ \A c \in Candidates(DayOf(t) - n, s, t) : c <= o
              /\ \A k \in 0 .. n - 1 :
                    DayMatches(DayOf(t) - k, s) => Candidates(DayOf(t) - k, s, t) = {}
<1> DEFINE walk == {n \in 0 .. LookbackDays - 1 :
                       /\ DayMatches(DayOf(t) - n, s)
                       /\ Candidates(DayOf(t) - n, s, t) # {}}
<1>1. walk # {} /\ o = Max(Candidates(DayOf(t) - Min(walk), s, t))
  BY DEF OccurrenceAtOrBefore
<1>2. walk \in SUBSET Nat
  OBVIOUS
<1>3. PICK n : n = Min(walk)
  OBVIOUS
<1>4. n \in walk /\ \A k \in walk : n <= k
  BY <1>1, <1>2, <1>3, MinIs
<1>5. n \in 0 .. LookbackDays - 1 /\ DayMatches(DayOf(t) - n, s)
  BY <1>4
<1>6. PICK d : d = DayOf(t) - n
  OBVIOUS
<1>7. t \in Nat /\ DayOf(t) \in Nat /\ DayOf(t) >= LookbackDays
  BY ScheduleAssumption, ClockAssumption, DayBounds
<1>8. d \in Nat
  BY <1>5, <1>6, <1>7 DEF LookbackDays
<1>9. /\ Candidates(d, s, t) \in SUBSET Nat /\ Candidates(d, s, t) # {}
      /\ \A c \in Candidates(d, s, t) : c <= d * 1440 + 1439
  <2>1. s.hours \subseteq 0 .. 23 /\ s.minutes \subseteq 0 .. 59
    BY CronBounded DEF ScheduleOf, Raw
  <2>2. ASSUME NEW h \in s.hours, NEW m \in s.minutes
        PROVE  MinutesOf(d, h, m) \in Nat /\ MinutesOf(d, h, m) <= d * 1440 + 1439
    <3>1. h \in 0 .. 23 /\ m \in 0 .. 59
      BY <2>1
    <3> QED
      BY <1>8, <3>1 DEF MinutesOf
  <2>3. Candidates(d, s, t) # {}
    BY <1>4, <1>6
  <2> QED
    BY <2>2, <2>3 DEF Candidates
<1>10. o \in Candidates(d, s, t) /\ \A c \in Candidates(d, s, t) : c <= o
  <2>1. o = Max(Candidates(d, s, t))
    BY <1>1, <1>3, <1>6
  <2>2. PICK b \in Nat : b = d * 1440 + 1439
    BY <1>8
  <2> QED
    BY <1>9, <2>1, <2>2, MaxIs
<1>11. ASSUME NEW k \in 0 .. n - 1, DayMatches(DayOf(t) - k, s)
       PROVE  Candidates(DayOf(t) - k, s, t) = {}
  <2>1. k \in 0 .. LookbackDays - 1 /\ ~(n <= k)
    BY <1>5 DEF LookbackDays
  <2>2. k \notin walk
    BY <1>4, <2>1
  <2> QED
    BY <1>11, <2>1, <2>2
<1> QED
  BY <1>5, <1>6, <1>10, <1>11

(* The days the reference names are those that match.                       *)
LEMMA NamedMatches ==
    ASSUME NEW p \in DOMAIN Schedules, NEW day \in Int
    PROVE  NamesDay(day, Raw(p)) <=> DayMatches(day, Schedules[p])
<1>1. PICK s, raw : s = Schedules[p] /\ raw = Raw(p) /\ s = ScheduleOf(raw)
  BY CronBounded
<1>2. /\ s.doms = FieldValues(raw[3], 1, 31) /\ s.domIsStar = (raw[3] = Star)
      /\ s.months = FieldValues(raw[4], 1, 12)
      /\ s.dows = {Sunday(v) : v \in FieldValues(raw[5], 0, 7)}
      /\ s.dowIsStar = (raw[5] = Star)
  BY <1>1 DEF ScheduleOf
<1>3. PICK date, dow : date = Civil(day) /\ dow = (Weekday(day) + 1) % 7
  OBVIOUS
<1>4. dow \in 0 .. 6
  <2>1. Weekday(day) \in Int
    BY DEF Weekday
  <2> QED
    BY <1>3, <2>1
<1>5. dow \in s.dows <=> \/ dow \in FieldValues(raw[5], 0, 7)
                         \/ dow = 0 /\ 7 \in FieldValues(raw[5], 0, 7)
  <2>1. \A v \in FieldValues(raw[5], 0, 7) : v \in 0 .. 7
    BY <1>1, CronBounded
  <2> QED
    BY <1>2, <1>4, <2>1 DEF Sunday
<1>6. DayMatches(day, s) <=>
          /\ date.month \in s.months
          /\ IF s.domIsStar \/ s.dowIsStar
             THEN /\ s.domIsStar \/ date.dom \in s.doms
                  /\ s.dowIsStar \/ dow \in s.dows
             ELSE \/ s.domIsStar \/ date.dom \in s.doms
                  \/ s.dowIsStar \/ dow \in s.dows
  BY <1>3 DEF DayMatches
<1>7. NamesDay(day, raw) <=>
          /\ date.month \in s.months
          /\ \/ raw[3] # Star /\ date.dom \in s.doms
             \/ raw[5] # Star /\ dow \in s.dows
             \/ raw[3] = Star /\ raw[5] = Star
  BY <1>2, <1>3, <1>5 DEF NamesDay
<1> QED
  BY <1>1, <1>2, <1>6, <1>7

(* Whatever the walk finds is the newest minute that is named.              *)
LEMMA WalkedIsNewest ==
    ASSUME NEW p \in DOMAIN Schedules, NEW t \in Instants,
           OccurrenceOf[p][t] # NoOccurrence
    PROVE  IsNewest[p][t]
<1> DEFINE s == Schedules[p]
           raw == Definition[p].cron
           o == OccurrenceOf[p][t]
<1>1. s = Schedules[p] /\ raw = Raw(p) /\ o = OccurrenceOf[p][t]
  BY DEF Raw
<1> HIDE DEF s, raw, o
<1>2. /\ p \in Processes /\ s = ScheduleOf(raw)
      /\ s.hours = FieldValues(raw[2], 0, 23) /\ s.hours \subseteq 0 .. 23
      /\ s.minutes = FieldValues(raw[1], 0, 59) /\ s.minutes \subseteq 0 .. 59
  BY <1>1, CronBounded, SMTT(30) DEF ScheduleOf
<1>3. o = OccurrenceAtOrBefore(s, t) /\ o # NoOccurrence
  BY <1>1, CronBounded DEF OccurrenceOf
<1>4. PICK n \in 0 .. LookbackDays - 1 :
              /\ o \in Candidates(DayOf(t) - n, s, t)
              /\ DayMatches(DayOf(t) - n, s)
              /\ \A c \in Candidates(DayOf(t) - n, s, t) : c <= o
              /\ \A k \in 0 .. n - 1 :
                    DayMatches(DayOf(t) - k, s) => Candidates(DayOf(t) - k, s, t) = {}
  BY <1>1, <1>3, Walked
<1>5. t \in Nat /\ DayOf(t) \in Nat /\ DayOf(t) >= LookbackDays
      /\ DayOf(t) * 1440 <= t /\ t < (DayOf(t) + 1) * 1440
  BY ScheduleAssumption, ClockAssumption, DayBounds
<1>6. PICK d, e \in Nat : d = DayOf(t) - n /\ e = DayOf(t) /\ d <= e
  BY <1>5, SMTT(30) DEF LookbackDays
<1>7. PICK h \in s.hours, m \in s.minutes : o = MinutesOf(d, h, m)
  BY <1>4, <1>6 DEF Candidates
<1>8. o \in Nat /\ DayOf(o) = d
  BY <1>2, <1>6, <1>7, DayIs
<1>9. o <= t
  <2>1. CASE o <= t
    BY <2>1
  <2>2. CASE d < e
    <3>1. o < (d + 1) * 1440
      BY <1>8, DayBounds
    <3> QED
      BY <1>5, <1>6, <1>8, <2>2, <3>1
  <2> QED
    BY <1>4, <1>6, <2>1, <2>2 DEF Candidates
<1> DEFINE named == {MinutesOf(day, hour, minute) :
                        day \in {x \in DayOf(o) .. DayOf(t) : NamesDay(x, raw)},
                        hour \in FieldValues(raw[2], 0, 23),
                        minute \in FieldValues(raw[1], 0, 59)}
<1>10. ASSUME NEW x \in d .. e PROVE NamesDay(x, raw) <=> DayMatches(x, s)
  BY <1>1, <1>6, NamedMatches
<1>11. o \in named
  <2>1. d \in DayOf(o) .. DayOf(t) /\ NamesDay(d, raw)
    BY <1>4, <1>6, <1>8, <1>10
  <2> QED
    BY <1>2, <1>7, <2>1
<1>12. ASSUME NEW c \in named, c <= t PROVE c <= o
  <2>1. PICK x \in d .. e, hour \in s.hours, minute \in s.minutes :
            NamesDay(x, raw) /\ c = MinutesOf(x, hour, minute)
    BY <1>2, <1>6, <1>8
  <2>2. DayMatches(x, s) /\ c \in Candidates(x, s, t)
    BY <1>10, <1>12, <2>1 DEF Candidates
  <2>3. CASE x = d
    BY <1>4, <1>6, <2>2, <2>3
  <2>4. CASE x # d
    <3>1. PICK k \in 0 .. n - 1 : x = DayOf(t) - k
      <4>1. e - x \in 0 .. n - 1 /\ x = e - (e - x)
        BY <1>6, <2>1, <2>4
      <4> QED
        BY <1>6, <4>1
    <3> QED
      BY <1>4, <2>2, <3>1
  <2> QED
    BY <2>3, <2>4
<1> HIDE DEF named
<1>13. Newest(p, t)
  BY <1>9, <1>11, <1>12 DEF Newest, named, raw, o
<1>14. IsNewest[p] = [u \in Instants |-> Newest(p, u)]
  BY DEF IsNewest
<1> QED
  BY <1>13, <1>14

LEMMA OccurrencesAre == Occurrences \subseteq Nat \cup {NoOccurrence}
<1> SUFFICES ASSUME NEW p \in Processes, NEW t \in Instants
             PROVE  OccurrenceOf[p][t] \in Nat \cup {NoOccurrence}
  BY DEF Occurrences
<1>1. t \in Nat
  BY ScheduleAssumption
<1>2. CASE Definition[p].byCron
  <2>1. p \in DOMAIN Schedules
    BY <1>2 DEF Schedules
  <2>2. PICK s, o : s = Schedules[p] /\ o = OccurrenceAtOrBefore(s, t)
    OBVIOUS
  <2>3. OccurrenceOf[p][t] = o
    BY <1>2, <2>2 DEF OccurrenceOf
  <2>4. CASE o # NoOccurrence
    <3>1. PICK n \in 0 .. LookbackDays - 1 : o \in Candidates(DayOf(t) - n, s, t)
      BY <2>1, <2>2, <2>4, Walked
    <3>2. PICK d \in Nat : d = DayOf(t) - n
      <4>1. DayOf(t) \in Nat /\ DayOf(t) >= LookbackDays
        BY <1>1, ClockAssumption, DayBounds
      <4> QED
        BY <4>1 DEF LookbackDays
    <3>3. o \in Candidates(d, s, t)
      BY <3>1, <3>2
    <3>4. PICK h \in s.hours, m \in s.minutes : o = MinutesOf(d, h, m)
      BY <3>3 DEF Candidates
    <3>5. s.hours \subseteq 0 .. 23 /\ s.minutes \subseteq 0 .. 59
      BY <2>1, <2>2, CronBounded DEF ScheduleOf, Raw
    <3>6. h \in 0 .. 23 /\ m \in 0 .. 59
      BY <3>5
    <3>7. MinutesOf(d, h, m) \in Nat
      BY <3>6, DayIs
    <3> QED
      BY <2>3, <3>4, <3>7
  <2> QED
    BY <2>3, <2>4
<1>3. CASE ~Definition[p].byCron
  <2>1. Definition[p].interval \in Intervals /\ IntervalOK(Definition[p].interval)
    BY <1>3, ScheduleAssumption, CadenceAssumption DEF CadenceOK
  <2>2. PICK k \in Nat \ {0} : k = Seconds(Definition[p].interval)
    BY <2>1 DEF Intervals, IntervalOK, Seconds
  <2>3. OccurrenceOf[p][t] = (t * 60) \div k
    BY <1>3, <2>2 DEF OccurrenceOf, Bucket
  <2>4. PICK x \in Nat : x = t * 60
    BY <1>1
  <2>5. x \div k \in Nat
    OBVIOUS
  <2> QED
    BY <2>3, <2>4, <2>5
<1> QED
  BY <1>2, <1>3

-----------------------------------------------------------------------------
(* What a poller remembers is its own, and what its trigger fired for is    *)
(* the occurrence of the instant at which it was last asked.                *)

Remembered ==
    /\ \A p \in Processes : \A key \in seen[p] : key.process = p
    /\ ~up => batch = <<>>
    /\ changes \in 0 .. MaxChanges /\ troubles \in 0 .. MaxTroubles
    /\ polled \in [Processes -> Instants \cup {NoOccurrence}]
    /\ \A p \in Processes : \/ polled[p] = NoOccurrence
                            \/ last[p] = OccurrenceOf[p][polled[p]]

LEMMA RememberedStep == IInv /\ Remembered /\ [Next]_vars => Remembered'
<1> SUFFICES ASSUME IInv, Remembered, [Next]_vars PROVE Remembered'
  OBVIOUS
<1>0. /\ changes \in Nat /\ changes <= MaxChanges /\ MaxChanges \in Nat
      /\ troubles \in Nat /\ troubles <= MaxTroubles /\ MaxTroubles \in Nat
      /\ now \in Instants /\ last \in [Processes -> Occurrences]
      /\ seen \in [Processes -> SUBSET KeySet] /\ up \in BOOLEAN
  BY ScheduleAssumption DEF Remembered, IInv, Shapes
<1>1. ASSUME UNCHANGED <<seen, up, batch, polled, last>>,
             changes' = changes \/ (changes < MaxChanges /\ changes' = changes + 1),
             troubles' = troubles \/ (troubles < MaxTroubles /\ troubles' = troubles + 1)
      PROVE  Remembered'
  <2>1. changes' \in 0 .. MaxChanges /\ troubles' \in 0 .. MaxTroubles
    BY <1>0, <1>1
  <2> QED
    BY <1>1, <2>1 DEF Remembered
<1>2. CASE Pass \/ SetBack
  BY <1>1, <1>2 DEF Pass, SetBack, memory, counters
<1>3. ASSUME NEW p \in Processes, Change(p) PROVE Remembered'
  BY <1>1, <1>3 DEF Change, memory
<1>4. ASSUME NEW n \in DOMAIN tasks, Archive(n) PROVE Remembered'
  BY <1>1, <1>4 DEF Archive, memory, counters
<1>5. ASSUME NEW p \in Processes, Poll(p) \/ PollKeyless(p) \/ PollRaises(p)
      PROVE  Remembered'
  <2>1. Occurs(p) /\ UNCHANGED <<seen, up, changes>>
    BY <1>5 DEF Poll, PollKeyless, PollRaises, counters
  <2>2. troubles' \in 0 .. MaxTroubles /\ changes' \in 0 .. MaxChanges
    <3>1. troubles' = troubles \/ (troubles < MaxTroubles /\ troubles' = troubles + 1)
      BY <1>5 DEF Poll, PollKeyless, PollRaises, counters
    <3> QED
      BY <1>0, <2>1, <3>1
  <2>3. polled' \in [Processes -> Instants \cup {NoOccurrence}]
    BY <1>0, <2>1 DEF Occurs, Remembered
  <2>4. ASSUME NEW q \in Processes
        PROVE  polled'[q] = NoOccurrence \/ last'[q] = OccurrenceOf[q][polled'[q]]
    BY <1>0, <2>1 DEF Occurs, Remembered
  <2> QED
    BY <2>1, <2>2, <2>3, <2>4 DEF Remembered, Occurs
<1>6. CASE Ingest
  <2>1. UNCHANGED <<up, last, changes, troubles, polled>> /\ up /\ batch # <<>>
    BY <1>6 DEF Ingest, counters
  <2>2. ASSUME NEW p \in Processes, NEW key \in seen'[p] PROVE key.process = p
    <3>1. PICK task : task = Head(batch)
      OBVIOUS
    <3>2. UNCHANGED seen
          \/ seen' = [seen EXCEPT ![task.key.process] = @ \cup {task.key}]
      BY <1>6, <3>1 DEF Ingest
    <3>3. key \in seen[p] \/ (p = task.key.process /\ key = task.key)
      BY <1>0, <2>2, <3>2
    <3> QED
      BY <3>3 DEF Remembered
  <2> QED
    BY <2>1, <2>2 DEF Remembered
<1>7. CASE Stop
  <2>1. /\ up' = FALSE /\ batch' = <<>> /\ UNCHANGED changes
        /\ troubles < MaxTroubles /\ troubles' = troubles + 1
        /\ \A p \in Processes : seen'[p] = {}
        /\ polled' = [p \in Processes |-> NoOccurrence]
    BY <1>7 DEF Stop
  <2>2. troubles' \in 0 .. MaxTroubles
    BY <1>0, <2>1
  <2> QED
    BY <2>1, <2>2 DEF Remembered
<1>8. CASE Start
  <2>1. /\ up' = TRUE /\ UNCHANGED <<last, changes, troubles, polled>>
        /\ seen' = [p \in Processes |-> KeysOf(p, Seeding)]
    BY <1>8 DEF Start, counters
  <2>2. \A p \in Processes : \A key \in KeysOf(p, Seeding) : key.process = p
    BY DEF KeysOf
  <2> QED
    BY <2>1, <2>2 DEF Remembered
<1>9. CASE UNCHANGED vars
  BY <1>1, <1>9 DEF vars
<1> QED
  BY <1>2, <1>3, <1>4, <1>5, <1>6, <1>7, <1>8, <1>9 DEF Next

LEMMA RememberedInitially == Init => Remembered
<1> SUFFICES ASSUME Init PROVE Remembered
  OBVIOUS
<1>1. 0 \in 0 .. MaxChanges /\ 0 \in 0 .. MaxTroubles
  BY ScheduleAssumption
<1> QED
  BY <1>1 DEF Init, Remembered

(* Every variable has its type: keys are of known processes, and a poller   *)
(* that is down has nothing left to put.                                    *)
THEOREM TypeCorrect == Spec => []TypeOK
<1>1. IInv /\ Remembered => TypeOK
  <2> SUFFICES ASSUME IInv, Remembered PROVE TypeOK
    OBVIOUS
  <2>1. KeySet \subseteq Keys
    BY OccurrencesAre DEF KeySet, Keys
  <2>2. last \in [Processes -> Nat \cup {NoOccurrence}]
    BY OccurrencesAre DEF IInv, Shapes
  <2>3. \A n \in DOMAIN tasks : tasks[n].key \in Keys /\ tasks[n].place \in Places
    <3>1. ASSUME NEW n \in DOMAIN tasks PROVE tasks[n] \in TaskSet
      BY <3>1 DEF IInv, Shapes
    <3> QED
      BY <2>1, <3>1 DEF TaskSet
  <2>4. \A p \in Processes : \A key \in seen[p] : key \in Keys /\ key.process = p
    BY <2>1 DEF IInv, Shapes, Remembered
  <2>5. changes <= MaxChanges /\ troubles <= MaxTroubles
    BY ScheduleAssumption DEF Remembered
  <2> QED
    BY <2>2, <2>3, <2>4, <2>5 DEF TypeOK, IInv, Shapes, Remembered
<1> QED
  BY <1>1, Initially, Step, RememberedInitially, RememberedStep, PTL DEF Spec

(* A trigger fires for the newest minute its expression names, never for    *)
(* one to come: whatever the walk back over the days finds                  *)
(* (occurrence_at_or_before, _day_matches) is what a definition that asks   *)
(* every day and minute on its own names, for any accepted expressions and  *)
(* any instants.                                                            *)
FoundIsLatest ==
    \A p \in DOMAIN Schedules :
        polled[p] # NoOccurrence =>
            /\ last[p] = OccurrenceOf[p][polled[p]]
            /\ last[p] # NoOccurrence => IsNewest[p][polled[p]]

LEMMA FoundIsLatestInv == IInv /\ Remembered => FoundIsLatest
<1> SUFFICES ASSUME IInv, Remembered, NEW p \in DOMAIN Schedules, polled[p] # NoOccurrence
             PROVE  /\ last[p] = OccurrenceOf[p][polled[p]]
                    /\ last[p] # NoOccurrence => IsNewest[p][polled[p]]
  BY DEF FoundIsLatest
<1>1. p \in Processes
  BY CronBounded
<1>2. polled[p] \in Instants /\ last[p] = OccurrenceOf[p][polled[p]]
  BY <1>1 DEF Remembered
<1> QED
  BY <1>2, WalkedIsNewest

(* Every occurrence that a trigger remembers is the newest there was.       *)
THEOREM FoundIsLatestHolds == Spec => []FoundIsLatest
BY FoundIsLatestInv, Initially, Step, RememberedInitially, RememberedStep, PTL DEF Spec

(* The walk back finds something, from any instant.                         *)
InReach == \A p \in DOMAIN Schedules : \A t \in Instants : OccurrenceOf[p][t] # NoOccurrence

(* Where every expression names a minute within the walk's reach, from any  *)
(* instant, a trigger always has an occurrence, and it is the newest.       *)
THEOREM OccurrenceIsLatestHolds == ASSUME InReach PROVE Spec => []OccurrenceIsLatest
<1>1. IInv /\ Remembered => OccurrenceIsLatest
  <2> SUFFICES ASSUME IInv, Remembered, NEW p \in DOMAIN Schedules
               PROVE  /\ OccurrenceOf[p][now] # NoOccurrence
                      /\ polled[p] # NoOccurrence =>
                             last[p] = OccurrenceOf[p][polled[p]] /\ IsNewest[p][polled[p]]
    BY DEF OccurrenceIsLatest
  <2>1. p \in Processes /\ now \in Instants
    BY CronBounded DEF IInv, Shapes
  <2>2. OccurrenceOf[p][now] # NoOccurrence
    BY <2>1 DEF InReach
  <2>3. ASSUME polled[p] # NoOccurrence
        PROVE  last[p] = OccurrenceOf[p][polled[p]] /\ IsNewest[p][polled[p]]
    <3>1. polled[p] \in Instants
      BY <2>1, <2>3 DEF Remembered
    <3>2. OccurrenceOf[p][polled[p]] # NoOccurrence
      BY <3>1 DEF InReach
    <3> QED
      BY <2>3, <3>2, FoundIsLatestInv DEF FoundIsLatest
  <2> QED
    BY <2>2, <2>3
<1> QED
  BY <1>1, Initially, Step, RememberedInitially, RememberedStep, PTL DEF Spec

=============================================================================
