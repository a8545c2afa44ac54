------------------------ MODULE HousekeepingProofs ------------------------
(***************************************************************************)
(* What housekeeping and the board guarantee for any set of tasks, pull    *)
(* requests and issues, and any number of requests, errors and crashes.    *)
(***************************************************************************)
EXTENDS Housekeeping, TLAPS, WellFoundedInduction

(* What the loop and the thread hold, and that nobody else holds anything. *)
LoopHolds == loop # Free /\ loop.at \in {"merge", "resolve"}
ClaimShape ==
    /\ holder \in [Tasks -> Workers \cup {"none", "nobody"}]
    /\ \A t \in Tasks :
          /\ holder[t] = "loop" => LoopHolds /\ loop.task = t
          /\ holder[t] = "thread" => request # Free /\ request.task = t
          /\ holder[t] = "nobody" => place[t] = "healed"

(* A claim is out of a queue that recovery walks, or out of healed/.       *)
ClaimPlace ==
    /\ place \in [Tasks -> Queues]
    /\ \A t \in Tasks : holder[t] # "none" => place[t] \in Recovered \cup {"healed"}

(* Nothing else has a process behind it that could hold a claim.           *)
Shapes ==
    /\ loop = Free \/ loop.at \in {"merge", "claim", "resolve"}
    /\ loop # Free /\ loop.at = "claim" => loop.queue \in Recovered
    /\ request = Free \/ request.at \in {"resume", "restart", "delete"}

(* What the loop is in the middle of is a task, and what it checks is done. *)
LoopTask ==
    /\ loop # Free => loop.task \in Tasks
    /\ LoopHolds => holder[loop.task] = "loop"
    /\ loop # Free /\ loop.at = "merge" => place[loop.task] = "done"
    /\ request # Free => request.task \in Tasks /\ holder[request.task] = "thread"

IInv == LoopTask /\ ClaimShape /\ ClaimPlace /\ Shapes

LEMMA Initially == Init => IInv
BY DEF Init, IInv, LoopTask, ClaimShape, ClaimPlace, Shapes, LoopHolds, Free, Workers, Queues,
       Recovered

(* A task nobody holds moves from one queue to another.                    *)
LEMMA MoveStep ==
    ASSUME IInv, NEW t \in Tasks, NEW q \in Queues, holder[t] = "none",
           place' = [place EXCEPT ![t] = q],
           UNCHANGED <<holder, loop, request>>
    PROVE  IInv'
BY DEF IInv, LoopTask, ClaimShape, ClaimPlace, Shapes, LoopHolds, Free

(* The loop claims a task that lies in a queue.                            *)
LEMMA LoopClaims ==
    ASSUME IInv, NEW t \in Tasks, NEW at \in {"merge", "resolve"}, ~LoopHolds,
           holder[t] = "none", place[t] \in Recovered \cup {"healed"},
           at = "merge" => place[t] = "done",
           Claims(t, [at |-> at, task |-> t])
    PROVE  IInv'
BY DEF IInv, LoopTask, ClaimShape, ClaimPlace, Shapes, LoopHolds, Claims, Free, Workers

(* The loop lets go of what it held, wherever it put it.                   *)
LEMMA LoopReleases ==
    ASSUME IInv, LoopHolds, NEW q \in Queues,
           holder' = [holder EXCEPT ![loop.task] = "none"],
           place' = place \/ place' = [place EXCEPT ![loop.task] = q],
           loop' = Free, UNCHANGED request
    PROVE  IInv'
<1>1. \A t \in Tasks : holder'[t] # "none" => t # loop.task /\ holder'[t] = holder[t]
                                              /\ place'[t] = place[t]
  BY DEF IInv, ClaimShape, ClaimPlace, Workers
<1>2. \A t \in Tasks : holder'[t] # "loop"
  BY <1>1 DEF IInv, ClaimShape, Workers
<1>3. holder' \in [Tasks -> Workers \cup {"none", "nobody"}]
  BY DEF IInv, ClaimShape
<1>4. place' \in [Tasks -> Queues]
  BY DEF IInv, ClaimPlace
<1>5. ClaimShape'
  BY <1>1, <1>2, <1>3 DEF IInv, ClaimShape
<1>6. ClaimPlace'
  BY <1>1, <1>4 DEF IInv, ClaimPlace, Recovered
<1>7. LoopTask'
  <2>1. request # Free => request.task # loop.task
    BY DEF IInv, LoopTask
  <2> QED
    BY <1>1, <2>1 DEF IInv, LoopTask, LoopHolds, ClaimShape
<1> QED
  BY <1>5, <1>6, <1>7 DEF IInv, Shapes

(* The thread lets go of what it held.                                     *)
LEMMA ThreadReleases ==
    ASSUME IInv, request # Free, NEW q \in Queues,
           holder' = [holder EXCEPT ![request.task] = "none"],
           place' = [place EXCEPT ![request.task] = q],
           request' = Free, UNCHANGED loop
    PROVE  IInv'
<1>1. \A t \in Tasks : holder'[t] # "none" => t # request.task /\ holder'[t] = holder[t]
                                              /\ place'[t] = place[t]
  BY DEF IInv, ClaimShape, ClaimPlace, Workers
<1>2. \A t \in Tasks : holder'[t] # "thread"
  BY <1>1 DEF IInv, ClaimShape, Workers
<1> QED
  BY <1>1, <1>2 DEF IInv, LoopTask, ClaimShape, ClaimPlace, Shapes, LoopHolds, Free, Workers

LEMMA Step == IInv /\ [Next]_vars => IInv'
<1> SUFFICES ASSUME IInv, [Next]_vars PROVE IInv'
  OBVIOUS
<1> USE DEF Free
<1>1. ASSUME UNCHANGED <<holder, place, loop, request>> PROVE IInv'
  BY <1>1 DEF IInv, LoopTask, ClaimShape, ClaimPlace, Shapes, LoopHolds
<1>2. CASE \E w \in Workers : Emit(w)
  BY <1>1, <1>2 DEF Emit
<1>3. ASSUME NEW t \in Tasks,
             Ages(t) \/ IssueCloses(t) \/ PrEnds(t, "merged") \/ PrEnds(t, "closed")
      PROVE  IInv'
  BY <1>1, <1>3 DEF Ages, IssueCloses, PrEnds
<1>4. ASSUME NEW t \in Tasks, Work(t) PROVE IInv'
  <2>1. PICK m \in Moves : /\ Lies(t, m[1])
                           /\ place' = [place EXCEPT ![t] = m[2]]
    BY <1>4 DEF Work
  <2>2. m[2] \in Queues
    BY DEF Moves, Queues
  <2>3. holder[t] = "none" /\ UNCHANGED <<holder, loop, request>>
    BY <1>4, <2>1 DEF Work, Lies
  <2> QED
    BY <2>1, <2>2, <2>3, MoveStep
<1>5. ASSUME NEW t \in Tasks, WatchClaims(t) PROVE IInv'
  BY <1>5, LoopClaims DEF WatchClaims, Turn, Lies, LoopHolds, Recovered
<1>6. ASSUME NEW t \in Tasks, IssueSees(t) PROVE IInv'
  <2>1. PICK q \in Recovered : loop' = [at |-> "claim", task |-> t, queue |-> q]
    BY <1>6 DEF IssueSees, Recovered
  <2> QED
    BY <1>6, <2>1 DEF IssueSees, Turn, IInv, LoopTask, ClaimShape, ClaimPlace, Shapes, LoopHolds
<1>7. ASSUME NEW t \in Tasks, RetentionClaims(t) PROVE IInv'
  BY <1>7, LoopClaims DEF RetentionClaims, Turn, Lies, LoopHolds, Recovered
<1>8. ASSUME NEW t \in Tasks, RequestClaims(t) PROVE IInv'
  <2>1. PICK at \in {"resume", "restart", "delete"} : request' = [at |-> at, task |-> t]
    BY <1>8 DEF RequestClaims
  <2>2. place[t] \in Recovered
    BY <1>8 DEF RequestClaims, Recovered
  <2> QED
    BY <1>8, <2>1, <2>2
       DEF RequestClaims, IInv, LoopTask, ClaimShape, ClaimPlace, Shapes, LoopHolds, Workers
<1>9. CASE MergeClaims
  <2>1. PICK t \in Candidates : Claims(t, [at |-> "merge", task |-> t])
    BY <1>9 DEF MergeClaims
  <2>2. t \in Tasks /\ Lies(t, "done")
    BY HousekeepingAssumption DEF Candidates
  <2> QED
    BY <1>9, <2>1, <2>2, LoopClaims DEF MergeClaims, Turn, Lies, LoopHolds, Recovered
<1>10. CASE MergeRaises
  BY <1>10, LoopReleases DEF MergeRaises, LoopHolds, Queues
<1>11. CASE Settle
  <2>1. CASE MergeOpen
    BY <2>1, LoopReleases DEF MergeOpen, LoopHolds, Queues
  <2>2. CASE MergeArchives
    BY <2>2, LoopReleases DEF MergeArchives, Archived, LoopHolds, Queues
  <2>3. CASE Resolve
    BY <2>3, LoopReleases DEF Resolve, Archived, LoopHolds, Queues
  <2>4. CASE IssueClaims
    <3>1. CASE ~Lies(loop.task, loop.queue)
      BY <2>4, <3>1 DEF IssueClaims, IInv, LoopTask, ClaimShape, ClaimPlace, Shapes, LoopHolds
    <3>2. CASE Lies(loop.task, loop.queue)
      <4>1. loop.task \in Tasks /\ place[loop.task] \in Recovered
        BY <2>4, <3>2 DEF IssueClaims, Lies, IInv, LoopTask, Shapes
      <4> QED
        BY <2>4, <3>2, <4>1, LoopClaims DEF IssueClaims, Lies, LoopHolds
    <3> QED
      BY <3>1, <3>2
  <2> QED
    BY <1>11, <2>1, <2>2, <2>3, <2>4 DEF Settle
<1>12. CASE SendsBack
  BY <1>12, ThreadReleases DEF SendsBack, Queues, IInv, Shapes
<1>13. CASE Deletes
  BY <1>13, ThreadReleases DEF Deletes, Queues, IInv, Shapes
<1>14. CASE Restart
  <2>1. \A t \in Tasks : holder'[t] = "nobody" => place[t] = "healed"
    BY <1>14 DEF Restart, IInv, ClaimPlace
  <2> QED
    BY <1>14, <2>1 DEF Restart, IInv, LoopTask, ClaimShape, ClaimPlace, Shapes, LoopHolds, Workers
<1>15. CASE Page
  BY <1>1, <1>15 DEF Page
<1>16. CASE UNCHANGED vars
  BY <1>1, <1>16 DEF vars
<1> QED
  BY <1>2, <1>3, <1>4, <1>5, <1>6, <1>7, <1>8, <1>9, <1>10, <1>11, <1>12, <1>13,
     <1>14, <1>15, <1>16 DEF Next

THEOREM ClaimsHold == Spec => []IInv
<1>1. Init => IInv
  BY Initially
<1>2. IInv /\ [Next]_vars => IInv'
  BY Step
<1> QED
  BY <1>1, <1>2, PTL DEF Spec

(* Whoever crashes, whatever is claimed has a holder that is at work on it *)
(* (the reconcilers, TaskControlService and Harness.recover()).            *)
THEOREM ClaimedIsAttendedHolds == Spec => []ClaimedIsAttended
<1>1. IInv => ClaimedIsAttended
  BY DEF IInv, ClaimShape, LoopHolds, ClaimedIsAttended, Workers
<1> QED
  BY <1>1, ClaimsHold, PTL

-----------------------------------------------------------------------------

(* What the board will show of a task once an event is told.               *)
Names == {"ingested", "dispatched", "finished", "failed", "consumed", "healed",
          "rechecked", "archived", "resumed", "deleted"}
Told(e) == CASE e.name = "deleted"  -> "unknown"
             [] e.name = "archived" -> "resolved"
             [] OTHER               -> e.column
Events == [name : Names, task : Tasks, column : Columns \cup {"archived", "none"},
           order : {"first", "second", "late"}]

OutboxOK ==
    /\ outbox \in [Workers -> Events \cup {Silence}]
    /\ \A w \in Workers :
          /\ outbox[w] # Silence => Told(outbox[w]) \in Shown
          /\ outbox[w] # Silence /\ outbox[w].name \notin {"deleted", "archived"}
                => outbox[w].column \in Columns

(* The newest event of a task tells what it may show; the other, if there  *)
(* is one, is older; and one that is told late will be known to be.        *)
NewestTells(t) ==
    /\ ~Pending("loop", t) /\ ~Pending("thread", t)
          => t \in crossed \/ cards[t] \in MayShow(t)
    /\ \A w \in Workers : Pending(w, t) =>
          IF Pending(Other(w), t)
          THEN \/ /\ outbox[w].order = "second" /\ Told(outbox[w]) \in MayShow(t)
                  /\ outbox[Other(w)].order \in {"first", "late"}
               \/ /\ outbox[Other(w)].order = "second"
                  /\ Told(outbox[Other(w)]) \in MayShow(t)
                  /\ outbox[w].order \in {"first", "late"}
          ELSE \/ outbox[w].order = "late"
               \/ (outbox[w].order = "first" /\ Told(outbox[w]) \in MayShow(t))

BInv ==
    /\ cards \in [Tasks -> Shown]
    /\ OutboxOK
    /\ \A t \in Tasks : NewestTells(t)

LEMMA Others ==
    /\ Other("loop") = "thread" /\ Other("thread") = "loop"
BY DEF Other, Workers

(* What a task may show depends on its file and its holder alone.          *)
LEMMA SameShow ==
    ASSUME NEW t \in Tasks, place'[t] = place[t], status'[t] = status[t],
           holder'[t] = "nobody" <=> holder[t] = "nobody"
    PROVE  MayShow(t)' = MayShow(t)
BY DEF MayShow, Column

(* A worker that did something announces it: the event tells what its task *)
(* may show now, and the other tasks are as they were.                     *)
LEMMA Announce ==
    ASSUME BInv, NEW w \in Workers, NEW t \in Tasks, NEW name \in Names,
           NEW column \in Columns \cup {"archived", "none"},
           name \notin {"deleted", "archived"} => column \in Columns,
           outbox[w] = Silence,
           Event(w, name, t, column),
           Told([name |-> name, column |-> column]) \in MayShow(t)',
           \A u \in Tasks \ {t} : MayShow(u)' = MayShow(u),
           UNCHANGED <<cards, crossed>>
    PROVE  BInv'
<1> DEFINE e == [name |-> name, task |-> t, column |-> column,
                 order |-> IF Pending(Other(w), t) THEN "second" ELSE "first"]
<1>1. /\ outbox' = [outbox EXCEPT ![w] = e]
      /\ e \in Events /\ e # Silence /\ e.name = name /\ e.task = t /\ e.column = column
  BY DEF Event, Events, Silence, Names
<1>2. Told(e) = Told([name |-> name, column |-> column]) /\ Told(e) \in Shown
  BY DEF Told, Shown
<1>3. /\ w \in {"loop", "thread"} /\ Other(w) \in Workers /\ Other(w) # w
      /\ Other(Other(w)) = w /\ \A v \in Workers : v = w \/ v = Other(w)
  BY Others DEF Workers
<1>4. /\ outbox'[w] = e /\ outbox'[Other(w)] = outbox[Other(w)]
      /\ \A u : Pending(w, u)' <=> u = t
      /\ \A u : Pending(Other(w), u)' <=> Pending(Other(w), u)
      /\ \A u : ~Pending(w, u)
  BY <1>1, <1>3 DEF BInv, OutboxOK, Pending
<1>5. OutboxOK'
  BY <1>1, <1>2, <1>3, <1>4 DEF BInv, OutboxOK
<1>6. ASSUME NEW u \in Tasks PROVE NewestTells(u)'
  <2>1. NewestTells(u)
    BY DEF BInv
  <2>2. CASE u # t
    BY <1>3, <1>4, <2>1, <2>2 DEF NewestTells, Workers
  <2>3. CASE u = t
    <3>1. CASE Pending(Other(w), t)
      <4>1. outbox[Other(w)].order \in {"first", "late"}
        <5>1. Other(w) \in Workers /\ Pending(Other(w), t)
              /\ ~Pending(Other(Other(w)), t)
          BY <1>3, <1>4, <3>1
        <5> HIDE DEF e
        <5> QED
          BY <2>1, <2>3, <5>1 DEF NewestTells
      <4>2. e.order = "second" /\ Told(e) \in MayShow(t)'
        BY <1>2, <3>1
      <4>3. Pending(w, t)' /\ Pending(Other(w), t)'
        BY <1>4, <3>1
      <4> HIDE DEF e
      <4>4. \A x \in Workers : Pending(x, t)' /\ Pending(Other(x), t)'
                               /\ (x = w \/ (x = Other(w) /\ Other(x) = w))
        BY <1>3, <4>3
      <4>5. ~(~Pending("loop", t)' /\ ~Pending("thread", t)')
        BY <1>3, <4>3
      <4> QED
        BY <1>4, <2>3, <4>1, <4>2, <4>4, <4>5 DEF NewestTells
    <3>2. CASE ~Pending(Other(w), t)
      BY <1>2, <1>3, <1>4, <2>3, <3>2 DEF NewestTells, Workers
    <3> QED
      BY <3>1, <3>2
  <2> QED
    BY <2>2, <2>3
<1> QED
  BY <1>5, <1>6 DEF BInv

(* Telling an event.                                                       *)
LEMMA Telling ==
    ASSUME BInv, NEW w \in Workers, Emit(w) PROVE BInv'
<1> DEFINE e == outbox[w]
           v == Other(w)
<1>1. /\ w \in {"loop", "thread"} /\ v \in Workers /\ v # w /\ Other(v) = w
      /\ \A x \in Workers : x = w \/ x = v
  BY Others DEF Workers
<1>2. /\ e \in Events /\ e # Silence /\ Told(e) \in Shown
      /\ e.name \notin {"deleted", "archived"} => e.column \in Columns
  BY DEF Emit, BInv, OutboxOK
<1>3. e.task \in Tasks
  BY <1>2 DEF Events
<1>4. cards' = [cards EXCEPT ![e.task] = Told(e)]
  <2>1. CASE e.name = "deleted"
    BY <2>1 DEF Emit, Sink, RemoveCard, Change, Told
  <2>2. CASE e.name = "archived"
    BY <2>2 DEF Emit, Sink, Archive, Change, Told
  <2>3. CASE e.name \notin {"deleted", "archived"}
    BY <1>2, <2>3 DEF Emit, Sink, Apply, Change, Told
  <2> QED
    BY <2>1, <2>2, <2>3
<1>5. PICK left :
         /\ outbox' = [outbox EXCEPT ![w] = Silence, ![v] = left]
         /\ left = IF ~Pending(v, e.task) THEN outbox[v]
                   ELSE [outbox[v] EXCEPT !.order = IF e.order = "second" THEN "late"
                                                    ELSE "first"]
  BY DEF Emit
<1>6. crossed' = IF e.order = "late" THEN crossed \cup {e.task} ELSE crossed \ {e.task}
  BY DEF Emit
<1>7. outbox'[w] = Silence /\ outbox'[v] = left
  BY <1>1, <1>5 DEF BInv, OutboxOK
<1>8. /\ left = Silence <=> outbox[v] = Silence
      /\ left # Silence => /\ left \in Events /\ left.task = outbox[v].task
                            /\ left.name = outbox[v].name
                            /\ left.column = outbox[v].column
                            /\ Told(left) = Told(outbox[v])
  <2>1. outbox[v] \in Events \cup {Silence}
    BY <1>1 DEF BInv, OutboxOK
  <2>2. CASE left = outbox[v]
    BY <2>1, <2>2
  <2>3. CASE left # outbox[v]
    <3>1. outbox[v] \in Events /\ outbox[v] # Silence
      BY <1>5, <2>1, <2>3 DEF Pending
    <3>2. left = [outbox[v] EXCEPT !.order = IF e.order = "second" THEN "late"
                                             ELSE "first"]
      BY <1>5, <2>3
    <3>3. left \in Events /\ left.name = outbox[v].name
          /\ left.task = outbox[v].task /\ left.column = outbox[v].column
      BY <3>1, <3>2 DEF Events
    <3>4. left # Silence
      BY <3>3 DEF Events, Silence, Names
    <3> QED
      BY <3>1, <3>3, <3>4 DEF Told
  <2> QED
    BY <2>2, <2>3
<1>9. OutboxOK'
  <2>1. outbox' \in [Workers -> Events \cup {Silence}]
    BY <1>1, <1>5, <1>8 DEF BInv, OutboxOK
  <2> QED
    BY <1>1, <1>7, <1>8, <2>1 DEF BInv, OutboxOK
<1>10. /\ \A u : ~Pending(w, u)'
       /\ \A u : Pending(v, u)' <=> Pending(v, u)
  BY <1>7, <1>8 DEF Pending
<1>11. \A u \in Tasks : MayShow(u)' = MayShow(u)
  BY SameShow DEF Emit
<1>12. ASSUME NEW u \in Tasks PROVE NewestTells(u)'
  <2>1. NewestTells(u)
    BY DEF BInv
  <2>2. CASE u # e.task
    <3>1. ~Pending(w, u)
      BY <2>2 DEF Pending
    <3>2. cards'[u] = cards[u] /\ (u \in crossed' <=> u \in crossed)
      BY <1>4, <1>6, <2>2 DEF BInv
    <3>3. Pending(v, u) => left = outbox[v]
      BY <1>5, <2>2 DEF Pending
    <3> QED
      BY <1>1, <1>7, <1>10, <1>11, <2>1, <3>1, <3>2, <3>3 DEF NewestTells, Workers
  <2>3. CASE u = e.task
    <3>1. Pending(w, u)
      BY <1>2, <2>3 DEF Pending
    <3>2. cards'[u] = Told(e)
      BY <1>4, <2>3 DEF BInv
    <3>3. CASE ~Pending(v, u)
      <4>1. e.order = "late" \/ Told(e) \in MayShow(u)
        BY <1>1, <2>1, <3>1, <3>3 DEF NewestTells
      <4>2. u \in crossed' \/ cards'[u] \in MayShow(u)'
        BY <1>6, <1>11, <2>3, <3>2, <4>1
      <4> QED
        BY <1>1, <1>10, <3>3, <4>2 DEF NewestTells, Workers
    <3>4. CASE Pending(v, u)
      <4>1. left = [outbox[v] EXCEPT !.order = IF e.order = "second" THEN "late"
                                               ELSE "first"]
        BY <1>5, <2>3, <3>4
      <4>2. outbox[v] \in Events
        BY <1>1, <3>4 DEF BInv, OutboxOK, Pending
      <4>3. left.order = IF e.order = "second" THEN "late" ELSE "first"
        BY <4>1, <4>2 DEF Events
      <4>4. \/ e.order = "second"
            \/ e.order \in {"first", "late"} /\ Told(outbox[v]) \in MayShow(u)
        BY <1>1, <2>1, <3>1, <3>4 DEF NewestTells
      <4>5. Told(left) = Told(outbox[v])
        BY <1>8, <3>4 DEF Pending
      <4>6. \/ left.order = "late"
            \/ left.order = "first" /\ Told(left) \in MayShow(u)'
        BY <1>11, <4>3, <4>4, <4>5
      <4>7. ~Pending(w, u)' /\ Pending(v, u)'
        BY <1>10, <3>4
      <4> HIDE DEF e, v
      <4>8. \A x \in Workers : Pending(x, u)' => x = v /\ ~Pending(Other(x), u)'
        BY <1>1, <4>7
      <4>9. ~(~Pending("loop", u)' /\ ~Pending("thread", u)')
        BY <1>1, <4>7 DEF Workers
      <4> QED
        BY <1>7, <4>6, <4>8, <4>9 DEF NewestTells
    <3> QED
      BY <3>3, <3>4
  <2> QED
    BY <2>2, <2>3
<1>13. cards' \in [Tasks -> Shown]
  BY <1>2, <1>3, <1>4 DEF BInv
<1> QED
  BY <1>9, <1>12, <1>13 DEF BInv

(* What is begun has announced nothing yet.                                *)
Quiet ==
    /\ status \in [Tasks -> {"none", "step", "end", "failed", "archived"}]
    /\ loop # Free => outbox["loop"] = Silence
    /\ request # Free => outbox["thread"] = Silence

TInv == Quiet /\ BInv

(* What leaves a task's file and holder alone leaves what it may show.      *)
LEMMA Unshown ==
    ASSUME BInv, UNCHANGED <<cards, outbox, crossed>>,
           \A t \in Tasks : MayShow(t)' = MayShow(t)
    PROVE  BInv'
BY DEF BInv, OutboxOK, NewestTells, Pending

LEMMA InitiallyTold == Init => TInv
<1> SUFFICES ASSUME Init PROVE TInv
  OBVIOUS
<1>1. Quiet
  BY DEF Init, Quiet
<1>2. \A t \in Tasks : cards[t] = Column(place[t], status[t]) /\ holder[t] = "none"
  BY DEF Init
<1>3. cards \in [Tasks -> Shown]
  BY DEF Init, Column, Shown, Columns
<1>4. OutboxOK
  BY DEF Init, OutboxOK, Silence
<1>5. \A t \in Tasks : cards[t] \in MayShow(t)
  BY <1>2 DEF MayShow
<1>6. \A w \in Workers, t \in Tasks : ~Pending(w, t)
  BY DEF Init, Pending, Silence
<1> QED
  BY <1>1, <1>3, <1>4, <1>5, <1>6 DEF TInv, BInv, NewestTells

(* The loop archives what it holds.                                        *)
LEMMA Archives ==
    ASSUME IInv, TInv, LoopHolds, NEW t \in Tasks, t = loop.task,
           NEW stat \in {"none", "step", "end", "failed", "archived"},
           Archived(t, stat)
    PROVE  TInv'
<1>1. t \in Tasks /\ holder[t] = "loop" /\ outbox["loop"] = Silence
  BY DEF IInv, LoopTask, LoopHolds, TInv, Quiet
<1>2. \A u \in Tasks \ {t} : MayShow(u)' = MayShow(u)
  BY <1>1, SameShow DEF Archived, IInv, ClaimShape, ClaimPlace, TInv, Quiet
<1>3. /\ place'[t] = "archived" /\ holder'[t] = "none"
  BY <1>1 DEF Archived, IInv, ClaimShape, ClaimPlace
<1>4. "resolved" \in MayShow(t)'
  BY <1>3 DEF MayShow, Column
<1>5. Told([name |-> "archived", column |-> "archived"]) = "resolved"
  BY DEF Told
<1>6. BInv'
  <2>1. Event("loop", "archived", t, "archived") /\ UNCHANGED <<cards, crossed>>
    BY DEF Archived, boardVars
  <2> QED
    BY <1>1, <1>2, <1>4, <1>5, <2>1, Announce DEF TInv, Names, Workers
<1>7. Quiet'
  BY <1>1 DEF Archived, TInv, Quiet, Event, BInv, OutboxOK, Workers, Free
<1> QED
  BY <1>6, <1>7 DEF TInv

(* What the loop held is still in done/, and so it tells.                  *)
LEMMA Rechecks ==
    ASSUME IInv, TInv, loop.at = "merge", loop' = Free,
           NEW t \in Tasks, t = loop.task,
           Event("loop", "rechecked", t, "done"),
           holder' = [holder EXCEPT ![t] = "none"],
           UNCHANGED <<boardVars, place, status, request, crossed>>
    PROVE  TInv'
<1>1. t \in Tasks /\ holder[t] = "loop" /\ place[t] = "done" /\ outbox["loop"] = Silence
  BY DEF IInv, LoopTask, LoopHolds, TInv, Quiet, Free
<1>2. \A u \in Tasks : MayShow(u)' = MayShow(u)
  BY <1>1, SameShow DEF IInv, ClaimShape
<1>3. holder'[t] = "none" /\ place'[t] = "done"
  BY <1>1 DEF IInv, ClaimShape
<1>4. Told([name |-> "rechecked", column |-> "done"]) \in MayShow(t)'
  BY <1>3 DEF MayShow, Column, Told
<1>5. BInv'
  <2>1. Event("loop", "rechecked", t, "done") /\ UNCHANGED <<cards, crossed>>
    BY DEF boardVars
  <2> QED
    BY <1>1, <1>2, <1>4, <2>1, Announce DEF TInv, Names, Workers, Columns
<1>6. Quiet'
  BY <1>1 DEF TInv, Quiet, Event, BInv, OutboxOK, Workers, Free
<1> QED
  BY <1>5, <1>6 DEF TInv

(* The request thread puts its task elsewhere, and tells where.            *)
LEMMA ThreadPuts ==
    ASSUME IInv, TInv, request # Free, request' = Free,
           NEW t \in Tasks, t = request.task,
           NEW q \in Queues, NEW stat \in {"none", "step", "end", "failed", "archived"},
           NEW name \in Names, NEW column \in Columns \cup {"archived", "none"},
           name \notin {"deleted", "archived"} => column \in Columns,
           \/ q = "inbox" /\ name = "resumed" /\ column = "todo"
           \/ q = "gone" /\ name = "deleted",
           place' = [place EXCEPT ![t] = q],
           status' = [status EXCEPT ![t] = stat],
           holder' = [holder EXCEPT ![t] = "none"],
           Event("thread", name, t, column),
           UNCHANGED <<boardVars, loop, crossed>>
    PROVE  TInv'
<1>1. t \in Tasks /\ outbox["thread"] = Silence
  BY DEF IInv, LoopTask, TInv, Quiet
<1>2. \A u \in Tasks \ {t} : MayShow(u)' = MayShow(u)
  BY <1>1, SameShow DEF IInv, ClaimShape, ClaimPlace, TInv, Quiet
<1>3. place'[t] = q /\ holder'[t] = "none"
  BY <1>1 DEF IInv, ClaimShape, ClaimPlace
<1>4. Told([name |-> name, column |-> column]) \in MayShow(t)'
  BY <1>3 DEF MayShow, Column, Told
<1>5. BInv'
  <2>1. Event("thread", name, t, column) /\ UNCHANGED <<cards, crossed>>
    BY DEF boardVars
  <2> QED
    BY <1>1, <1>2, <1>4, <2>1, Announce DEF TInv, Workers
<1>6. Quiet'
  BY <1>1 DEF TInv, Quiet, Event, BInv, OutboxOK, Workers, Free
<1> QED
  BY <1>5, <1>6 DEF TInv

(* After a restart the board is what the queues say.                       *)
LEMMA Rebuilt == ASSUME IInv, TInv, Restart PROVE TInv'
<1>1. status' \in [Tasks -> {"none", "step", "end", "failed", "archived"}]
  BY DEF Restart, TInv, Quiet
<1>2. \A w \in Workers, t \in Tasks : ~Pending(w, t)'
  BY DEF Restart, Pending
<1>3. OutboxOK'
  BY DEF Restart, OutboxOK
<1>4. \A t \in Tasks : /\ holder'[t] \in {"none", "nobody"}
                       /\ cards'[t] = IF holder'[t] = "none"
                                      THEN Column(place'[t], status'[t]) ELSE "unknown"
  BY DEF Restart, Hydrate
<1>5. \A t \in Tasks : Column(place'[t], status'[t]) \in Shown
  BY DEF Column, Shown, Columns
<1>6. cards' \in [Tasks -> Shown]
  BY <1>4, <1>5 DEF Restart, Hydrate, Shown
<1>7. \A t \in Tasks : cards'[t] \in MayShow(t)'
  BY <1>4, <1>6 DEF MayShow
<1>8. Quiet'
  BY <1>1 DEF Restart, Quiet
<1> QED
  BY <1>2, <1>3, <1>6, <1>7, <1>8 DEF TInv, BInv, NewestTells

LEMMA BStep == IInv /\ TInv /\ [Next]_vars => TInv'
<1> SUFFICES ASSUME IInv, TInv, [Next]_vars PROVE TInv'
  OBVIOUS
<1>1. ASSUME UNCHANGED <<cards, outbox, crossed, place, status>>,
             \A t \in Tasks : holder'[t] = "nobody" <=> holder[t] = "nobody",
             loop' = loop \/ outbox["loop"] = Silence,
             request' = request \/ outbox["thread"] = Silence
      PROVE  TInv'
  <2>1. \A t \in Tasks : MayShow(t)' = MayShow(t)
    BY <1>1, SameShow
  <2> QED
    BY <1>1, <2>1, Unshown DEF TInv, Quiet
<1>2. ASSUME NEW t \in Tasks, NEW x \in Workers,
             holder[t] = "none", holder' = [holder EXCEPT ![t] = x]
      PROVE  \A u \in Tasks : holder'[u] = "nobody" <=> holder[u] = "nobody"
  BY <1>2 DEF IInv, ClaimShape, Workers
<1>3. ASSUME NEW w \in Workers, Emit(w) PROVE TInv'
  <2>1. BInv'
    BY <1>3, Telling DEF TInv
  <2>2. \A v \in Workers : outbox[v] = Silence => outbox'[v] = Silence
    BY <1>3 DEF Emit, Pending, TInv, BInv, OutboxOK
  <2> QED
    BY <1>3, <2>1, <2>2 DEF TInv, Quiet, Emit, Workers
<1>4. ASSUME NEW t \in Tasks,
             Ages(t) \/ IssueCloses(t) \/ PrEnds(t, "merged") \/ PrEnds(t, "closed")
      PROVE  TInv'
  BY <1>1, <1>4 DEF Ages, IssueCloses, PrEnds, boardVars
<1>5. ASSUME NEW t \in Tasks, Work(t) PROVE TInv'
  <2>1. PICK m \in Moves : /\ Lies(t, m[1])
                           /\ place' = [place EXCEPT ![t] = m[2]]
                           /\ status' = [status EXCEPT ![t] = m[3]]
                           /\ Event("loop", m[5], t, m[4])
    BY <1>5 DEF Work
  <2>2. /\ outbox["loop"] = Silence /\ holder[t] = "none"
        /\ UNCHANGED <<holder, loop, request, cards, crossed>>
    BY <1>5, <2>1 DEF Work, Turn, Lies, boardVars
  <2>3. /\ m[3] \in {"none", "step", "end", "failed", "archived"}
        /\ m[4] \in Columns /\ m[5] \in Names \ {"deleted", "archived"}
        /\ Column(m[2], m[3]) = m[4] \/ (m[2] = "inbox" /\ m[4] = "todo")
    BY DEF Moves, Columns, Names, Column
  <2>4. \A u \in Tasks \ {t} : MayShow(u)' = MayShow(u)
    BY <2>1, <2>2, SameShow DEF IInv, ClaimPlace, TInv, Quiet
  <2>5. place'[t] = m[2] /\ status'[t] = m[3] /\ holder'[t] = "none"
    BY <2>1, <2>2 DEF IInv, ClaimPlace, TInv, Quiet
  <2>6. Told([name |-> m[5], column |-> m[4]]) \in MayShow(t)'
    BY <2>3, <2>5 DEF MayShow, Told
  <2>7. BInv'
    BY <2>1, <2>2, <2>3, <2>4, <2>6, Announce DEF TInv, Workers
  <2>8. Quiet'
    BY <1>5, <2>1, <2>2, <2>3 DEF Work, Turn, TInv, Quiet, Event, BInv, OutboxOK, Workers, Free
  <2> QED
    BY <2>7, <2>8 DEF TInv
<1>6. ASSUME NEW t \in Tasks, WatchClaims(t) \/ RetentionClaims(t) PROVE TInv'
  <2>1. holder[t] = "none" /\ outbox["loop"] = Silence /\ "loop" \in Workers
    BY <1>6 DEF WatchClaims, RetentionClaims, Turn, Lies, Workers
  <2> QED
    BY <1>1, <1>2, <1>6, <2>1 DEF WatchClaims, RetentionClaims, Claims, boardVars
<1>7. ASSUME NEW t \in Tasks, IssueSees(t) PROVE TInv'
  BY <1>1, <1>7 DEF IssueSees, Turn, boardVars
<1>8. ASSUME NEW t \in Tasks, RequestClaims(t) PROVE TInv'
  <2>1. holder[t] = "none" /\ outbox["thread"] = Silence /\ "thread" \in Workers
    BY <1>8 DEF RequestClaims, Workers
  <2> QED
    BY <1>1, <1>2, <1>8, <2>1 DEF RequestClaims, boardVars
<1>9. CASE MergeClaims
  <2>1. PICK t \in Candidates : Claims(t, [at |-> "merge", task |-> t])
    BY <1>9 DEF MergeClaims
  <2>2. t \in Tasks /\ holder[t] = "none" /\ outbox["loop"] = Silence /\ "loop" \in Workers
    BY <1>9, HousekeepingAssumption DEF Candidates, Lies, MergeClaims, Turn, Workers
  <2> QED
    BY <1>1, <1>2, <2>1, <2>2 DEF Claims, boardVars
<1>10. CASE MergeRaises
  <2>1. PICK t \in Tasks : t = loop.task
    BY <1>10 DEF MergeRaises, Free, IInv, LoopTask
  <2> QED
    BY <1>10, <2>1, Rechecks DEF MergeRaises
<1>11. CASE Settle
  <2>1. CASE MergeOpen
    <3>1. PICK t \in Tasks : t = loop.task
      BY <2>1 DEF MergeOpen, Free, IInv, LoopTask
    <3> QED
      BY <2>1, <3>1, Rechecks DEF MergeOpen
  <2>2. CASE MergeArchives
    <3>1. LoopHolds /\ loop.task \in Tasks
      BY <2>2 DEF MergeArchives, LoopHolds, Free, IInv, LoopTask
    <3>2. PICK t \in Tasks : t = loop.task
      BY <3>1
    <3>3. status[t] \in {"none", "step", "end", "failed", "archived"}
      BY DEF TInv, Quiet
    <3>4. Archived(t, status[t])
      BY <2>2, <3>2 DEF MergeArchives
    <3> QED
      BY <3>1, <3>2, <3>3, <3>4, Archives
  <2>3. CASE Resolve
    <3>1. PICK t \in Tasks : t = loop.task
      BY <2>3 DEF Resolve, Free, IInv, LoopTask
    <3> QED
      BY <2>3, <3>1, Archives DEF Resolve, LoopHolds, Free
  <2>4. CASE IssueClaims
    <3>1. loop # Free /\ loop.task \in Tasks /\ outbox["loop"] = Silence
      BY <2>4 DEF IssueClaims, Free, IInv, LoopTask, TInv, Quiet
    <3>2. CASE Lies(loop.task, loop.queue)
      <4>1. holder[loop.task] = "none" /\ "loop" \in Workers
        BY <3>2 DEF Lies, Workers
      <4> QED
        BY <1>1, <1>2, <2>4, <3>1, <3>2, <4>1 DEF IssueClaims, Claims, boardVars
    <3>3. CASE ~Lies(loop.task, loop.queue)
      BY <1>1, <2>4, <3>1, <3>3 DEF IssueClaims, boardVars
    <3> QED
      BY <3>2, <3>3
  <2> QED
    BY <1>11, <2>1, <2>2, <2>3, <2>4 DEF Settle
<1>12. CASE SendsBack
  <2>0. PICK t \in Tasks : t = request.task
    BY <1>12 DEF SendsBack, Free, IInv, LoopTask
  <2> DEFINE stat == IF request.at = "resume" THEN "step" ELSE "none"
  <2>1. /\ request # Free /\ request' = Free /\ "inbox" \in Queues
        /\ stat \in {"none", "step", "end", "failed", "archived"}
        /\ "resumed" \in Names /\ "todo" \in Columns
    BY <1>12 DEF SendsBack, Free, Queues, Names, Columns
  <2>2. /\ place' = [place EXCEPT ![t] = "inbox"]
        /\ status' = [status EXCEPT ![t] = stat]
        /\ holder' = [holder EXCEPT ![t] = "none"]
        /\ Event("thread", "resumed", t, "todo")
        /\ UNCHANGED <<boardVars, loop, crossed>>
    BY <1>12, <2>0 DEF SendsBack
  <2> HIDE DEF stat
  <2> QED
    BY <2>0, <2>1, <2>2, ThreadPuts
<1>13. CASE Deletes
  <2>0. PICK t \in Tasks : t = request.task
    BY <1>13 DEF Deletes, Free, IInv, LoopTask
  <2> DEFINE stat == status[t]
  <2>1. /\ request # Free /\ request' = Free /\ "gone" \in Queues
        /\ "deleted" \in Names /\ "none" \in Columns \cup {"archived", "none"}
    BY <1>13 DEF Deletes, Free, Queues, Names, Columns, IInv, LoopTask
  <2>2. /\ stat \in {"none", "step", "end", "failed", "archived"}
        /\ status' = [status EXCEPT ![t] = stat]
    BY <1>13, <2>0 DEF Deletes, TInv, Quiet
  <2>3. /\ place' = [place EXCEPT ![t] = "gone"]
        /\ holder' = [holder EXCEPT ![t] = "none"]
        /\ Event("thread", "deleted", t, "none")
        /\ UNCHANGED <<boardVars, loop, crossed>>
    BY <1>13, <2>0 DEF Deletes
  <2> HIDE DEF stat
  <2> QED
    BY <2>0, <2>1, <2>2, <2>3, ThreadPuts
<1>14. CASE Restart
  BY <1>14, Rebuilt
<1>15. CASE Page
  BY <1>1, <1>15 DEF Page, Connect, Wake, Fetch, Leave
<1>16. CASE UNCHANGED vars
  BY <1>1, <1>16 DEF vars, boardVars
<1> QED
  BY <1>3, <1>4, <1>5, <1>6, <1>7, <1>8, <1>9, <1>10, <1>11, <1>12, <1>13, <1>14,
     <1>15, <1>16 DEF Next

(* Once both threads have told what they did, the board has every task     *)
(* where its file is (projection.py and the emitters of every queue move). *)
THEOREM BoardTellsPlaceHolds == Spec => []BoardTellsPlace
<1>1. Init => IInv /\ TInv
  BY Initially, InitiallyTold
<1>2. IInv /\ TInv /\ [Next]_vars => (IInv /\ TInv)'
  BY Step, BStep
<1>3. IInv /\ TInv => BoardTellsPlace
  BY DEF TInv, BInv, NewestTells, BoardTellsPlace
<1> QED
  BY <1>1, <1>2, <1>3, PTL DEF Spec

-----------------------------------------------------------------------------

(* A page that is not there has nothing waiting for it, and a stale one    *)
(* that waits has.                                                         *)
PageInv ==
    /\ client \in {"away", "waiting", "woken"} /\ fresh \in BOOLEAN
    /\ client = "waiting" /\ ~fresh => slot

(* Whatever the event, a change of the board leaves a revision behind.     *)
LEMMA SinkTells ==
    ASSUME PageInv, NEW name, NEW t, NEW column, Sink(name, t, column),
           UNCHANGED client
    PROVE  PageInv'
<1>1. CASE slot' = (client # "away") /\ fresh' \in BOOLEAN
  BY <1>1 DEF PageInv
<1>2. CASE UNCHANGED <<slot, fresh>>
  BY <1>2 DEF PageInv
<1>3. \/ slot' = (client # "away") /\ fresh' \in BOOLEAN
      \/ UNCHANGED <<slot, fresh>>
  <2>1. CASE RemoveCard(t)
    <3>1. CASE cards[t] = "unknown"
      <4>1. fresh' = fresh
        BY <2>1, <3>1 DEF RemoveCard, Change, PageInv
      <4> QED
        BY <2>1, <3>1, <4>1 DEF RemoveCard
    <3> QED
      BY <2>1, <3>1 DEF RemoveCard, Change, Bump
  <2>2. CASE Archive(t)
    BY <2>2 DEF Archive, Change, Bump
  <2>3. CASE Apply(t, column)
    BY <2>3 DEF Apply, Change, Bump, PageInv
  <2> QED
    BY <2>1, <2>2, <2>3 DEF Sink
<1> QED
  BY <1>1, <1>2, <1>3

LEMMA PageStep == PageInv /\ [Next]_vars => PageInv'
<1> SUFFICES ASSUME PageInv, [Next]_vars PROVE PageInv'
  OBVIOUS
<1>1. CASE UNCHANGED boardVars
  BY <1>1 DEF boardVars, PageInv
<1>2. CASE \E w \in Workers : Emit(w)
  BY <1>2, SinkTells DEF Emit
<1>3. CASE Page
  BY <1>3 DEF Page, Connect, Wake, Fetch, Leave, PageInv
<1>4. CASE Restart
  BY <1>4 DEF Restart, Hydrate, PageInv
<1>5. ASSUME NEW t \in Tasks,
             \/ Ages(t) \/ IssueCloses(t) \/ Work(t)
             \/ PrEnds(t, "merged") \/ PrEnds(t, "closed")
             \/ WatchClaims(t) \/ IssueSees(t) \/ RetentionClaims(t)
             \/ RequestClaims(t)
      PROVE  UNCHANGED boardVars
  BY <1>5 DEF Ages, IssueCloses, Work, PrEnds, WatchClaims, IssueSees,
              RetentionClaims, RequestClaims, Claims
<1>6. CASE MergeClaims \/ MergeRaises \/ Settle
  BY <1>1, <1>6 DEF MergeClaims, MergeRaises, Settle, MergeOpen, MergeArchives,
                    IssueClaims, Resolve, Archived, Claims
<1>7. CASE SendsBack \/ Deletes
  BY <1>1, <1>7 DEF SendsBack, Deletes
<1>8. CASE UNCHANGED vars
  BY <1>1, <1>8 DEF vars
<1> QED
  BY <1>1, <1>2, <1>3, <1>4, <1>5, <1>6, <1>7, <1>8 DEF Next

(* No change is lost between a notification and the fetch it causes        *)
(* (BoardProjection._bump, board_event_stream).                            *)
THEOREM PageIsCurrentHolds == Spec => []PageIsCurrent
<1>1. Init => PageInv
  BY DEF Init, PageInv
<1>2. PageInv /\ [Next]_vars => PageInv'
  BY PageStep
<1>3. PageInv => PageIsCurrent
  BY DEF PageInv, PageIsCurrent
<1> QED
  BY <1>1, <1>2, <1>3, PTL DEF Spec

-----------------------------------------------------------------------------
(* The stamps of the candidates, and the types of the rest.                *)

LEMMA Least ==
    ASSUME NEW T \in SUBSET Nat, T # {}
    PROVE  \E x \in T : \A y \in T : x <= y
<1>1. PICK x \in T : \A y \in T : <<y, x>> \notin OpToRel(<, Nat)
  BY NatLessThanWellFounded, WFMin
<1>2. ASSUME NEW y \in T PROVE x <= y
  <2>1. <<y, x>> \notin {ss \in Nat \X Nat : ss[1] < ss[2]}
    BY <1>1 DEF OpToRel
  <2>2. <<y, x>> \in Nat \X Nat
    OBVIOUS
  <2>3. ~(y < x)
    BY <2>1, <2>2
  <2> QED
    BY <2>3
<1> QED
  BY <1>2

(* The queue of candidates without the one at i.                           *)
LEMMA WithoutAt ==
    ASSUME NEW S, NEW q \in Seq(S), IsInjective(q), NEW i \in 1 .. Len(q)
    PROVE  /\ RemoveAt(q, i) \in Seq(S) /\ IsInjective(RemoveAt(q, i))
           /\ \A k \in 1 .. Len(RemoveAt(q, i)) : RemoveAt(q, i)[k] # q[i]
<1>1. PICK n \in Nat : n = Len(q) /\ DOMAIN q = 1 .. n
  OBVIOUS
<1>2. PICK a : a = SubSeq(q, 1, i - 1)
  OBVIOUS
<1>3. PICK b : b = SubSeq(q, i + 1, n)
  OBVIOUS
<1>4. a \in Seq(S) /\ Len(a) = i - 1 /\ \A k \in 1 .. i - 1 : a[k] = q[k]
  BY <1>1, <1>2
<1>5. b \in Seq(S) /\ Len(b) = n - i /\ \A k \in 1 .. n - i : b[k] = q[i + k]
  BY <1>1, <1>3
<1>6. PICK r : r = RemoveAt(q, i) /\ r = a \o b
  BY <1>1, <1>2, <1>3 DEF RemoveAt
<1>10. r \in Seq(S)
  BY <1>4, <1>5, <1>6
<1>11. Len(r) = n - 1
  <2>1. Len(a \o b) = Len(a) + Len(b)
    BY <1>4, <1>5, SMTT(30)
  <2> QED
    BY <1>1, <1>4, <1>5, <1>6, <2>1
<1>12. ASSUME NEW k \in 1 .. n - 1
       PROVE  r[k] = q[IF k < i THEN k ELSE k + 1]
  <2>1. CASE k < i
    <3>1. k \in 1 .. Len(a)
      BY <1>1, <1>4, <2>1
    <3>2. (a \o b)[k] = a[k]
      BY <1>4, <1>5, <3>1
    <3> QED
      BY <1>1, <1>4, <1>6, <2>1, <3>2
  <2>2. CASE ~(k < i)
    <3>1. PICK l \in 1 .. n - i : k = (i - 1) + l
      <4>1. k - (i - 1) \in 1 .. n - i
        BY <1>1, <2>2
      <4> QED
        BY <1>1, <4>1
    <3>2. l \in 1 .. Len(b)
      BY <1>5
    <3>3. (a \o b)[Len(a) + l] = b[l]
      BY <1>4, <1>5, <3>2
    <3>4. b[l] = q[i + l] /\ i + l = k + 1
      BY <1>1, <1>5, <3>1
    <3> QED
      BY <1>1, <1>4, <1>6, <2>2, <3>1, <3>3, <3>4
  <2> QED
    BY <2>1, <2>2
<1>7. ASSUME NEW k \in 1 .. n - 1, NEW l \in 1 .. n - 1, r[k] = r[l] PROVE k = l
  <2>1. PICK u \in 1 .. n : u = IF k < i THEN k ELSE k + 1
    BY <1>1
  <2>2. PICK v \in 1 .. n : v = IF l < i THEN l ELSE l + 1
    BY <1>1
  <2>3. u = v
    BY <1>1, <1>12, <1>7, <2>1, <2>2 DEF IsInjective
  <2> QED
    BY <1>1, <2>1, <2>2, <2>3
<1>8. ASSUME NEW k \in 1 .. n - 1 PROVE r[k] # q[i]
  <2>1. PICK u \in 1 .. n : u = (IF k < i THEN k ELSE k + 1) /\ u # i
    BY <1>1
  <2> QED
    BY <1>1, <1>12, <2>1 DEF IsInjective
<1>9. DOMAIN r = 1 .. n - 1
  BY <1>1, <1>10, <1>11
<1> QED
  BY <1>1, <1>6, <1>7, <1>8, <1>9, <1>10, <1>11 DEF IsInjective

LEMMA Without ==
    ASSUME NEW S, NEW q \in Seq(S), IsInjective(q), NEW e
    PROVE  /\ RemoveFirst(q, e) \in Seq(S) /\ IsInjective(RemoveFirst(q, e))
           /\ \A k \in 1 .. Len(RemoveFirst(q, e)) : RemoveFirst(q, e)[k] # e
<1>1. CASE \A i \in 1 .. Len(q) : q[i] # e
  BY <1>1 DEF RemoveFirst
<1>2. CASE \E i \in 1 .. Len(q) : q[i] = e
  <2> DEFINE I == {i \in 1 .. Len(q) : q[i] = e}
  <2>1. I \in SUBSET Nat /\ I # {}
    BY <1>2
  <2>2. PICK x \in I : x = Min(I)
    <3> HIDE DEF I
    <3> QED
      BY <2>1, Least DEF Min
  <2>3. RemoveFirst(q, e) = RemoveAt(q, x)
    BY <1>2, <2>1, <2>2 DEF RemoveFirst, SelectInSeq
  <2>4. x \in 1 .. Len(q) /\ q[x] = e
    BY <2>2
  <2> QED
    BY <2>3, <2>4, WithoutAt
<1> QED
  BY <1>1, <1>2

(* A candidate that is not in the queue is added as the last.              *)
LEMMA WithLast ==
    ASSUME NEW S, NEW q \in Seq(S), IsInjective(q), NEW e \in S,
           \A k \in 1 .. Len(q) : q[k] # e
    PROVE  Append(q, e) \in Seq(S) /\ IsInjective(Append(q, e))
<1>1. PICK n \in Nat : n = Len(q) /\ DOMAIN q = 1 .. n
  OBVIOUS
<1>2. PICK r : r = Append(q, e) /\ r \in Seq(S) /\ Len(r) = n + 1
  <2>1. Append(q, e) \in Seq(S)
    OBVIOUS
  <2>2. Len(Append(q, e)) = n + 1
    BY <1>1
  <2> QED
    BY <2>1, <2>2
<1>3. r[n + 1] = e /\ \A k \in 1 .. n : r[k] = q[k]
  <2>1. Append(q, e)[Len(q) + 1] = e
    OBVIOUS
  <2>2. \A k \in 1 .. Len(q) : Append(q, e)[k] = q[k]
    OBVIOUS
  <2> QED
    BY <1>1, <1>2, <2>1, <2>2
<1>4. DOMAIN r = 1 .. n + 1
  BY <1>2
<1>5. ASSUME NEW k \in 1 .. n + 1, NEW l \in 1 .. n + 1, r[k] = r[l] PROVE k = l
  <2>1. CASE k = n + 1 /\ l # n + 1
    BY <1>1, <1>3, <1>5, <2>1
  <2>2. CASE l = n + 1 /\ k # n + 1
    BY <1>1, <1>3, <1>5, <2>2
  <2>3. CASE k # n + 1 /\ l # n + 1
    BY <1>1, <1>3, <1>5, <2>3 DEF IsInjective
  <2> QED
    BY <2>1, <2>2, <2>3
<1> QED
  BY <1>2, <1>4, <1>5 DEF IsInjective

(* Only candidates are stamped, and each stands in the order once.         *)
Stamped ==
    /\ checked \in Seq(WithPr) /\ IsInjective(checked)
    /\ loop # Free /\ loop.at = "merge" => loop.task \in WithPr

Plain ==
    /\ aged \in [Tasks -> BOOLEAN]
    /\ prs \in [Tasks -> {"open", "merged", "closed"}] /\ closed \subseteq Tasks
    /\ crossed \subseteq Tasks
    /\ requests \in Nat /\ errors \in Nat /\ crashes \in Nat
    /\ client \in {"away", "waiting", "woken"} /\ slot \in BOOLEAN /\ fresh \in BOOLEAN

LEMMA StampedStep == IInv /\ Stamped /\ [Next]_vars => Stamped'
<1> SUFFICES ASSUME IInv, Stamped, [Next]_vars PROVE Stamped'
  OBVIOUS
<1>1. CASE UNCHANGED <<checked, loop>>
  BY <1>1 DEF Stamped
<1>2. CASE UNCHANGED checked /\ loop' = Free
  BY <1>2 DEF Stamped
<1>3. ASSUME NEW t \in Tasks, NEW at, at # "merge", UNCHANGED checked,
             loop' = [at |-> at, task |-> t]
      PROVE  Stamped'
  BY <1>3 DEF Stamped
<1>4. ASSUME NEW t \in Tasks, Work(t) PROVE Stamped'
  <2>1. checked' = RemoveFirst(checked, t) /\ loop' = loop
    BY <1>4 DEF Work
  <2> QED
    BY <2>1, Without DEF Stamped
<1>5. CASE MergeClaims
  <2>1. PICK t \in Candidates : Claims(t, [at |-> "merge", task |-> t])
    BY <1>5 DEF MergeClaims
  <2>2. t \in WithPr
    BY DEF Candidates
  <2> QED
    BY <2>1, <2>2 DEF Claims, Stamped
<1>6. CASE MergeOpen
  <2>1. PICK t \in WithPr : t = loop.task
    BY <1>6 DEF MergeOpen, Stamped, Free
  <2>2. checked' = Append(RemoveFirst(checked, t), t) /\ loop' = Free
    BY <1>6, <2>1 DEF MergeOpen
  <2> QED
    BY <2>2, Without, WithLast DEF Stamped
<1>7. CASE \E t \in Tasks : IssueSees(t)
  BY <1>7 DEF IssueSees, Stamped
<1>8. CASE IssueClaims
  BY <1>2, <1>3, <1>8 DEF IssueClaims, Claims, Stamped
<1>9. CASE \E t \in Tasks : WatchClaims(t) \/ RetentionClaims(t)
  BY <1>9 DEF WatchClaims, RetentionClaims, Claims, Stamped
<1>10. CASE MergeRaises \/ MergeArchives \/ Resolve \/ Restart
  BY <1>2, <1>10 DEF MergeRaises, MergeArchives, Resolve, Archived, Restart
<1>11. CASE \E t \in Tasks : \/ Ages(t) \/ IssueCloses(t) \/ RequestClaims(t)
                             \/ PrEnds(t, "merged") \/ PrEnds(t, "closed")
  BY <1>1, <1>11 DEF Ages, IssueCloses, RequestClaims, PrEnds
<1>12. CASE \/ \E w \in Workers : Emit(w)
            \/ SendsBack \/ Deletes \/ Page \/ UNCHANGED vars
  BY <1>1, <1>12 DEF Emit, SendsBack, Deletes, Page, vars
<1> QED
  BY <1>4, <1>5, <1>6, <1>7, <1>8, <1>9, <1>10, <1>11, <1>12 DEF Next, Settle

LEMMA PlainStep == IInv /\ TInv /\ Plain /\ [Next]_vars => Plain'
<1> SUFFICES ASSUME IInv, TInv, Plain, [Next]_vars PROVE Plain'
  OBVIOUS
<1>1. ASSUME NEW w \in Workers, Emit(w) PROVE Plain'
  <2>1. outbox[w].task \in Tasks
    BY <1>1 DEF Emit, TInv, BInv, OutboxOK, Events
  <2>2. crossed' \subseteq Tasks
    BY <1>1, <2>1 DEF Emit, Plain
  <2>3. slot' \in BOOLEAN /\ fresh' \in BOOLEAN
    <3>1. \/ RemoveCard(outbox[w].task) \/ Archive(outbox[w].task)
          \/ Apply(outbox[w].task, outbox[w].column)
      BY <1>1 DEF Emit, Sink
    <3> QED
      BY <3>1 DEF RemoveCard, Archive, Apply, Change, Bump, Plain
  <2> QED
    BY <1>1, <2>2, <2>3 DEF Emit, Plain, world, counters
<1>2. CASE Page
  BY <1>2 DEF Page, Connect, Wake, Fetch, Leave, Plain, world, counters
<1>3. CASE Restart
  <2>1. /\ UNCHANGED <<aged, prs, closed, requests, errors>>
        /\ crashes' = crashes + 1 /\ crossed' = {}
    BY <1>3 DEF Restart, world
  <2>2. client' = "away" /\ slot' = FALSE /\ fresh' = FALSE
    BY <1>3 DEF Restart, Hydrate
  <2>3. crashes' \in Nat /\ crossed' \subseteq Tasks
    BY <2>1 DEF Plain
  <2>4. client' \in {"away", "waiting", "woken"} /\ slot' \in BOOLEAN /\ fresh' \in BOOLEAN
    BY <2>2, Zenon
  <2> QED
    BY <2>1, <2>3, <2>4 DEF Plain
<1>4. ASSUME NEW t \in Tasks, Ages(t) \/ Work(t) PROVE Plain'
  BY <1>4 DEF Ages, Work, Plain, boardVars, world, counters
<1>5. ASSUME NEW t \in Tasks,
             IssueCloses(t) \/ PrEnds(t, "merged") \/ PrEnds(t, "closed")
      PROVE  Plain'
  BY <1>5 DEF IssueCloses, PrEnds, Plain, boardVars, counters
<1>6. ASSUME NEW t \in Tasks,
             WatchClaims(t) \/ IssueSees(t) \/ RetentionClaims(t) \/ RequestClaims(t)
      PROVE  Plain'
  BY <1>6 DEF WatchClaims, IssueSees, RetentionClaims, RequestClaims, Claims,
              Plain, boardVars, world, counters
<1>7. CASE MergeClaims \/ MergeRaises \/ MergeOpen \/ IssueClaims
  BY <1>7 DEF MergeClaims, MergeRaises, MergeOpen, IssueClaims, Claims,
              Plain, boardVars, world, counters
<1>8. CASE MergeArchives \/ Resolve
  BY <1>8 DEF MergeArchives, Resolve, Archived, Plain, boardVars, world, counters
<1>9. CASE SendsBack
  BY <1>9 DEF SendsBack, Plain, boardVars, world, counters
<1>10. CASE Deletes \/ UNCHANGED vars
  BY <1>10 DEF Deletes, Plain, boardVars, world, counters, vars
<1> QED
  BY <1>1, <1>2, <1>3, <1>4, <1>5, <1>6, <1>7, <1>8, <1>9, <1>10 DEF Next, Settle

(* Every variable has its type, what is begun and announced are tasks there *)
(* are, and no candidate is stamped twice (MergeReconciler's checkedAt).    *)
THEOREM TypeCorrect == Spec => []TypeOK
<1>1. Init => IInv /\ TInv /\ Stamped /\ Plain
  <2>1. Init => Stamped
    BY DEF Init, Stamped, IsInjective, Free
  <2>2. Init => Plain
    <3>1. Init => client = "away" /\ slot = FALSE /\ fresh = FALSE
      BY DEF Init
    <3>2. Init => client \in {"away", "waiting", "woken"} /\ slot \in BOOLEAN /\ fresh \in BOOLEAN
      BY <3>1, Zenon
    <3>3. Init => aged \in [Tasks -> BOOLEAN]
      BY DEF Init
    <3>4. Init => prs \in [Tasks -> {"open", "merged", "closed"}]
      BY DEF Init
    <3>5. Init => /\ closed \subseteq Tasks /\ crossed \subseteq Tasks
                  /\ requests \in Nat /\ errors \in Nat /\ crashes \in Nat
      BY DEF Init
    <3> QED
      BY <3>2, <3>3, <3>4, <3>5 DEF Plain
  <2> QED
    BY <2>1, <2>2, Initially, InitiallyTold
<1>2. IInv /\ TInv /\ Stamped /\ Plain /\ [Next]_vars
         => (IInv /\ TInv /\ Stamped /\ Plain)'
  BY Step, BStep, StampedStep, PlainStep
<1>3. IInv /\ TInv /\ Stamped /\ Plain => TypeOK
  <2> SUFFICES ASSUME IInv, TInv, Stamped, Plain PROVE TypeOK
    OBVIOUS
  <2>1. Range(checked) \subseteq WithPr
    BY DEF Stamped, Range
  <2>2. \A w \in Workers : outbox[w] = Silence \/ outbox[w].task \in Tasks
    BY DEF TInv, BInv, OutboxOK, Events
  <2>3. /\ loop = Free \/ (loop.task \in Tasks /\ loop.at \in {"merge", "claim", "resolve"})
        /\ \/ request = Free
           \/ request.task \in Tasks /\ request.at \in {"resume", "restart", "delete"}
    BY DEF IInv, LoopTask, Shapes
  <2>4. BoardTypeOK
    BY DEF BoardTypeOK, TInv, BInv, Plain
  <2> QED
    BY <2>1, <2>2, <2>3, <2>4
       DEF TypeOK, IInv, ClaimShape, ClaimPlace, TInv, Quiet, Stamped, Plain, counters
<1> QED
  BY <1>1, <1>2, <1>3, PTL DEF Spec
===========================================================================
