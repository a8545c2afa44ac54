--------------------------- MODULE HarnessProofs ---------------------------
(***************************************************************************)
(* What the harness guarantees for any workflows, any number of tasks,     *)
(* steps, threads, requests and crashes.                                   *)
(***************************************************************************)
EXTENDS Stats, FiniteSetTheorems, TLAPS

-----------------------------------------------------------------------------
(* Who holds what: the first inductive invariant.                          *)

\* What a task keeps for life: nothing rewrites these fields.
SameMake(f, g) ==
    /\ f.workflow = g.workflow /\ f.step = g.step
    /\ f.origin = g.origin /\ f.of = g.of

Asks(a) == thread[a].stage \in {"found", "claimed", "written"}
Has(a) == thread[a].stage \in {"claimed", "written"}
Writes(a) == thread[a].stage = "written"
Moves(t) == loop.stage = "moving" /\ loop.task = t

LoopHas ==
    loop.stage = "moving" =>
        /\ held[loop.task] /\ loop.task \notin running
        /\ at[loop.task] \in StepQueues \cup {Inbox, Failed}

ConsumerHas == \A t \in running : held[t] /\ at[t] \in StepQueues

ThreadHas ==
    \A a \in Threads : Has(a) =>
        /\ held[thread[a].task] /\ at[thread[a].task] = thread[a].queue
        /\ thread[a].task \notin running /\ ~Moves(thread[a].task)
        /\ thread[a].stage = "claimed" => file[thread[a].task] = thread[a].copy

OneThreadHas ==
    \A a, b \in Threads :
        Has(a) /\ Has(b) /\ thread[a].task = thread[b].task => a = b

SomeoneHas ==
    up => \A t \in Ids : held[t] =>
        Moves(t) \/ t \in running \/ \E a \in Threads : Has(a) /\ thread[a].task = t

HeldIsThere == \A t \in Ids : held[t] => at[t] # Nowhere

IdsInOrder == \A t \in Ids : t > minted => at[t] = Nowhere

DownHasNothing ==
    ~up => loop = Free /\ running = {} /\ \A a \in Threads : thread[a] = NoRequest

\* What a request still knows of its task when the task has changed since.
RequestKnows ==
    \A a \in Threads : Asks(a) =>
        /\ thread[a].task <= minted
        /\ thread[a].queue \in LooksIn(thread[a].verb)
        /\ Accepts(thread[a].verb, thread[a].copy)
        /\ file[thread[a].task] # NoTask =>
              SameMake(thread[a].copy, file[thread[a].task])

Holding ==
    /\ TypeOK
    /\ LoopHas /\ ConsumerHas /\ ThreadHas /\ OneThreadHas /\ SomeoneHas
    /\ HeldIsThere /\ IdsInOrder /\ DownHasNothing /\ RequestKnows

-----------------------------------------------------------------------------
(* The operations on a task's file.                                        *)

LEMMA Names ==
    /\ DISPATCHER # CONSUMER /\ DISPATCHER # HEAL_ACTOR /\ DISPATCHER # OPERATOR
    /\ CONSUMER # HEAL_ACTOR /\ CONSUMER # OPERATOR /\ HEAL_ACTOR # OPERATOR
    /\ END # FAILED /\ END # None /\ FAILED # None
    /\ Inbox # Done /\ Inbox # Failed /\ Done # Failed
    /\ Nowhere \notin Queues
    /\ Inbox \notin StepQueues /\ Done \notin StepQueues /\ Failed \notin StepQueues
    /\ StepQueues \subseteq Steps /\ Steps \subseteq Statuses
    /\ END \notin Steps /\ FAILED \notin Steps /\ None \notin Steps
BY ModelsAssumption, HarnessAssumption
DEF DISPATCHER, CONSUMER, HEAL_ACTOR, OPERATOR, END, FAILED, None, Inbox, Done, Failed,
       Nowhere, Queues, Statuses

LEMMA EntryTyped ==
    ASSUME NEW actor \in {DISPATCHER, CONSUMER, HEAL_ACTOR, OPERATOR},
           NEW from \in Statuses, NEW to \in Statuses, NEW outcome \in Outcomes \cup {None}
    PROVE  /\ Entry(actor, from, to, outcome) \in EntryType
           /\ \A r \in Statuses :
                 [Entry(actor, from, to, outcome) EXCEPT !.resumed = r] \in EntryType
BY DEF Entry, EntryType, Statuses

\* g is f with another status and outcome and one more entry in its history.
Updated(g, f, s, o, e) ==
    /\ g \in TaskType /\ SameMake(g, f)
    /\ g.status = s /\ g.last = o
    /\ g.hist = Append(f.hist, e)

LEMMA StampUpdates ==
    ASSUME NEW f \in TaskType, NEW g \in TaskType, NEW e \in EntryType,
           SameMake(g, f), g.hist = f.hist
    PROVE  Updated(Stamp(g, e), f, g.status, g.last, e)
<1> DEFINE h == [g EXCEPT !.hist = Append(@, e)]
<1>1. g.hist \in Seq(EntryType)  BY DEF TaskType
<1>2. Append(g.hist, e) \in Seq(EntryType)  BY <1>1
<1>3. h \in TaskType /\ SameMake(h, g) /\ h.status = g.status /\ h.last = g.last
      /\ h.hist = Append(g.hist, e)
  BY <1>2 DEF TaskType, SameMake
<1> QED  BY <1>3 DEF Stamp, SameMake, Updated

LEMMA StatusTyped ==
    ASSUME NEW f \in TaskType, NEW s \in Statuses
    PROVE  LET g == [f EXCEPT !.status = s]
           IN  g \in TaskType /\ SameMake(g, f) /\ g.status = s /\ g.last = f.last
               /\ g.hist = f.hist
BY DEF TaskType, SameMake

LEMMA LastTyped ==
    ASSUME NEW f \in TaskType, NEW o \in Outcomes \cup {None}
    PROVE  LET g == [f EXCEPT !.last = o]
           IN  g \in TaskType /\ SameMake(g, f) /\ g.status = f.status /\ g.last = o
               /\ g.hist = f.hist
BY DEF TaskType, SameMake

With(f, s, o) == [f EXCEPT !.status = s, !.last = o]

LEMMA BothTyped ==
    ASSUME NEW f \in TaskType, NEW s \in Statuses, NEW o \in Outcomes \cup {None}
    PROVE  LET g == With(f, s, o)
           IN  g \in TaskType /\ SameMake(g, f) /\ g.status = s /\ g.last = o
               /\ g.hist = f.hist
BY DEF TaskType, SameMake, With

LEMMA NewTyped ==
    ASSUME NEW of \in Ids \cup {0}
    PROVE  HealTask(of) \in TaskType /\ \A s \in Submissions : NewTask(s, of) \in TaskType
<1>1. <<>> \in Seq(EntryType)  OBVIOUS
<1> QED  BY <1>1, Names DEF NewTask, HealTask, TaskType, Statuses

\* The dispatcher's three verdicts.
LEMMA DispatchUpdates ==
    ASSUME NEW f \in TaskType, NEW s \in Statuses
    PROVE  LET e == Entry(DISPATCHER, f.status, s, f.last)
           IN  /\ e \in EntryType
               /\ Updated(Stamp([f EXCEPT !.status = s], e), f, s, f.last, e)
<1> DEFINE e == Entry(DISPATCHER, f.status, s, f.last)
           g == [f EXCEPT !.status = s]
<1>1. e \in EntryType  BY EntryTyped DEF TaskType
<1>2. g \in TaskType /\ SameMake(g, f) /\ g.status = s /\ g.last = f.last /\ g.hist = f.hist
  BY StatusTyped
<1> HIDE DEF e, g
<1>3. Updated(Stamp(g, e), f, g.status, g.last, e)  BY <1>1, <1>2, StampUpdates
<1> QED  BY <1>1, <1>2, <1>3 DEF e, g

LEMMA DeliverUpdates ==
    ASSUME NEW f \in TaskType, NEW q \in StepQueues, NEW o \in Outcomes
    PROVE  LET e == Entry(CONSUMER, q, None, o)
           IN  /\ e \in EntryType
               /\ Updated(Stamp([f EXCEPT !.last = o], e), f, f.status, o, e)
<1> DEFINE e == Entry(CONSUMER, q, None, o)
           g == [f EXCEPT !.last = o]
<1>1. e \in EntryType  BY EntryTyped, Names DEF Statuses
<1>2. g \in TaskType /\ SameMake(g, f) /\ g.status = f.status /\ g.last = o /\ g.hist = f.hist
  BY LastTyped
<1> HIDE DEF e, g
<1>3. Updated(Stamp(g, e), f, g.status, g.last, e)  BY <1>1, <1>2, StampUpdates
<1> QED  BY <1>1, <1>2, <1>3 DEF e, g

LEMMA FailUpdates ==
    ASSUME NEW f \in TaskType, NEW q \in StepQueues
    PROVE  LET e == Entry(CONSUMER, q, FAILED, None)
           IN  /\ e \in EntryType
               /\ Updated(Stamp([f EXCEPT !.status = FAILED], e), f, FAILED, f.last, e)
<1> DEFINE e == Entry(CONSUMER, q, FAILED, None)
           g == [f EXCEPT !.status = FAILED]
<1>1. e \in EntryType /\ FAILED \in Statuses  BY EntryTyped, Names DEF Statuses
<1>2. g \in TaskType /\ SameMake(g, f) /\ g.status = FAILED /\ g.last = f.last /\ g.hist = f.hist
  BY <1>1, StatusTyped
<1> HIDE DEF e, g
<1>3. Updated(Stamp(g, e), f, g.status, g.last, e)  BY <1>1, <1>2, StampUpdates
<1> QED  BY <1>1, <1>2, <1>3 DEF e, g

LEMMA DeclineUpdates ==
    ASSUME NEW f \in TaskType
    PROVE  LET e == Entry(HEAL_ACTOR, FAILED, FAILED, None)
           IN  e \in EntryType /\ Updated(Stamp(f, e), f, f.status, f.last, e)
<1>1. Entry(HEAL_ACTOR, FAILED, FAILED, None) \in EntryType  BY EntryTyped DEF Statuses
<1> QED  BY <1>1, StampUpdates DEF SameMake

LEMMA SettleUpdates ==
    ASSUME NEW f \in TaskType
    PROVE  LET e == Entry(HEAL_ACTOR, FAILED, END, None)
           IN  e \in EntryType /\ Updated(Stamp([f EXCEPT !.status = END], e), f, END, f.last, e)
<1> DEFINE e == Entry(HEAL_ACTOR, FAILED, END, None)
           g == [f EXCEPT !.status = END]
<1>1. e \in EntryType /\ END \in Statuses  BY EntryTyped DEF Statuses
<1>2. g \in TaskType /\ SameMake(g, f) /\ g.status = END /\ g.last = f.last /\ g.hist = f.hist
  BY <1>1, StatusTyped
<1> HIDE DEF e, g
<1>3. Updated(Stamp(g, e), f, g.status, g.last, e)  BY <1>1, <1>2, StampUpdates
<1> QED  BY <1>1, <1>2, <1>3 DEF e, g

LEMMA RestartedUpdates ==
    ASSUME NEW f \in TaskType
    PROVE  LET e == Entry(OPERATOR, FAILED, None, None)
           IN  e \in EntryType /\ Updated(Restarted(f), f, None, None, e)
<1> DEFINE e == Entry(OPERATOR, FAILED, None, None)
           g == With(f, None, None)
<1>1. e \in EntryType /\ None \in Statuses /\ None \in Outcomes \cup {None}
  BY EntryTyped DEF Statuses
<1>2. g \in TaskType /\ SameMake(g, f) /\ g.status = None /\ g.last = None /\ g.hist = f.hist
  BY <1>1, BothTyped
<1> HIDE DEF e, g
<1>3. Updated(Stamp(g, e), f, g.status, g.last, e)  BY <1>1, <1>2, StampUpdates
<1>4. Restarted(f) = Stamp(g, e)  BY DEF e, g, Restarted, With
<1> QED  BY <1>1, <1>2, <1>3, <1>4 DEF e

\* NewestMoveTo finds what its name says.
IsNewest(hist, to, k) ==
    /\ k \in DOMAIN hist /\ hist[k].to = to
    /\ \A j \in DOMAIN hist : hist[j].to = to => j <= k

LEMMA NewestMove ==
    ASSUME NEW hist \in Seq(EntryType), NEW to
    PROVE  /\ (\A i \in DOMAIN hist : hist[i].to # to) => NewestMoveTo(hist, to) = 0
           /\ \A k : IsNewest(hist, to, k) => NewestMoveTo(hist, to) = k /\ k # 0
<1>1. DOMAIN hist = 1 .. Len(hist) /\ Len(hist) \in Nat  OBVIOUS
<1>2. ASSUME NEW k, IsNewest(hist, to, k)  PROVE NewestMoveTo(hist, to) = k /\ k # 0
  <2> DEFINE moves == {i \in DOMAIN hist : hist[i].to = to}
  <2>1. k \in moves /\ \A j \in moves : j <= k  BY <1>2 DEF IsNewest
  <2>2. \A i \in moves : i \in Nat  BY <1>1
  <2>3. \A i \in moves : (\A j \in moves : j <= i) => i = k  BY <2>1, <2>2
  <2>4. (CHOOSE i \in moves : \A j \in moves : j <= i) = k  BY <2>1, <2>3
  <2> QED  BY <1>1, <2>1, <2>4 DEF NewestMoveTo
<1> QED  BY <1>2 DEF NewestMoveTo

Below == {ss \in Nat \X Nat : ss[1] < ss[2]}

\* A set of numbers up to n has a largest one.
LEMMA LargestExists ==
    ASSUME NEW n \in Nat, NEW T \in SUBSET (0 .. n), T # {}
    PROVE  \E k \in T : \A j \in T : j <= k
<1> DEFINE D == {n - x : x \in T}
<1>0. \A x \in T : x \in Nat /\ n - x \in Nat  OBVIOUS
<1>1. D \subseteq Nat /\ D # {}  BY <1>0
<1>2. IsWellFoundedOn(Below, Nat)  BY NatLessThanWellFounded DEF Below, OpToRel
<1>3. PICK d \in D : \A y \in D : <<y, d>> \notin Below  BY <1>1, <1>2, WFMin
<1>4. PICK k \in T : d = n - k  OBVIOUS
<1>5. ASSUME NEW j \in T  PROVE j <= k
  <2>1. n - j \in D /\ n - j \in Nat /\ d \in Nat  BY <1>1
  <2>2. ~(n - j < d)  BY <1>3, <2>1 DEF Below
  <2>3. j \in Nat /\ k \in Nat  OBVIOUS
  <2> QED  BY <1>4, <2>1, <2>2, <2>3
<1> QED  BY <1>5

LEMMA NewestMoveTyped ==
    ASSUME NEW hist \in Seq(EntryType), NEW to
    PROVE  NewestMoveTo(hist, to) \in {0} \cup DOMAIN hist
<1> DEFINE moves == {i \in DOMAIN hist : hist[i].to = to}
<1>1. CASE moves = {}  BY <1>1 DEF NewestMoveTo
<1>2. CASE moves # {}
  <2>1. Len(hist) \in Nat /\ moves \in SUBSET (0 .. Len(hist))  OBVIOUS
  <2>2. \E i \in moves : \A j \in moves : j <= i  BY <1>2, <2>1, LargestExists
  <2>3. (CHOOSE i \in moves : \A j \in moves : j <= i) \in moves  BY <2>2
  <2> QED  BY <1>2, <2>3 DEF NewestMoveTo
<1> QED  BY <1>1, <1>2

LEMMA RewindTyped ==
    ASSUME NEW f \in TaskType
    PROVE  /\ FailedStep(f) \in Statuses
           /\ Rewind(f).status \in Statuses /\ Rewind(f).last \in Outcomes \cup {None}
<1>1. f.hist \in Seq(EntryType)  BY DEF TaskType
<1>2. \A i \in DOMAIN f.hist : /\ f.hist[i].from \in Statuses
                               /\ f.hist[i].outcome \in Outcomes \cup {None}
  <2>1. \A i \in DOMAIN f.hist : f.hist[i] \in EntryType  BY <1>1
  <2> QED  BY <2>1 DEF EntryType
<1>3. \A to : NewestMoveTo(f.hist, to) \in {0} \cup DOMAIN f.hist  BY <1>1, NewestMoveTyped
<1>4. FailedStep(f) \in Statuses  BY <1>2, <1>3 DEF FailedStep, Statuses
<1> QED  BY <1>2, <1>3, <1>4 DEF Rewind, Statuses

LEMMA ResumedUpdates ==
    ASSUME NEW f \in TaskType
    PROVE  LET e == [Entry(OPERATOR, f.status, None, None) EXCEPT !.resumed = FailedStep(f)]
           IN  /\ e \in EntryType /\ e.resumed = FailedStep(f) /\ e.to = None
               /\ e.actor = OPERATOR
               /\ Updated(Resumed(f), f, Rewind(f).status, Rewind(f).last, e)
<1> DEFINE e == [Entry(OPERATOR, f.status, None, None) EXCEPT !.resumed = FailedStep(f)]
           g == With(f, Rewind(f).status, Rewind(f).last)
<1>1. f.status \in Statuses /\ None \in Statuses /\ None \in Outcomes \cup {None}
  BY DEF TaskType, Statuses
<1>2. e \in EntryType  BY <1>1, RewindTyped, EntryTyped
<1>3. e.resumed = FailedStep(f) /\ e.to = None /\ e.actor = OPERATOR  BY DEF Entry
<1>4. g \in TaskType /\ SameMake(g, f) /\ g.status = Rewind(f).status
      /\ g.last = Rewind(f).last /\ g.hist = f.hist
  <2>1. PICK s \in Statuses, o \in Outcomes \cup {None} :
           s = Rewind(f).status /\ o = Rewind(f).last
    BY RewindTyped
  <2> QED  BY <2>1, BothTyped
<1>5. Resumed(f) = Stamp(g, e)  BY DEF Resumed, With
<1> HIDE DEF e, g
<1>6. Updated(Stamp(g, e), f, g.status, g.last, e)  BY <1>2, <1>4, StampUpdates
<1> QED  BY <1>2, <1>3, <1>4, <1>5, <1>6 DEF e

-----------------------------------------------------------------------------
(* What the loop writes back, and who writes it.                           *)

ByDispatcher(t, new, dest, then) ==
    /\ loop = Free /\ then = Free /\ up /\ Lies(t, Inbox)
    /\ \E s \in Statuses :
          /\ Updated(new, file[t], s, file[t].last,
                     Entry(DISPATCHER, file[t].status, s, file[t].last))
          /\ \/ s = FAILED /\ dest = Failed
                /\ ~(\E q \in StepQueues : Known(file[t]) /\ Route(file[t]) = MovesTo(q))
             \/ s = END /\ dest = Done /\ Known(file[t]) /\ Route(file[t]).kind = "finish"
             \/ s \in StepQueues /\ dest = s /\ Known(file[t]) /\ Route(file[t]) = MovesTo(s)

ByDelivery(t, new, dest, then) ==
    /\ loop = Free /\ then = Free /\ t \in running /\ dest = Inbox
    /\ \E o \in Outcomes :
          Updated(new, file[t], file[t].status, o, Entry(CONSUMER, at[t], None, o))

ByFailure(t, new, dest, then) ==
    /\ loop = Free /\ then = Free /\ t \in running /\ dest = Failed
    /\ Updated(new, file[t], FAILED, file[t].last, Entry(CONSUMER, at[t], FAILED, None))

ByNote(t, new, dest, then) ==
    /\ loop.stage = "healing" /\ Lies(t, Failed) /\ dest = Failed
    /\ then = Healing(loop.todo \ {t}, loop.obs)
    /\ HarnessMade(file[t]) /\ ~AlreadyDeclined(file[t])
    /\ Updated(new, file[t], file[t].status, file[t].last,
               Entry(HEAL_ACTOR, FAILED, FAILED, None))

ByRetirement(t, new, dest, then) ==
    /\ loop.stage = "healing" /\ Lies(t, Failed) /\ dest = Done
    /\ then = Healing(loop.todo \ {t}, loop.obs \cup {t})
    /\ ~HarnessMade(file[t])
    /\ Updated(new, file[t], END, file[t].last, Entry(HEAL_ACTOR, FAILED, END, None))

Written(t, new, dest, then) ==
    /\ WriteBack(t, new, dest, then) /\ running' = running \ {t}
    /\ \/ ByDispatcher(t, new, dest, then)
       \/ ByDelivery(t, new, dest, then) \/ ByFailure(t, new, dest, then)
       \/ ByNote(t, new, dest, then) \/ ByRetirement(t, new, dest, then)

WritesBack ==
    \E t \in Ids, new \in TaskType, dest \in Queues, then \in Rests :
        Written(t, new, dest, then)

LEMMA LoopShape ==
    ASSUME loop \in Rests \cup Transfers
    PROVE  /\ loop.stage = "moving" <=> loop \in Transfers
           /\ loop \in Rests <=> loop = Free \/ loop.stage = "healing"
           /\ loop = Free <=> loop.stage = "free"
           /\ loop \in Transfers => loop.task \in Ids /\ loop.dest \in Queues /\ loop.then \in Rests
           /\ loop.stage = "healing" => loop.todo \subseteq Ids /\ loop.obs \subseteq Ids
BY DEF Rests, Transfers, Free

LEMMA RouteShape ==
    ASSUME NEW f
    PROVE  /\ Route(f).kind = "move" => Route(f) = MovesTo(Route(f).step)
           /\ Route(f).kind \in {"fail", "finish", "move"}
           /\ \A q : MovesTo(q).kind = "move" /\ MovesTo(q).step = q
<1>1. \A q : MovesTo(q).kind = "move" /\ MovesTo(q).step = q  BY DEF MovesTo
<1>2. Fails.kind = "fail" /\ Finishes.kind = "finish"  BY DEF Fails, Finishes
<1>3. Route(f) = Fails \/ Route(f) = Finishes \/ \E q : Route(f) = MovesTo(q)
  BY DEF Route
<1> QED  BY <1>1, <1>2, <1>3

\* A task that lies in a queue, or whose consumer is at work, has a file.
LEMMA LyingTyped ==
    ASSUME Holding, NEW t \in Ids
    PROVE  /\ \A q \in Queues : Lies(t, q) => file[t] \in TaskType /\ t \notin running
           /\ t \in running => file[t] \in TaskType /\ at[t] \in StepQueues
           /\ running # {} => up
<1>1. t \in running => held[t] /\ at[t] \in StepQueues  BY DEF Holding, ConsumerHas
<1>2. at[t] \in Queues => file[t] \in TaskType  BY Names DEF Holding, TypeOK
<1>3. StepQueues \subseteq Queues  BY DEF Queues
<1> QED  BY <1>1, <1>2, <1>3 DEF Lies, Holding, DownHasNothing

LEMMA DispatchWrites == ASSUME Holding, Dispatch PROVE WritesBack
<1>1. PICK t \in Ids : /\ Lies(t, Inbox)
                       /\ LET decision == Route(file[t])
                          IN  \/ ~Known(file[t]) /\ DispatchFailure(t)
                              \/ Known(file[t]) /\ decision.kind = "fail" /\ DispatchFailure(t)
                              \/ Known(file[t]) /\ decision.kind = "finish" /\ DispatchEnd(t)
                              \/ /\ Known(file[t]) /\ decision.kind = "move"
                                 /\ decision.step \notin StepQueues
                                 /\ DispatchFailure(t)
                              \/ /\ Known(file[t]) /\ decision.kind = "move"
                                 /\ decision.step \in StepQueues
                                 /\ DispatchMove(t, decision.step)
  BY DEF Dispatch, Oldest, InQueue
<1> DEFINE f == file[t]
           New(s) == Stamp([f EXCEPT !.status = s], Entry(DISPATCHER, f.status, s, f.last))
<1>2. loop = Free /\ up /\ Free \in Rests /\ f \in TaskType /\ running' = running \ {t}
  BY <1>1, LyingTyped DEF Dispatch, Rests, Queues
<1>3. ASSUME NEW s \in Statuses
      PROVE  New(s) \in TaskType
             /\ Updated(New(s), f, s, f.last, Entry(DISPATCHER, f.status, s, f.last))
  BY <1>2, DispatchUpdates DEF Updated
<1>4. FAILED \in Statuses /\ END \in Statuses /\ StepQueues \subseteq Statuses
      /\ StepQueues \subseteq Queues /\ Failed \in Queues /\ Done \in Queues
  BY Names DEF Statuses, Queues
<1>5. CASE DispatchFailure(t) /\ ~(\E q \in StepQueues : Known(f) /\ Route(f) = MovesTo(q))
  <2>1. WriteBack(t, New(FAILED), Failed, Free)  BY <1>5 DEF DispatchFailure
  <2>2. ByDispatcher(t, New(FAILED), Failed, Free)
    BY <1>1, <1>2, <1>3, <1>4, <1>5 DEF ByDispatcher
  <2> HIDE DEF New, f
  <2> QED  BY <1>2, <1>3, <1>4, <2>1, <2>2 DEF WritesBack, Written
<1>6. CASE DispatchEnd(t) /\ Known(f) /\ Route(f).kind = "finish"
  <2>1. WriteBack(t, New(END), Done, Free)  BY <1>6 DEF DispatchEnd
  <2>2. ByDispatcher(t, New(END), Done, Free)
    BY <1>1, <1>2, <1>3, <1>4, <1>6 DEF ByDispatcher
  <2> HIDE DEF New, f
  <2> QED  BY <1>2, <1>3, <1>4, <2>1, <2>2 DEF WritesBack, Written
<1>7. ASSUME NEW s \in StepQueues, Known(f), Route(f) = MovesTo(s), DispatchMove(t, s)
      PROVE  WritesBack
  <2>1. WriteBack(t, New(s), s, Free)  BY <1>7 DEF DispatchMove
  <2>2. ByDispatcher(t, New(s), s, Free)
    BY <1>1, <1>2, <1>3, <1>4, <1>7 DEF ByDispatcher
  <2> HIDE DEF New, f
  <2> QED  BY <1>2, <1>3, <1>4, <2>1, <2>2 DEF WritesBack, Written
<1>8. Route(f).kind # "move" \/ Route(f).step \notin StepQueues
      => ~(\E q \in StepQueues : Route(f) = MovesTo(q))
  BY RouteShape
<1>9. Route(f).kind = "move" => Route(f) = MovesTo(Route(f).step)  BY RouteShape
<1> HIDE DEF New
<1> QED  BY <1>1, <1>5, <1>6, <1>7, <1>8, <1>9

LEMMA BehaviorWrites ==
    ASSUME Holding, NEW t \in Ids, BehaviorReturns(t)
    PROVE  WritesBack
<1>1. t \in running => file[t] \in TaskType /\ at[t] \in StepQueues  BY LyingTyped
<1>2. Free \in Rests /\ Inbox \in Queues /\ Failed \in Queues  BY DEF Rests, Queues
<1>3. CASE ConsumerFail(t)
  <2> DEFINE e == Entry(CONSUMER, at[t], FAILED, None)
             new == Stamp([file[t] EXCEPT !.status = FAILED], e)
  <2>1. /\ loop = Free /\ t \in running /\ running' = running \ {t}
        /\ WriteBack(t, new, Failed, Free)
    BY <1>3 DEF ConsumerFail
  <2>2. Updated(new, file[t], FAILED, file[t].last, e)  BY <1>1, <2>1, FailUpdates
  <2>3. new \in TaskType  BY <2>2 DEF Updated
  <2>4. ByFailure(t, new, Failed, Free)  BY <2>1, <2>2 DEF ByFailure
  <2> HIDE DEF new
  <2> QED  BY <1>2, <2>1, <2>3, <2>4 DEF WritesBack, Written
<1>4. ASSUME NEW o \in Outcomes, ConsumerDeliver(t, o)  PROVE WritesBack
  <2> DEFINE e == Entry(CONSUMER, at[t], None, o)
             new == Stamp([file[t] EXCEPT !.last = o], e)
  <2>1. /\ loop = Free /\ t \in running /\ running' = running \ {t}
        /\ WriteBack(t, new, Inbox, Free)
    BY <1>4 DEF ConsumerDeliver
  <2>2. Updated(new, file[t], file[t].status, o, e)  BY <1>1, <2>1, DeliverUpdates
  <2>3. new \in TaskType  BY <2>2 DEF Updated
  <2>4. ByDelivery(t, new, Inbox, Free)  BY <2>1, <2>2 DEF ByDelivery
  <2> HIDE DEF new
  <2> QED  BY <1>2, <2>1, <2>3, <2>4 DEF WritesBack, Written
<1> QED  BY <1>3, <1>4 DEF BehaviorReturns

LEMMA HealWrites == ASSUME Holding, HealDecline \/ HealSettle PROVE WritesBack
<1>1. loop.stage = "healing"  BY DEF HealDecline, HealSettle
<1>2. loop.todo \subseteq Ids /\ loop.obs \subseteq Ids  BY <1>1, LoopShape DEF Holding, TypeOK
<1>3. ASSUME NEW t \in Ids
      PROVE  /\ Healing(loop.todo \ {t}, loop.obs) \in Rests
             /\ Healing(loop.todo \ {t}, loop.obs \cup {t}) \in Rests
  BY <1>2 DEF Healing, Rests
<1>4. Failed \in Queues /\ Done \in Queues  BY DEF Queues
<1>5. CASE HealDecline
  <2> DEFINE e == Entry(HEAL_ACTOR, FAILED, FAILED, None)
  <2>1. PICK t \in Ids :
           /\ Lies(t, Failed) /\ HarnessMade(file[t]) /\ ~AlreadyDeclined(file[t])
           /\ WriteBack(t, Stamp(file[t], e), Failed, Healing(loop.todo \ {t}, loop.obs))
           /\ UNCHANGED running
    BY <1>5 DEF HealDecline, Declines
  <2> DEFINE new == Stamp(file[t], e)
  <2>2. file[t] \in TaskType /\ running' = running \ {t}  BY <1>4, <2>1, LyingTyped
  <2>3. Updated(new, file[t], file[t].status, file[t].last, e)  BY <2>2, DeclineUpdates
  <2>4. new \in TaskType  BY <2>3 DEF Updated
  <2>5. ByNote(t, new, Failed, Healing(loop.todo \ {t}, loop.obs))
    BY <1>1, <2>1, <2>3 DEF ByNote
  <2>6. WriteBack(t, new, Failed, Healing(loop.todo \ {t}, loop.obs))  BY <2>1
  <2> HIDE DEF new
  <2> QED  BY <1>3, <1>4, <2>2, <2>4, <2>5, <2>6 DEF WritesBack, Written
<1>6. CASE HealSettle
  <2> DEFINE e == Entry(HEAL_ACTOR, FAILED, END, None)
             New(f) == Stamp([f EXCEPT !.status = END], e)
  <2>1. PICK t \in Ids :
           /\ Lies(t, Failed) /\ ~HarnessMade(file[t])
           /\ WriteBack(t, New(file[t]), Done, Healing(loop.todo \ {t}, loop.obs \cup {t}))
           /\ UNCHANGED running
    BY <1>6 DEF HealSettle, Declines
  <2> DEFINE new == New(file[t])
  <2>2. file[t] \in TaskType /\ running' = running \ {t}  BY <1>4, <2>1, LyingTyped
  <2>3. Updated(new, file[t], END, file[t].last, e)  BY <2>2, SettleUpdates
  <2>4. new \in TaskType  BY <2>3 DEF Updated
  <2>5. ByRetirement(t, new, Done, Healing(loop.todo \ {t}, loop.obs \cup {t}))
    BY <1>1, <2>1, <2>3 DEF ByRetirement
  <2>6. WriteBack(t, new, Done, Healing(loop.todo \ {t}, loop.obs \cup {t}))  BY <2>1
  <2> HIDE DEF new
  <2> QED  BY <1>3, <1>4, <2>2, <2>4, <2>5, <2>6 DEF WritesBack, Written
<1> QED  BY <1>5, <1>6

\* What a writer may take: a task that nobody has, or that its consumer has.
LEMMA WrittenMeans ==
    ASSUME Holding, NEW t \in Ids, NEW new \in TaskType, NEW dest \in Queues, NEW then \in Rests,
           Written(t, new, dest, then)
    PROVE  /\ up /\ loop.stage # "moving" /\ (t \in running \/ ~held[t])
           /\ at[t] \in StepQueues \cup {Inbox, Failed}
           /\ file[t] \in TaskType /\ SameMake(new, file[t])
BY LyingTyped DEF Written, ByDispatcher, ByDelivery, ByFailure, ByNote, ByRetirement,
   Updated, Lies, Queues, Free, Holding, DownHasNothing

-----------------------------------------------------------------------------
(* Holding is inductive: one lemma per kind of step.                       *)

LEMMA ThreadShape ==
    ASSUME thread \in [Threads -> RequestType \cup {NoRequest}], NEW a \in Threads
    PROVE  /\ Asks(a) => thread[a] \in RequestType
           /\ ~Asks(a) <=> thread[a] = NoRequest
           /\ thread[a].stage \in {"found", "claimed", "written", "none"}
           /\ Asks(a) => /\ thread[a].task \in Ids /\ thread[a].queue \in Queues
                         /\ thread[a].copy \in TaskType /\ thread[a].verb \in Verbs
BY DEF RequestType, NoRequest, Asks

LEMMA InitHolding == Init => Holding
<1> SUFFICES ASSUME Init PROVE Holding
  OBVIOUS
<1>1. Ids \subseteq Nat /\ 0 \in 0 .. MaxTasks  BY HarnessAssumption DEF Ids
<1>2. TypeOK  BY <1>1 DEF Init, TypeOK, Rests
<1>3. LoopHas /\ ConsumerHas /\ SomeoneHas /\ HeldIsThere /\ IdsInOrder /\ DownHasNothing
  BY DEF Init, LoopHas, ConsumerHas, SomeoneHas, HeldIsThere, IdsInOrder, DownHasNothing, Free
<1>4. ThreadHas /\ OneThreadHas /\ RequestKnows
  BY DEF Init, ThreadHas, OneThreadHas, RequestKnows, Asks, Has, NoRequest
<1> QED  BY <1>2, <1>3, <1>4 DEF Holding

\* A task is put in the inbox, under the next id.
Puts(new) ==
    /\ minted < MaxTasks /\ minted' = minted + 1
    /\ file' = [file EXCEPT ![minted'] = new]
    /\ at' = [at EXCEPT ![minted'] = Inbox]

LEMMA PutHolding ==
    ASSUME Holding, NEW new \in TaskType, Puts(new), seen' \subseteq Ids,
           loop' = loop \/ (loop.stage # "moving" /\ loop' \in Rests /\ up),
           UNCHANGED <<held, up, running, thread, torn>>
    PROVE  Holding'
<1> USE DEF Holding, Puts
<1>1. minted' \in Ids /\ minted' \in 0 .. MaxTasks /\ minted < minted' /\ Ids \subseteq Nat
      /\ minted \in Nat
  BY HarnessAssumption DEF TypeOK, Ids
<1>2. at[minted'] = Nowhere /\ ~held[minted'] /\ file[minted'] = NoTask
  BY <1>1 DEF IdsInOrder, HeldIsThere, TypeOK
<1>3. at' = [t \in Ids |-> IF t = minted' THEN Inbox ELSE at[t]]
      /\ file' = [t \in Ids |-> IF t = minted' THEN new ELSE file[t]]
  BY <1>1 DEF TypeOK
<1>4. new # NoTask /\ Inbox # Nowhere /\ Inbox \in Queues
  BY NoTaskAssumption DEF Inbox, Nowhere, Queues
<1>5. loop'.stage = "moving" => loop' = loop  BY DEF Rests, Free
<1>6. TypeOK'
  BY <1>1, <1>2, <1>3, <1>4 DEF TypeOK
<1>7. (LoopHas /\ ConsumerHas)'
  BY <1>1, <1>2, <1>3, <1>5, LoopShape DEF LoopHas, ConsumerHas, TypeOK, Moves
<1>8. ThreadHas'
  BY <1>1, <1>2, <1>3, <1>5, ThreadShape DEF ThreadHas, TypeOK, Moves, Has, Asks
<1>9. OneThreadHas'  BY DEF OneThreadHas, Has
<1>10. SomeoneHas'  BY <1>5, LoopShape DEF SomeoneHas, Has, Moves, TypeOK, Rests
<1>11. (HeldIsThere /\ IdsInOrder /\ DownHasNothing)'
  BY <1>1, <1>2, <1>3, <1>4 DEF HeldIsThere, IdsInOrder, DownHasNothing
<1>12. RequestKnows'
  <2> SUFFICES ASSUME NEW a \in Threads, Asks(a)
               PROVE  /\ thread[a].task <= minted'
                      /\ thread[a].queue \in LooksIn(thread[a].verb)
                      /\ Accepts(thread[a].verb, thread[a].copy)
                      /\ file'[thread[a].task] # NoTask =>
                             SameMake(thread[a].copy, file'[thread[a].task])
    BY DEF RequestKnows, Asks
  <2>1. thread[a].task \in Ids /\ thread[a].task <= minted
    BY ThreadShape DEF RequestKnows, TypeOK
  <2>2. thread[a].task \in Nat /\ thread[a].task # minted'  BY <1>1, <2>1
  <2> QED  BY <1>1, <1>3, <2>1, <2>2 DEF RequestKnows
<1> QED  BY <1>6, <1>7, <1>8, <1>9, <1>10, <1>11, <1>12

\* The loop goes from one point between transfers to another.
LEMMA LoopHolding ==
    ASSUME Holding, up, loop.stage # "moving", loop' \in Rests,
           UNCHANGED <<file, at, held, minted, up, running, seen, thread, torn>>
    PROVE  Holding'
<1>1. loop'.stage # "moving"  BY DEF Rests, Free
<1>2. TypeOK'  BY DEF Holding, TypeOK
<1>3. (LoopHas /\ ConsumerHas /\ HeldIsThere /\ IdsInOrder /\ DownHasNothing)'
  BY <1>1 DEF Holding, LoopHas, ConsumerHas, HeldIsThere, IdsInOrder, DownHasNothing
<1>4. (ThreadHas /\ OneThreadHas /\ SomeoneHas /\ RequestKnows)'
  BY <1>1 DEF Holding, ThreadHas, OneThreadHas, SomeoneHas, RequestKnows, Has, Asks, Moves
<1> QED  BY <1>2, <1>3, <1>4 DEF Holding

\* The first half of a transfer.
LEMMA WriteBackHolding ==
    ASSUME Holding,
           NEW t \in Ids, NEW new \in TaskType, NEW dest \in Queues, NEW then \in Rests,
           Written(t, new, dest, then)
    PROVE  Holding'
<1>0. /\ WriteBack(t, new, dest, then) /\ running' = running \ {t}
      /\ up /\ (t \in running \/ ~held[t]) /\ at[t] \in StepQueues \cup {Inbox, Failed}
      /\ loop.stage # "moving" /\ SameMake(new, file[t])
  BY WrittenMeans DEF Written
<1> USE DEF Holding, WriteBack, counters
<1>1. file' = [u \in Ids |-> IF u = t THEN new ELSE file[u]]
      /\ held' = [u \in Ids |-> IF u = t THEN TRUE ELSE held[u]]
  BY <1>0 DEF TypeOK
<1>2. loop' \in Transfers /\ loop'.stage = "moving" /\ loop'.task = t
  BY <1>0 DEF Moving, Transfers
<1>3. new # NoTask /\ at[t] # Nowhere /\ file[t] # NoTask
  BY <1>0, NoTaskAssumption, Names DEF Queues, TypeOK
<1>4. \A a \in Threads : Has(a) => thread[a].task # t
  BY <1>0 DEF ThreadHas
<1>5. TypeOK'  BY <1>0, <1>1, <1>2, <1>3 DEF TypeOK
<1>6. (LoopHas /\ ConsumerHas)'
  BY <1>0, <1>1, <1>2 DEF LoopHas, ConsumerHas, TypeOK
<1>7. ThreadHas'
  BY <1>0, <1>1, <1>2, <1>4, ThreadShape DEF ThreadHas, Has, Asks, Moves, TypeOK
<1>8. OneThreadHas'  BY <1>0 DEF OneThreadHas, Has
<1>9. SomeoneHas'
  <2> SUFFICES ASSUME NEW u \in Ids, u # t, held'[u]
               PROVE  u \in running' \/ \E a \in Threads : Has(a)' /\ thread'[a].task = u
    BY <1>2 DEF SomeoneHas, Moves
  <2>1. held'[u] = held[u]  BY <1>1
  <2>2. ~Moves(u) /\ thread' = thread  BY <1>0 DEF Moves
  <2> QED  BY <1>0, <2>1, <2>2 DEF SomeoneHas, Has
<1>10. (HeldIsThere /\ IdsInOrder /\ DownHasNothing)'
  BY <1>0, <1>1, <1>3 DEF HeldIsThere, IdsInOrder, DownHasNothing
<1>11. RequestKnows'
  BY <1>0, <1>1, <1>3, ThreadShape DEF RequestKnows, Asks, SameMake, TypeOK
<1> QED  BY <1>5, <1>6, <1>7, <1>8, <1>9, <1>10, <1>11

\* The second half.
LEMMA FinishHolding == ASSUME Holding, FinishTransfer PROVE Holding'
<1> USE DEF Holding, FinishTransfer, counters
<1>1. loop \in Transfers /\ loop.task \in Ids /\ loop.dest \in Queues /\ loop.then \in Rests
  BY LoopShape DEF TypeOK
<1>2. at' = [u \in Ids |-> IF u = loop.task THEN loop.dest ELSE at[u]]
      /\ held' = [u \in Ids |-> IF u = loop.task THEN FALSE ELSE held[u]]
  BY <1>1 DEF TypeOK
<1>3. loop' \in Rests /\ loop'.stage # "moving" /\ loop # Free
  BY <1>1 DEF Rests, Free
<1>4. file[loop.task] # NoTask /\ loop.dest # Nowhere /\ loop.task <= minted /\ up
  <2>1. at[loop.task] # Nowhere  BY <1>1 DEF LoopHas, HeldIsThere
  <2>2. loop.task \in Nat /\ minted \in Nat  BY <1>1, HarnessAssumption DEF Ids, TypeOK
  <2>3. ~(loop.task > minted)  BY <1>1, <2>1 DEF IdsInOrder
  <2> QED  BY <1>1, <1>3, <2>1, <2>2, <2>3, Names DEF TypeOK, DownHasNothing
<1>5. \A a \in Threads : Has(a) => thread[a].task # loop.task
  BY DEF ThreadHas, Moves
<1>6. TypeOK'  BY <1>1, <1>2, <1>3, <1>4 DEF TypeOK
<1>7. (LoopHas /\ ConsumerHas)'
  BY <1>2, <1>3 DEF LoopHas, ConsumerHas, TypeOK
<1>8. ThreadHas'
  BY <1>2, <1>3, <1>5, ThreadShape DEF ThreadHas, Has, Asks, Moves, TypeOK
<1>9. (OneThreadHas /\ RequestKnows)'  BY DEF OneThreadHas, RequestKnows, Has, Asks
<1>10. SomeoneHas'  BY <1>2, <1>3 DEF SomeoneHas, Has, Moves
<1>11. (HeldIsThere /\ IdsInOrder /\ DownHasNothing)'
  BY <1>1, <1>2, <1>4, HarnessAssumption DEF HeldIsThere, IdsInOrder, DownHasNothing, TypeOK, Ids
<1> QED  BY <1>6, <1>7, <1>8, <1>9, <1>10, <1>11

LEMMA ConsumerHolding ==
    ASSUME Holding, NEW q \in StepQueues, ConsumerClaim(q)
    PROVE  Holding'
<1> USE DEF Holding
<1>1. PICK t \in Ids : /\ Lies(t, q)
                       /\ held' = [held EXCEPT ![t] = TRUE] /\ running' = running \cup {t}
  BY DEF ConsumerClaim, Oldest, InQueue
<1>2. held' = [u \in Ids |-> IF u = t THEN TRUE ELSE held[u]] /\ at[t] = q /\ ~held[t]
      /\ UNCHANGED <<file, at, minted, up, loop, seen, thread, torn>> /\ up /\ loop = Free
  BY <1>1 DEF TypeOK, Lies, ConsumerClaim, counters
<1>3. at[t] # Nowhere /\ loop.stage # "moving"
  BY <1>2, Names DEF Free, Queues
<1>4. \A a \in Threads : Has(a) => thread[a].task # t  BY <1>2 DEF ThreadHas
<1>5. TypeOK'  BY <1>1, <1>2 DEF TypeOK
<1>6. (LoopHas /\ ConsumerHas /\ HeldIsThere /\ IdsInOrder /\ DownHasNothing)'
  BY <1>1, <1>2, <1>3 DEF LoopHas, ConsumerHas, HeldIsThere, IdsInOrder, DownHasNothing, TypeOK
<1>7. ThreadHas'
  BY <1>1, <1>2, <1>4, ThreadShape DEF ThreadHas, Has, Asks, Moves, TypeOK
<1>8. (OneThreadHas /\ RequestKnows)'  BY <1>2 DEF OneThreadHas, RequestKnows, Has, Asks
<1>9. SomeoneHas'  BY <1>1, <1>2 DEF SomeoneHas, Has, Moves
<1> QED  BY <1>5, <1>6, <1>7, <1>8, <1>9

\* A request that only looks, or gives up.
LEMMA FindHolding ==
    ASSUME Holding, NEW a \in Threads, NEW v \in Verbs, NEW t \in Ids, RequestFind(a, v, t)
    PROVE  Holding'
<1> USE DEF Holding
<1> DEFINE r == Request("found", v, t, at[t], file[t])
<1>1. /\ UNCHANGED <<file, at, held, minted, up, loop, running, seen, torn>>
      /\ thread' = [b \in Threads |-> IF b = a THEN r ELSE thread[b]]
      /\ up /\ at[t] \in LooksIn(v) /\ Accepts(v, file[t])
  BY DEF RequestFind, TypeOK
<1>2. at[t] \in Queues /\ at[t] # Nowhere
  <2>1. LooksIn(v) \subseteq Queues  BY HarnessAssumption DEF LooksIn, Queues
  <2> QED  BY <1>1, <2>1, Names
<1>3. file[t] \in TaskType /\ file[t] # NoTask  BY <1>2, NoTaskAssumption DEF TypeOK
<1>4. r \in RequestType /\ r.stage = "found" /\ r.task = t /\ r.queue = at[t]
      /\ r.verb = v /\ r.copy = file[t]
  BY <1>2, <1>3 DEF Request, RequestType
<1> HIDE DEF r
<1>5. TypeOK'  BY <1>1, <1>4 DEF TypeOK
<1>6. (LoopHas /\ ConsumerHas /\ HeldIsThere /\ IdsInOrder /\ DownHasNothing)'
  BY <1>1 DEF LoopHas, ConsumerHas, HeldIsThere, IdsInOrder, DownHasNothing
<1>7. \A b \in Threads : Has(b)' => b # a /\ Has(b) /\ thread'[b] = thread[b]
  BY <1>1, <1>4 DEF Has
<1>8. (ThreadHas /\ OneThreadHas)'
  BY <1>1, <1>7 DEF ThreadHas, OneThreadHas, Moves
<1>9. ASSUME NEW b \in Threads, Has(b)
      PROVE  b # a /\ Has(b)' /\ thread'[b] = thread[b]
  <2>1. ~Has(a)  BY DEF Has, RequestFind, NoRequest
  <2> QED  BY <1>1, <1>9, <2>1 DEF Has
<1>10. SomeoneHas'
  BY <1>1, <1>9 DEF SomeoneHas, Moves
<1>11. t <= minted
  BY <1>2, HarnessAssumption DEF IdsInOrder, TypeOK, Ids
<1>12. RequestKnows'
  BY <1>1, <1>3, <1>4, <1>11 DEF RequestKnows, Asks, SameMake
<1> QED  BY <1>5, <1>6, <1>8, <1>10, <1>12

\* A request ends that has, or lets go of, nothing.
LEMMA LostHolding ==
    ASSUME Holding, NEW a \in Threads, RequestLost(a)  PROVE Holding'
<1> USE DEF Holding
<1>1. /\ UNCHANGED <<file, at, held, minted, up, loop, running, seen, torn>>
      /\ thread' = [b \in Threads |-> IF b = a THEN NoRequest ELSE thread[b]]
      /\ ~Has(a) /\ NoRequest.stage = "none"
  BY DEF RequestLost, TypeOK, Has, counters, NoRequest
<1>2. TypeOK'  BY <1>1 DEF TypeOK
<1>3. (LoopHas /\ ConsumerHas /\ HeldIsThere /\ IdsInOrder /\ DownHasNothing)'
  BY <1>1 DEF LoopHas, ConsumerHas, HeldIsThere, IdsInOrder, DownHasNothing
<1>4. (ThreadHas /\ OneThreadHas /\ SomeoneHas /\ RequestKnows)'
  BY <1>1 DEF ThreadHas, OneThreadHas, SomeoneHas, RequestKnows, Has, Asks, Moves
<1> QED  BY <1>2, <1>3, <1>4

LEMMA TakeHolding ==
    ASSUME Holding, NEW a \in Threads, RequestClaim(a)  PROVE Holding'
<1> USE DEF Holding
<1> DEFINE r == thread[a]
           s == [thread[a] EXCEPT !.stage = "claimed"]
<1>1. /\ UNCHANGED <<at, minted, up, loop, running, seen, torn>>
      /\ Asks(a) /\ r.stage = "found" /\ Lies(r.task, r.queue)
  BY DEF RequestClaim, Asks, counters
<1>2. r \in RequestType /\ r.task \in Ids /\ r.queue \in Queues /\ r.copy \in TaskType
  BY <1>1, ThreadShape DEF TypeOK
<1>3. /\ thread' = [b \in Threads |-> IF b = a THEN s ELSE thread[b]]
      /\ held' = [t \in Ids |-> IF t = r.task THEN TRUE ELSE held[t]]
      /\ file' = [t \in Ids |-> IF t = r.task THEN r.copy ELSE file[t]]
  BY <1>2 DEF RequestClaim, TypeOK
<1>4. /\ s \in RequestType /\ s.stage = "claimed" /\ s.task = r.task
      /\ s.queue = r.queue /\ s.verb = r.verb /\ s.copy = r.copy
  BY <1>2 DEF RequestType
<1>5. at[r.task] = r.queue /\ ~held[r.task] /\ at[r.task] # Nowhere /\ r.copy # NoTask
      /\ file[r.task] # NoTask
  BY <1>1, <1>2, Names, NoTaskAssumption DEF Lies, TypeOK
<1> HIDE DEF r, s
<1>6. r.task \notin running /\ ~Moves(r.task)
      /\ \A b \in Threads : Has(b) => thread[b].task # r.task
  BY <1>5 DEF ConsumerHas, LoopHas, ThreadHas, Moves
<1>7. up  BY <1>1 DEF DownHasNothing, Asks, NoRequest
<1>8. TypeOK'  BY <1>1, <1>2, <1>3, <1>4, <1>5 DEF TypeOK
<1>9. (LoopHas /\ ConsumerHas /\ HeldIsThere /\ IdsInOrder /\ DownHasNothing)'
  BY <1>1, <1>2, <1>3, <1>5, <1>7, LoopShape
  DEF LoopHas, ConsumerHas, HeldIsThere, IdsInOrder, DownHasNothing, TypeOK
<1>10. \A b \in Threads : Has(b)' <=> b = a \/ Has(b)
  BY <1>3, <1>4 DEF Has
<1>11. ThreadHas'
  <2> SUFFICES ASSUME NEW b \in Threads, Has(b)'
               PROVE  /\ held'[thread'[b].task] /\ at[thread'[b].task] = thread'[b].queue
                      /\ thread'[b].task \notin running /\ ~Moves(thread'[b].task)
                      /\ thread'[b].stage = "claimed" =>
                             file'[thread'[b].task] = thread'[b].copy
    BY <1>1 DEF ThreadHas, Moves
  <2>1. CASE b = a  BY <1>2, <1>3, <1>4, <1>5, <1>6, <2>1
  <2>2. CASE b # a
    BY <1>2, <1>3, <1>6, <1>10, <2>2, ThreadShape DEF ThreadHas, Has, Asks, TypeOK
  <2> QED  BY <2>1, <2>2
<1>12. OneThreadHas'
  BY <1>3, <1>4, <1>6, <1>10 DEF OneThreadHas
<1>13. SomeoneHas'
  <2> SUFFICES ASSUME NEW t \in Ids, held'[t]
               PROVE  Moves(t) \/ t \in running
                      \/ \E b \in Threads : Has(b)' /\ thread'[b].task = t
    BY <1>1 DEF SomeoneHas, Moves
  <2>1. CASE t = r.task  BY <1>3, <1>4, <1>10, <2>1
  <2>2. CASE t # r.task
    <3>1. held[t]  BY <1>3, <2>2
    <3>2. ASSUME NEW b \in Threads, Has(b), thread[b].task = t
          PROVE  Has(b)' /\ thread'[b].task = t
      BY <1>3, <1>4, <1>10, <2>2, <3>2 DEF r
    <3> QED  BY <1>7, <3>1, <3>2 DEF SomeoneHas
  <2> QED  BY <2>1, <2>2
<1>14. SameMake(r.copy, file[r.task]) /\ r.task <= minted /\ r.queue \in LooksIn(r.verb)
       /\ Accepts(r.verb, r.copy)
  BY <1>1, <1>5 DEF RequestKnows, r
<1>15. RequestKnows'
  <2> SUFFICES ASSUME NEW b \in Threads, Asks(b)'
               PROVE  /\ thread'[b].task <= minted
                      /\ thread'[b].queue \in LooksIn(thread'[b].verb)
                      /\ Accepts(thread'[b].verb, thread'[b].copy)
                      /\ file'[thread'[b].task] # NoTask =>
                            SameMake(thread'[b].copy, file'[thread'[b].task])
    BY <1>1 DEF RequestKnows
  <2>1. CASE b = a  BY <1>2, <1>3, <1>4, <1>14, <2>1 DEF SameMake
  <2>2. CASE b # a
    BY <1>2, <1>3, <1>5, <1>14, <2>2, ThreadShape DEF RequestKnows, Asks, SameMake, TypeOK
  <2> QED  BY <2>1, <2>2
<1> QED  BY <1>8, <1>9, <1>11, <1>12, <1>13, <1>15

\* Restart and resume write the task they claimed.
LEMMA WriteHolding ==
    ASSUME Holding, NEW a \in Threads, RequestWrite(a),
           NEW new \in TaskType, SameMake(new, thread[a].copy),
           file' = [file EXCEPT ![thread[a].task] = new]
    PROVE  Holding'
<1> USE DEF Holding
<1> DEFINE r == thread[a]
           s == [thread[a] EXCEPT !.stage = "written"]
<1>1. /\ UNCHANGED <<at, held, minted, up, loop, running, seen, torn>>
      /\ Asks(a) /\ Has(a) /\ r.stage = "claimed"
  BY DEF RequestWrite, Asks, Has, counters
<1>2. r \in RequestType /\ r.task \in Ids /\ r.queue \in Queues /\ r.copy \in TaskType
  BY <1>1, ThreadShape DEF TypeOK
<1>3. /\ thread' = [b \in Threads |-> IF b = a THEN s ELSE thread[b]]
      /\ file' = [t \in Ids |-> IF t = r.task THEN new ELSE file[t]]
  BY <1>2 DEF RequestWrite, TypeOK
<1>4. /\ s \in RequestType /\ s.stage = "written" /\ s.task = r.task
      /\ s.queue = r.queue /\ s.verb = r.verb /\ s.copy = r.copy
  BY <1>2 DEF RequestType
<1>5. file[r.task] = r.copy /\ new # NoTask /\ r.copy # NoTask
      /\ at[r.task] # Nowhere
  BY <1>1, <1>2, NoTaskAssumption, Names DEF ThreadHas
<1> HIDE DEF r, s
<1>6. SameMake(new, file[r.task])  BY <1>5 DEF r
<1>7. TypeOK'
  <2>1. file' \in [Ids -> TaskType \cup {NoTask}]  BY <1>3 DEF TypeOK
  <2>2. thread' \in [Threads -> RequestType \cup {NoRequest}]  BY <1>3, <1>4 DEF TypeOK
  <2>3. \A t \in Ids : (file'[t] = NoTask) <=> (at[t] = Nowhere)
    BY <1>3, <1>5 DEF TypeOK
  <2> QED  BY <1>1, <2>1, <2>2, <2>3 DEF TypeOK
<1>8. (LoopHas /\ ConsumerHas /\ HeldIsThere /\ IdsInOrder)'
  BY <1>1 DEF LoopHas, ConsumerHas, HeldIsThere, IdsInOrder
<1>9. DownHasNothing'  BY <1>1 DEF DownHasNothing, Asks, NoRequest
<1>10. \A b \in Threads : /\ Has(b)' <=> Has(b)
                          /\ thread'[b].task = thread[b].task
                          /\ thread'[b].queue = thread[b].queue
  BY <1>1, <1>3, <1>4 DEF Has, r
<1>11. \A b \in Threads : Has(b) /\ b # a => thread[b].task # r.task /\ thread'[b] = thread[b]
  BY <1>1, <1>3 DEF OneThreadHas, r
<1>12. ThreadHas'
  BY <1>1, <1>2, <1>3, <1>4, <1>10, <1>11, ThreadShape DEF ThreadHas, Moves, Has, Asks, TypeOK
<1>13. OneThreadHas'  BY <1>10 DEF OneThreadHas
<1>14. SomeoneHas'  BY <1>1, <1>10 DEF SomeoneHas, Moves
<1>15. \A b \in Threads : /\ Asks(b)' <=> Asks(b)
                          /\ thread'[b].verb = thread[b].verb
                          /\ thread'[b].copy = thread[b].copy
  BY <1>1, <1>3, <1>4 DEF Asks, r
<1>16. RequestKnows'
  BY <1>1, <1>2, <1>3, <1>5, <1>6, <1>10, <1>15, ThreadShape
  DEF RequestKnows, SameMake, TypeOK
<1> QED  BY <1>7, <1>8, <1>9, <1>12, <1>13, <1>14, <1>16

\* A request lets go of its task: it renamed it into the inbox, or deleted it.
Releases(a, q, new) ==
    /\ file' = [file EXCEPT ![thread[a].task] = new]
    /\ at' = [at EXCEPT ![thread[a].task] = q]
    /\ held' = [held EXCEPT ![thread[a].task] = FALSE]
    /\ thread' = [thread EXCEPT ![a] = NoRequest]
    /\ UNCHANGED <<minted, up, loop, running, seen, torn>>

LEMMA ReleaseHolding ==
    ASSUME Holding, NEW a \in Threads, Has(a),
           NEW q \in Queues \cup {Nowhere}, NEW new \in TaskType \cup {NoTask},
           Releases(a, q, new),
           q = Nowhere <=> new = NoTask,
           new # NoTask => new = file[thread[a].task]
    PROVE  Holding'
<1> USE DEF Holding
<1> DEFINE t == thread[a].task
<1>1. Asks(a)  BY DEF Asks, Has
<1>2. t \in Ids /\ (new # NoTask => new = file[t])  BY <1>1, ThreadShape DEF TypeOK
<1>3. /\ file' = [u \in Ids |-> IF u = t THEN new ELSE file[u]]
      /\ at' = [u \in Ids |-> IF u = t THEN q ELSE at[u]]
      /\ held' = [u \in Ids |-> IF u = t THEN FALSE ELSE held[u]]
      /\ thread' = [b \in Threads |-> IF b = a THEN NoRequest ELSE thread[b]]
      /\ UNCHANGED <<minted, up, loop, running, seen, torn>>
  BY <1>2 DEF TypeOK, Releases
<1>4. held[t] /\ at[t] # Nowhere /\ t \notin running /\ ~Moves(t) /\ up
  BY <1>1, <1>2 DEF ThreadHas, HeldIsThere, DownHasNothing, Asks, NoRequest
<1>5. \A b \in Threads : Has(b) /\ b # a => thread[b].task # t  BY DEF OneThreadHas
<1>6. t <= minted  BY <1>1 DEF RequestKnows
<1>7. \A b \in Threads : /\ Has(b)' <=> Has(b) /\ b # a
                         /\ Asks(b)' <=> Asks(b) /\ b # a
  BY <1>3 DEF Has, Asks, NoRequest
<1> HIDE DEF t
<1>8. TypeOK'
  <2>1. file' \in [Ids -> TaskType \cup {NoTask}]  BY <1>3 DEF TypeOK
  <2>2. at' \in [Ids -> Queues \cup {Nowhere}] /\ held' \in [Ids -> BOOLEAN]
    BY <1>3 DEF TypeOK
  <2>3. thread' \in [Threads -> RequestType \cup {NoRequest}]  BY <1>3 DEF TypeOK
  <2>4. ASSUME NEW u \in Ids  PROVE (file'[u] = NoTask) <=> (at'[u] = Nowhere)
    BY <1>3 DEF TypeOK
  <2> QED  BY <1>3, <2>1, <2>2, <2>3, <2>4 DEF TypeOK
<1>9. (LoopHas /\ ConsumerHas /\ HeldIsThere /\ DownHasNothing)'
  <2>1. LoopHas'
    <3>1. loop.stage = "moving" => loop.task \in Ids /\ loop.task # t
      BY <1>4, LoopShape DEF TypeOK, Moves
    <3> QED  BY <1>3, <3>1 DEF LoopHas
  <2>2. ConsumerHas'
    <3>1. \A u \in running : u \in Ids /\ u # t  BY <1>4 DEF TypeOK
    <3> QED  BY <1>3, <3>1 DEF ConsumerHas
  <2>3. (HeldIsThere /\ DownHasNothing)'
    BY <1>3, <1>4 DEF HeldIsThere, DownHasNothing
  <2> QED  BY <2>1, <2>2, <2>3
<1>10. IdsInOrder'
  <2>1. \A u \in Ids : u > minted => u # t
    BY <1>2, <1>6, HarnessAssumption DEF Ids, TypeOK
  <2> QED  BY <1>3, <2>1 DEF IdsInOrder
<1>11. ThreadHas'
  <2> SUFFICES ASSUME NEW b \in Threads, Has(b)'
               PROVE  /\ held'[thread'[b].task] /\ at'[thread'[b].task] = thread'[b].queue
                      /\ thread'[b].task \notin running /\ ~Moves(thread'[b].task)
                      /\ thread'[b].stage = "claimed" =>
                             file'[thread'[b].task] = thread'[b].copy
    BY <1>3 DEF ThreadHas, Moves
  <2>1. b # a /\ Has(b) /\ thread'[b] = thread[b] /\ thread[b].task # t
    BY <1>3, <1>5, <1>7
  <2>2. thread[b].task \in Ids  BY <2>1, ThreadShape DEF Has, Asks, TypeOK
  <2> QED  BY <1>3, <2>1, <2>2 DEF ThreadHas
<1>12. OneThreadHas'  BY <1>3, <1>7 DEF OneThreadHas
<1>13. SomeoneHas'
  <2> SUFFICES ASSUME NEW u \in Ids, held'[u]
               PROVE  Moves(u) \/ u \in running
                      \/ \E b \in Threads : Has(b)' /\ thread'[b].task = u
    BY <1>3 DEF SomeoneHas, Moves
  <2>1. u # t /\ held[u]  BY <1>3
  <2>2. ASSUME NEW b \in Threads, Has(b), thread[b].task = u
        PROVE  Has(b)' /\ thread'[b].task = u
    <3>1. b # a  BY <2>1, <2>2 DEF t
    <3> QED  BY <1>3, <1>7, <2>2, <3>1
  <2> QED  BY <1>4, <2>1, <2>2 DEF SomeoneHas
<1>14. RequestKnows'
  <2>1. \A u \in Ids : file'[u] # NoTask => file'[u] = file[u]  BY <1>2, <1>3
  <2>2. \A b \in Threads : Asks(b)' => thread'[b] = thread[b] /\ Asks(b) /\ thread[b].task \in Ids
    BY <1>3, <1>7, ThreadShape DEF TypeOK
  <2> QED  BY <1>3, <2>1, <2>2 DEF RequestKnows
<1> QED  BY <1>8, <1>9, <1>10, <1>11, <1>12, <1>13, <1>14

LEMMA CrashHolding == ASSUME Holding, Crash PROVE Holding'
<1> USE DEF Holding, Crash
<1>1. Unfinished \subseteq Ids  BY DEF Unfinished
<1>2. TypeOK'  BY <1>1 DEF TypeOK, Rests
<1>3. (LoopHas /\ ConsumerHas /\ HeldIsThere /\ IdsInOrder /\ DownHasNothing)'
  BY DEF LoopHas, ConsumerHas, HeldIsThere, IdsInOrder, DownHasNothing, Free
<1>4. (ThreadHas /\ OneThreadHas /\ SomeoneHas /\ RequestKnows)'
  BY DEF ThreadHas, OneThreadHas, SomeoneHas, RequestKnows, Has, Asks, NoRequest
<1> QED  BY <1>2, <1>3, <1>4

LEMMA RestartHolding == ASSUME Holding, Restart PROVE Holding'
<1> USE DEF Holding, Restart, counters
<1>1. loop = Free /\ running = {} /\ \A a \in Threads : thread[a] = NoRequest
  BY DEF DownHasNothing
<1>2. ASSUME NEW t \in Ids, file[t] # NoTask  PROVE file[t].of \in Ids \cup {0}
  BY <1>2 DEF TypeOK, TaskType
<1>3. seen' \subseteq Ids  BY <1>2
<1>4. TypeOK'  BY <1>3 DEF TypeOK
<1>5. (LoopHas /\ ConsumerHas /\ HeldIsThere /\ IdsInOrder /\ DownHasNothing)'
  BY <1>1 DEF LoopHas, ConsumerHas, HeldIsThere, IdsInOrder, DownHasNothing, Free
<1>6. (ThreadHas /\ OneThreadHas /\ SomeoneHas /\ RequestKnows)'
  BY <1>1 DEF ThreadHas, OneThreadHas, SomeoneHas, RequestKnows, Has, Asks, NoRequest
<1> QED  BY <1>4, <1>5, <1>6

\* A request writes the task it claimed, as restarted or as resumed.
Requeues(a, new) ==
    /\ thread[a].stage = "claimed"
    /\ file' = [file EXCEPT ![thread[a].task] = new]
    /\ \/ thread[a].verb = "restart" /\ new = Restarted(thread[a].copy)
       \/ thread[a].verb = "resume" /\ new = Resumed(thread[a].copy)

LEMMA RequestWrites ==
    ASSUME Holding, NEW a \in Threads, RequestWrite(a)
    PROVE  \E new \in TaskType : SameMake(new, thread[a].copy) /\ Requeues(a, new)
<1>1. thread[a].copy \in TaskType
  BY ThreadShape DEF Holding, TypeOK, RequestWrite, Asks
<1>2. /\ Restarted(thread[a].copy) \in TaskType
      /\ SameMake(Restarted(thread[a].copy), thread[a].copy)
  BY <1>1, RestartedUpdates DEF Updated
<1>3. /\ Resumed(thread[a].copy) \in TaskType
      /\ SameMake(Resumed(thread[a].copy), thread[a].copy)
  BY <1>1, ResumedUpdates DEF Updated
<1> QED  BY <1>2, <1>3 DEF RequestWrite, Requeues

\* The file of a task that a request lets go of.
LEMMA RequestReleases ==
    ASSUME Holding, NEW a \in Threads, RequestRename(a) \/ RequestDiscard(a)
    PROVE  /\ Has(a)
           /\ \E q \in Queues \cup {Nowhere}, new \in TaskType \cup {NoTask} :
                 /\ Releases(a, q, new)
                 /\ q = Nowhere <=> new = NoTask
                 /\ new # NoTask => new = file[thread[a].task] /\ q = Inbox /\ Writes(a)
<1>1. Has(a) /\ Asks(a)  BY DEF RequestRename, RequestDiscard, Has, Asks
<1>2. thread[a].task \in Ids  BY <1>1, ThreadShape DEF Holding, TypeOK
<1>3. file[thread[a].task] \in TaskType
  BY <1>1, <1>2 DEF Holding, ThreadHas, HeldIsThere, TypeOK
<1>4. CASE RequestRename(a)
  <2>1. file' = [file EXCEPT ![thread[a].task] = file[thread[a].task]]
    BY <1>2, <1>4 DEF RequestRename, Holding, TypeOK
  <2>2. Releases(a, Inbox, file[thread[a].task]) /\ Writes(a)
    BY <1>4, <2>1 DEF RequestRename, Releases, counters, Writes
  <2>3. Inbox \in Queues /\ Inbox # Nowhere  BY DEF Queues, Inbox, Nowhere
  <2> QED  BY <1>1, <1>3, <2>2, <2>3, NoTaskAssumption
<1>5. CASE RequestDiscard(a)
  <2>1. Releases(a, Nowhere, NoTask)  BY <1>5 DEF RequestDiscard, Releases, counters
  <2> QED  BY <1>1, <2>1
<1> QED  BY <1>4, <1>5

\* Every step is one of these; the later invariants split on them too.
LEMMA StepCases ==
    ASSUME Holding, Next
    PROVE  \/ Submit \/ HealPut
           \/ HealStart \/ HealSkip \/ HealEnd
           \/ WritesBack
           \/ FinishTransfer
           \/ \E q \in StepQueues : ConsumerClaim(q)
           \/ \E a \in Threads, v \in Verbs, t \in Ids : RequestFind(a, v, t)
           \/ \E a \in Threads : \/ RequestLost(a) \/ RequestClaim(a) \/ RequestWrite(a)
                                 \/ RequestRename(a) \/ RequestDiscard(a)
           \/ Crash \/ Restart
BY DispatchWrites, BehaviorWrites, HealWrites DEF Next, Heal, Ask, Serve

LEMMA SubmitPuts ==
    ASSUME Holding, Submit
    PROVE  \E new \in TaskType : /\ Puts(new)
                                 /\ \E s \in Submissions : new = NewTask(s, 0)
BY NewTyped DEF Submit, Puts

\* The healer's poller has seen the key, or puts a heal task under it.
LEMMA HealPutCases ==
    ASSUME Holding, HealPut
    PROVE  /\ up /\ loop.stage = "healing" /\ loop.todo = {}
           /\ UNCHANGED <<held, up, running, thread, torn>>
           /\ \E of \in loop.obs :
                 /\ of \in Ids /\ loop' = Healing({}, loop.obs \ {of}) /\ loop' \in Rests
                 /\ \/ of \in seen /\ UNCHANGED <<file, at, minted, seen>>
                    \/ /\ of \notin seen /\ seen' = seen \cup {of}
                       /\ HealTask(of) \in TaskType /\ Puts(HealTask(of))
<1>1. loop.stage = "healing" /\ loop.todo = {}  BY DEF HealPut
<1>2. up  BY <1>1 DEF Holding, DownHasNothing, Free
<1>3. loop.obs \subseteq Ids  BY <1>1, LoopShape DEF Holding, TypeOK
<1>4. ASSUME NEW of \in Ids
      PROVE  Healing({}, loop.obs \ {of}) \in Rests /\ (of \in Ids \cup {0})
  BY <1>3 DEF Healing, Rests
<1>5. \A of \in Ids : HealTask(of) \in TaskType  BY <1>4, NewTyped
<1> QED  BY <1>1, <1>2, <1>4, <1>5 DEF HealPut, Oldest, Puts, counters

LEMMA LoopMoves ==
    ASSUME Holding, HealStart \/ HealSkip \/ HealEnd
    PROVE  /\ up /\ loop.stage # "moving" /\ loop' \in Rests
           /\ UNCHANGED <<file, at, held, minted, up, running, seen, thread, torn>>
<1>1. loop.stage # "moving" /\ up  BY DEF HealStart, HealSkip, HealEnd, Holding, DownHasNothing, Free, Healing
<1>2. loop.stage = "healing" => loop.todo \subseteq Ids /\ loop.obs \subseteq Ids
  BY LoopShape DEF Holding, TypeOK
<1>3. loop' \in Rests
  BY <1>2 DEF HealStart, HealSkip, HealEnd, Healing, Rests, InQueue
<1> QED  BY <1>1, <1>3 DEF HealStart, HealSkip, HealEnd, counters

LEMMA NextHolding == ASSUME Holding, [Next]_vars PROVE Holding'
<1>1. CASE Submit
  <2>1. PICK new \in TaskType : Puts(new)  BY <1>1, SubmitPuts
  <2>2. UNCHANGED <<held, up, loop, running, seen, thread, torn>> /\ seen' \subseteq Ids
    BY <1>1 DEF Submit, Holding, TypeOK
  <2> QED  BY <2>1, <2>2, PutHolding
<1>2. CASE HealPut
  <2>1. PICK of \in loop.obs :
           /\ of \in Ids /\ loop' = Healing({}, loop.obs \ {of}) /\ loop' \in Rests
           /\ \/ of \in seen /\ UNCHANGED <<file, at, minted, seen>>
              \/ /\ of \notin seen /\ seen' = seen \cup {of}
                 /\ HealTask(of) \in TaskType /\ Puts(HealTask(of))
    BY <1>2, HealPutCases
  <2>2. /\ up /\ loop.stage = "healing"
        /\ UNCHANGED <<held, up, running, thread, torn>>
    BY <1>2, HealPutCases
  <2>3. seen' \subseteq Ids  BY <2>1 DEF Holding, TypeOK
  <2> QED  BY <2>1, <2>2, <2>3, PutHolding, LoopHolding
<1>3. CASE HealStart \/ HealSkip \/ HealEnd  BY <1>3, LoopMoves, LoopHolding
<1>4. CASE WritesBack  BY <1>4, WriteBackHolding DEF WritesBack
<1>5. CASE FinishTransfer  BY <1>5, FinishHolding
<1>6. CASE \E q \in StepQueues : ConsumerClaim(q)  BY <1>6, ConsumerHolding
<1>7. CASE \E a \in Threads, v \in Verbs, t \in Ids : RequestFind(a, v, t)
  BY <1>7, FindHolding
<1>8. ASSUME NEW a \in Threads,
             \/ RequestLost(a) \/ RequestClaim(a) \/ RequestWrite(a)
             \/ RequestRename(a) \/ RequestDiscard(a)
      PROVE  Holding'
  <2>1. CASE RequestLost(a)  BY <2>1, LostHolding
  <2>2. CASE RequestClaim(a)  BY <2>2, TakeHolding
  <2>3. CASE RequestWrite(a)  BY <2>3, RequestWrites, WriteHolding DEF Requeues
  <2>4. CASE RequestRename(a) \/ RequestDiscard(a)
    BY <2>4, RequestReleases, ReleaseHolding
  <2> QED  BY <1>8, <2>1, <2>2, <2>3, <2>4
<1>9. CASE Crash  BY <1>9, CrashHolding
<1>10. CASE Restart  BY <1>10, RestartHolding
<1>11. CASE UNCHANGED vars
  <2>1. TypeOK'  BY <1>11 DEF vars, Holding, TypeOK
  <2>2. (LoopHas /\ ConsumerHas /\ HeldIsThere /\ IdsInOrder /\ DownHasNothing)'
    BY <1>11 DEF vars, Holding, LoopHas, ConsumerHas, HeldIsThere, IdsInOrder, DownHasNothing
  <2>3. (ThreadHas /\ OneThreadHas /\ SomeoneHas /\ RequestKnows)'
    BY <1>11 DEF vars, Holding, ThreadHas, OneThreadHas, SomeoneHas, RequestKnows, Has, Asks,
                 Moves
  <2> QED  BY <2>1, <2>2, <2>3 DEF Holding
<1> QED
  BY <1>1, <1>2, <1>3, <1>4, <1>5, <1>6, <1>7, <1>8, <1>9, <1>10, <1>11, StepCases

(***************************************************************************)
(* Every file is a task whatever the operator, the healer and crashes did  *)
(* to it, and a task has a file exactly while it is in a queue.            *)
(***************************************************************************)
THEOREM TypeCorrect == Spec => []TypeOK
<1>1. Init => Holding  BY InitHolding
<1>2. Holding /\ [Next]_vars => Holding'  BY NextHolding
<1>3. Holding => TypeOK  BY DEF Holding
<1> QED  BY <1>1, <1>2, <1>3, PTL DEF Spec

\* The lease of a claimed task has one holder, and is given up with it.
LEMMA HolderCount ==
    ASSUME Holding, up, NEW t \in Ids
    PROVE  Cardinality(Holders(t)) = IF held[t] THEN 1 ELSE 0
<1>1. \A x : x \in Holders(t) <=> \/ x \in Threads /\ Has(x) /\ thread[x].task = t
                                  \/ x = "loop" /\ Moves(t)
                                  \/ x = "consumer" /\ t \in running
  BY DEF Holders, Has, Moves
<1>2. \A x : x \in Holders(t) => held[t]
  BY <1>1 DEF Holding, ThreadHas, LoopHas, ConsumerHas, Moves
<1>3. \A x, y : x \in Holders(t) /\ y \in Holders(t) => x = y
  BY <1>1 DEF Holding, ThreadHas, OneThreadHas, LoopHas, Moves
<1>4. held[t] => Holders(t) # {}
  BY <1>1 DEF Holding, SomeoneHas
<1>5. CASE held[t]
  <2>1. PICK x : Holders(t) = {x}  BY <1>3, <1>4, <1>5
  <2> QED  BY <1>5, <2>1, FS_Singleton
<1>6. CASE ~held[t]
  <2>1. Holders(t) = {}  BY <1>2, <1>6
  <2> QED  BY <1>6, <2>1, FS_EmptySet
<1> QED  BY <1>5, <1>6

(***************************************************************************)
(* A claimed task is in the hands of one actor - the loop in a transfer, a *)
(* consumer that awaits its agent, or one request's thread - and an        *)
(* unclaimed one in nobody's, for any number of threads: claim() is the    *)
(* lease (ports/queue.py), and recover() leaves no claim behind.           *)
(***************************************************************************)
THEOREM OneHolderHolds == Spec => []OneHolder
<1>1. Init => Holding  BY InitHolding
<1>2. Holding /\ [Next]_vars => Holding'  BY NextHolding
<1>3. Holding => OneHolder  BY HolderCount DEF OneHolder
<1> QED  BY <1>1, <1>2, <1>3, PTL DEF Spec

-----------------------------------------------------------------------------
(* What a file says, by the queue it lies in: the second invariant.        *)

Newest(f) == f.hist[Len(f.hist)]
WentBack(f) == \E i \in DOMAIN f.hist : f.hist[i].actor = OPERATOR

\* k is the newest failure of a step before entry i.
LastStepFailure(hist, i, k) ==
    /\ k \in 1 .. i - 1 /\ hist[k].to = FAILED /\ hist[k].from \in Steps
    /\ \A j \in 1 .. i - 1 : hist[j].to = FAILED /\ hist[j].from \in Steps => j <= k

\* Entry i, if it follows a resume, goes to the step that failed.
ComesBack(hist, i) ==
    hist[i - 1].resumed # None =>
        /\ hist[i].actor = DISPATCHER
        /\ \E k \in 1 .. i - 2 : LastStepFailure(hist, i - 1, k) /\ hist[i].to = hist[k].from

\* What every entry of every history obeys, by who wrote it.
DispatcherEntry(f, i) ==
    LET e == f.hist[i] IN
    /\ e.from \in Steps \cup {None, FAILED}
    /\ e.to \in StepQueues \cup {END, FAILED}
    /\ e.resumed = None
    /\ e.from \in Steps => Delivered(f.hist, i) \/ GoesRound(f.hist, i)
    /\ e.from = FAILED => e.to = FAILED /\ e.outcome = None /\ DeclinedBefore(f.hist, i)
    /\ e.to \in StepQueues =>
          Known(f) /\ Route(With(f, e.from, e.outcome)) = MovesTo(e.to)

ConsumerEntry(f, i) ==
    /\ f.hist[i].from \in StepQueues /\ f.hist[i].to \in {None, FAILED}
    /\ f.hist[i].resumed = None

HealEntry(f, i) ==
    /\ f.hist[i].from = FAILED /\ f.hist[i].outcome = None
    /\ f.hist[i].to = IF HarnessMade(f) THEN FAILED ELSE END
    /\ f.hist[i].resumed = None

EntryOK(f, i) ==
    /\ f.hist[i].actor = DISPATCHER => DispatcherEntry(f, i)
    /\ f.hist[i].actor = CONSUMER => ConsumerEntry(f, i)
    /\ f.hist[i].actor = HEAL_ACTOR => HealEntry(f, i)
    /\ f.hist[i].actor = OPERATOR => f.hist[i].to = None
    /\ i > 1 => DeclinedBefore(f.hist, i - 1) \/ ComesBack(f.hist, i)

HistoryOK(f) == \A i \in DOMAIN f.hist : EntryOK(f, i)

\* The dispatch into step s that no later one followed.
Entered(f, s, e) ==
    /\ e \in DOMAIN f.hist
    /\ f.hist[e].actor = DISPATCHER /\ f.hist[e].to = s
    /\ \A j \in DOMAIN f.hist : j > e => f.hist[j].to \notin Steps

\* What a resume will find: the failure, and how its step was entered.
ReadyToResume(f) ==
    \E k \in DOMAIN f.hist :
        /\ IsNewest(f.hist, FAILED, k)
        /\ f.hist[k].from = FAILED => f.hist[k].outcome = None /\ DeclinedBefore(f.hist, k + 1)
        /\ f.hist[k].from \in Steps =>
              \E e \in DOMAIN f.hist : e < k /\ Entered(f, f.hist[k].from, e)

\* The outcome that the dispatcher is about to route on was delivered.
AboutToRoute(f) ==
    \E j \in DOMAIN f.hist :
        /\ f.hist[j].actor = CONSUMER /\ f.hist[j].from = f.status
        /\ f.hist[j].to = None /\ f.hist[j].outcome = f.last
        /\ \A k \in j + 1 .. Len(f.hist) :
              ~(f.hist[k].actor = DISPATCHER /\ f.hist[k].to = f.status)

\* The kinds of task in the inbox: new or restarted; back from a step; resumed;
\* resumed though the healer had declined it.
Anew(f) ==
    /\ f.status = None /\ f.last = None
    /\ f.hist # <<>> => Newest(f).resumed = None

BackFromStep(f) ==
    /\ f.status \in StepQueues /\ f.last \in Outcomes
    /\ f.hist # <<>> /\ Newest(f).resumed = None
    /\ \E e \in DOMAIN f.hist : Entered(f, f.status, e)
    /\ AboutToRoute(f)

SentBackTo(f, s) ==
    /\ s \in StepQueues
    /\ f.hist # <<>> /\ Newest(f).resumed = s
    /\ \E k \in DOMAIN f.hist :
          LastStepFailure(f.hist, Len(f.hist), k) /\ s = f.hist[k].from
    /\ Known(f) /\ Route(f) = MovesTo(s)
    /\ f.status \in Steps \cup {None}
    /\ f.status \in Steps => f.status = s \/ AboutToRoute(f)

SentBackDeclined(f) ==
    /\ f.status = FAILED /\ f.last = None
    /\ f.hist # <<>> /\ DeclinedBefore(f.hist, Len(f.hist))

NeverEnded(f) == \A i \in DOMAIN f.hist : f.hist[i].to \notin {END, FAILED}

InInbox(f) ==
    /\ \/ Anew(f) \/ BackFromStep(f) \/ SentBackDeclined(f)
       \/ \E s \in StepQueues : SentBackTo(f, s)
    /\ WentBack(f) \/ NeverEnded(f)

InStep(f, q) ==
    /\ f.status = q
    /\ f.hist # <<>> /\ Newest(f).actor = DISPATCHER /\ Newest(f).to = q
    /\ WentBack(f) \/ NeverEnded(f)

InDone(f) ==
    /\ f.status = END
    /\ f.hist # <<>> /\ Newest(f).to = END
    /\ Newest(f).actor \in {DISPATCHER, HEAL_ACTOR}
    /\ Newest(f).actor = HEAL_ACTOR => ReadyToResume(f)

InFailed(f) ==
    /\ f.status = FAILED
    /\ f.hist # <<>> /\ Newest(f).to = FAILED
    /\ ReadyToResume(f)

Fits(f, q) ==
    /\ HistoryOK(f)
    /\ q = Inbox => InInbox(f)
    /\ q \in StepQueues => InStep(f, q)
    /\ q = Done => InDone(f)
    /\ q = Failed => InFailed(f)


-----------------------------------------------------------------------------
(* What each operation makes of a file: lemmas about tasks alone.          *)

\* One more entry leaves the others what they were.
LEMMA Grown ==
    ASSUME NEW f \in TaskType, NEW g \in TaskType, NEW e \in EntryType,
           g.hist = Append(f.hist, e)
    PROVE  /\ Len(f.hist) \in Nat /\ DOMAIN f.hist = 1 .. Len(f.hist)
           /\ Len(g.hist) = Len(f.hist) + 1 /\ DOMAIN g.hist = 1 .. Len(f.hist) + 1
           /\ g.hist[Len(f.hist) + 1] = e /\ Newest(g) = e /\ g.hist # <<>>
           /\ \A i \in 1 .. Len(f.hist) : g.hist[i] = f.hist[i] /\ f.hist[i] \in EntryType
           /\ f.hist # <<>> => Len(f.hist) > 0 /\ Newest(f) = f.hist[Len(f.hist)]
<1>1. f.hist \in Seq(EntryType) /\ g.hist \in Seq(EntryType)  BY DEF TaskType
<1>2. Len(f.hist) \in Nat /\ DOMAIN f.hist = 1 .. Len(f.hist)
      /\ \A i \in 1 .. Len(f.hist) : f.hist[i] \in EntryType
      /\ (f.hist # <<>> => Len(f.hist) > 0)
  BY <1>1
<1>3. Len(g.hist) = Len(f.hist) + 1 /\ g.hist[Len(f.hist) + 1] = e
      /\ \A i \in 1 .. Len(f.hist) : g.hist[i] = f.hist[i]
  BY <1>1
<1>4. DOMAIN g.hist = 1 .. Len(g.hist) /\ g.hist # <<>>  BY <1>1, <1>2, <1>3
<1> QED  BY <1>2, <1>3, <1>4 DEF Newest

\* What is said of an entry depends on nothing that came after it.
LEMMA SamePast ==
    ASSUME NEW h \in Seq(EntryType), NEW h2 \in Seq(EntryType), NEW n \in Nat,
           \A j \in 1 .. n : h2[j] = h[j], NEW i \in 1 .. n
    PROVE  /\ Delivered(h2, i) <=> Delivered(h, i)
           /\ GoesRound(h2, i) <=> GoesRound(h, i)
           /\ DeclinedBefore(h2, i) <=> DeclinedBefore(h, i)
           /\ i > 1 => /\ DeclinedBefore(h2, i - 1) <=> DeclinedBefore(h, i - 1)
                       /\ ComesBack(h2, i) <=> ComesBack(h, i)
<1>1. i \in Nat /\ \A j \in 1 .. i : h2[j] = h[j]  OBVIOUS
<1>2. \A j \in 1 .. i - 1 : h2[j] = h[j]  BY <1>1
<1>3. h2[i] = h[i]  BY <1>1
<1>4. Delivered(h2, i) <=> Delivered(h, i)
  <2> DEFINE Undone(x, j) ==
               \A k \in j + 1 .. i - 1 : ~(x[k].actor = DISPATCHER /\ x[k].to = x[i].from)
             By(x, j) == /\ x[j].actor = CONSUMER /\ x[j].from = x[i].from
                         /\ x[j].to = None /\ x[j].outcome = x[i].outcome
  <2>1. ASSUME NEW j \in 1 .. i - 1  PROVE Undone(h2, j) <=> Undone(h, j)
    <3>1. \A k \in j + 1 .. i - 1 : h2[k] = h[k]  BY <1>1, <1>2
    <3> QED  BY <1>3, <3>1
  <2>2. \A j \in 1 .. i - 1 : By(h2, j) <=> By(h, j)  BY <1>2, <1>3
  <2>3. /\ Delivered(h2, i) <=> \E j \in 1 .. i - 1 : By(h2, j) /\ Undone(h2, j)
        /\ Delivered(h, i) <=> \E j \in 1 .. i - 1 : By(h, j) /\ Undone(h, j)
    BY Zenon DEF Delivered
  <2> HIDE DEF Undone, By
  <2> QED  BY <2>1, <2>2, <2>3
<1>5. DeclinedBefore(h2, i) <=> DeclinedBefore(h, i)  BY <1>2 DEF DeclinedBefore
<1>6. i > 1 => /\ i - 1 \in 1 .. i - 1 /\ h2[i - 1] = h[i - 1]
               /\ \A j \in 1 .. i - 2 : h2[j] = h[j]
               /\ i - 1 - 1 = i - 2
  BY <1>1, <1>2
<1>7. i > 1 => (DeclinedBefore(h2, i - 1) <=> DeclinedBefore(h, i - 1))
  BY <1>6 DEF DeclinedBefore
<1>8. GoesRound(h2, i) <=> GoesRound(h, i)  BY <1>3, <1>6 DEF GoesRound
<1>9. ASSUME i > 1, NEW k \in 1 .. i - 2
      PROVE  LastStepFailure(h2, i - 1, k) <=> LastStepFailure(h, i - 1, k)
  BY <1>6, <1>9 DEF LastStepFailure
<1>10. i > 1 => (ComesBack(h2, i) <=> ComesBack(h, i))
  BY <1>3, <1>6, <1>9 DEF ComesBack
<1> QED  BY <1>4, <1>5, <1>7, <1>8, <1>10

\* The routing decision depends on the pair and on the workflow alone.
LEMMA RouteSame ==
    ASSUME NEW f, NEW g, f.workflow = g.workflow, f.step = g.step,
           f.status = g.status, f.last = g.last
    PROVE  Route(f) = Route(g)
BY DEF Route

LEMMA RouteWith ==
    ASSUME NEW f \in TaskType, NEW g \in TaskType, SameMake(g, f),
           NEW s \in Statuses, NEW o \in Outcomes \cup {None}
    PROVE  /\ Route(With(g, s, o)) = Route(With(f, s, o))
           /\ g.status = s /\ g.last = o => Route(g) = Route(With(f, s, o))
<1>1. /\ SameMake(With(f, s, o), f) /\ With(f, s, o).status = s /\ With(f, s, o).last = o
      /\ SameMake(With(g, s, o), g) /\ With(g, s, o).status = s /\ With(g, s, o).last = o
  BY BothTyped
<1> QED  BY <1>1, RouteSame DEF SameMake

LEMMA HistoryGrows ==
    ASSUME NEW f \in TaskType, NEW g \in TaskType, NEW e \in EntryType,
           SameMake(g, f), g.hist = Append(f.hist, e), HistoryOK(f),
           EntryOK(g, Len(f.hist) + 1)
    PROVE  HistoryOK(g)
<1> DEFINE n == Len(f.hist)
<1>1. n \in Nat /\ DOMAIN f.hist = 1 .. n /\ DOMAIN g.hist = 1 .. n + 1
      /\ \A i \in 1 .. n : g.hist[i] = f.hist[i] /\ f.hist[i] \in EntryType
  BY Grown
<1>2. f.hist \in Seq(EntryType) /\ g.hist \in Seq(EntryType)  BY DEF TaskType
<1> HIDE DEF n
<1>3. ASSUME NEW i \in 1 .. n  PROVE EntryOK(g, i)
  <2>1. EntryOK(f, i) /\ g.hist[i] = f.hist[i] /\ f.hist[i] \in EntryType
    BY <1>1 DEF HistoryOK
  <2>2. /\ Delivered(g.hist, i) <=> Delivered(f.hist, i)
        /\ GoesRound(g.hist, i) <=> GoesRound(f.hist, i)
        /\ DeclinedBefore(g.hist, i) <=> DeclinedBefore(f.hist, i)
        /\ i > 1 => /\ DeclinedBefore(g.hist, i - 1) <=> DeclinedBefore(f.hist, i - 1)
                    /\ ComesBack(g.hist, i) <=> ComesBack(f.hist, i)
    BY <1>1, <1>2, SamePast
  <2>3. /\ Route(With(g, f.hist[i].from, f.hist[i].outcome))
             = Route(With(f, f.hist[i].from, f.hist[i].outcome))
        /\ Known(g) <=> Known(f)
        /\ HarnessMade(g) <=> HarnessMade(f)
    <3>1. f.hist[i].from \in Statuses /\ f.hist[i].outcome \in Outcomes \cup {None}
      BY <2>1 DEF EntryType
    <3> QED  BY <3>1, RouteWith DEF Known, HarnessMade, SameMake
  <2> QED
    BY <2>1, <2>2, <2>3 DEF EntryOK, DispatcherEntry, ConsumerEntry, HealEntry
<1>4. EntryOK(g, n + 1)  BY DEF n
<1>5. \A i \in 1 .. n + 1 : i \in 1 .. n \/ i = n + 1  BY <1>1
<1> QED  BY <1>1, <1>3, <1>4, <1>5 DEF HistoryOK

LEMMA EntryFields ==
    \A a, b, c, d : /\ Entry(a, b, c, d).actor = a /\ Entry(a, b, c, d).from = b
                    /\ Entry(a, b, c, d).to = c /\ Entry(a, b, c, d).outcome = d
                    /\ Entry(a, b, c, d).resumed = None
BY DEF Entry

\* A new file.
LEMMA NewFits ==
    ASSUME NEW f \in TaskType, f.status = None, f.last = None, f.hist = <<>>
    PROVE  Fits(f, Inbox)
<1>1. DOMAIN f.hist = {}  OBVIOUS
<1>2. HistoryOK(f) /\ NeverEnded(f)  BY <1>1 DEF HistoryOK, NeverEnded
<1>3. InInbox(f)  BY <1>2 DEF InInbox, Anew
<1> QED  BY <1>2, <1>3, Names DEF Fits

LEMMA EndedGrows ==
    ASSUME NEW f \in TaskType, NEW g \in TaskType, NEW e \in EntryType,
           g.hist = Append(f.hist, e)
    PROVE  /\ e.actor = OPERATOR => WentBack(g)
           /\ e.to \notin {END, FAILED} /\ (WentBack(f) \/ NeverEnded(f))
                 => WentBack(g) \/ NeverEnded(g)
<1> DEFINE n == Len(f.hist)
<1>1. n \in Nat /\ DOMAIN f.hist = 1 .. n /\ DOMAIN g.hist = 1 .. n + 1
      /\ g.hist[n + 1] = e /\ \A i \in 1 .. n : g.hist[i] = f.hist[i]
  BY Grown
<1> HIDE DEF n
<1>2. n + 1 \in 1 .. n + 1 /\ 1 .. n \subseteq 1 .. n + 1
      /\ \A i \in 1 .. n + 1 : i \in 1 .. n \/ i = n + 1
  BY <1>1
<1> QED  BY <1>1, <1>2 DEF WentBack, NeverEnded

LEMMA EnteredGrows ==
    ASSUME NEW f \in TaskType, NEW g \in TaskType, NEW e \in EntryType,
           g.hist = Append(f.hist, e), e.to \notin Steps, NEW s, NEW m, Entered(f, s, m)
    PROVE  Entered(g, s, m) /\ m <= Len(f.hist)
<1> DEFINE n == Len(f.hist)
<1>1. n \in Nat /\ DOMAIN f.hist = 1 .. n /\ DOMAIN g.hist = 1 .. n + 1
      /\ g.hist[n + 1] = e /\ \A i \in 1 .. n : g.hist[i] = f.hist[i]
  BY Grown
<1> HIDE DEF n
<1>2. 1 .. n \subseteq 1 .. n + 1 /\ \A i \in 1 .. n + 1 : i \in 1 .. n \/ i = n + 1
  BY <1>1
<1>3. Entered(g, s, m) /\ m \in 1 .. n  BY <1>1, <1>2 DEF Entered
<1> QED  BY <1>1, <1>3 DEF n

\* After an entry that is no resume nothing has to come back.
LEMMA NothingComesBack ==
    ASSUME NEW f \in TaskType, NEW g \in TaskType, NEW e \in EntryType,
           g.hist = Append(f.hist, e), f.hist # <<>> => Newest(f).resumed = None
    PROVE  Len(f.hist) + 1 > 1 => ComesBack(g.hist, Len(f.hist) + 1)
<1> DEFINE n == Len(f.hist)
<1>1. n \in Nat /\ \A i \in 1 .. n : g.hist[i] = f.hist[i]  BY Grown
<1>2. CASE n > 0
  <2>1. n + 1 - 1 = n /\ g.hist[n] = f.hist[n] /\ f.hist # <<>>  BY <1>1, <1>2
  <2>2. g.hist[n + 1 - 1].resumed = None  BY <2>1 DEF Newest
  <2> HIDE DEF n
  <2> QED  BY <2>2 DEF ComesBack, n
<1> QED  BY <1>1, <1>2

LEMMA NowDelivered ==
    ASSUME NEW f \in TaskType, NEW g \in TaskType, NEW e \in EntryType,
           g.hist = Append(f.hist, e), AboutToRoute(f), e.from = f.status, e.outcome = f.last
    PROVE  Delivered(g.hist, Len(f.hist) + 1)
<1> DEFINE n == Len(f.hist)
<1>1. n \in Nat /\ DOMAIN f.hist = 1 .. n /\ n + 1 - 1 = n
      /\ g.hist[n + 1] = e /\ \A i \in 1 .. n : g.hist[i] = f.hist[i]
  BY Grown
<1>2. PICK j \in 1 .. n :
         /\ f.hist[j].actor = CONSUMER /\ f.hist[j].from = f.status
         /\ f.hist[j].to = None /\ f.hist[j].outcome = f.last
         /\ \A k \in j + 1 .. n : ~(f.hist[k].actor = DISPATCHER /\ f.hist[k].to = f.status)
  BY <1>1 DEF AboutToRoute
<1> HIDE DEF n
<1>3. \A k \in j + 1 .. n : g.hist[k] = f.hist[k]  BY <1>1
<1>4. /\ g.hist[j].actor = CONSUMER /\ g.hist[j].from = g.hist[n + 1].from
      /\ g.hist[j].to = None /\ g.hist[j].outcome = g.hist[n + 1].outcome
      /\ \A k \in j + 1 .. n : ~(g.hist[k].actor = DISPATCHER
                                 /\ g.hist[k].to = g.hist[n + 1].from)
  BY <1>1, <1>2, <1>3
<1> QED  BY <1>1, <1>4 DEF Delivered, n

\* A file that records a failure as its newest entry can be resumed.
LEMMA NewFailureReady ==
    ASSUME NEW f \in TaskType, NEW g \in TaskType, NEW e \in EntryType,
           g.hist = Append(f.hist, e), e.to = FAILED,
           e.from = FAILED => e.outcome = None /\ DeclinedBefore(g.hist, Len(f.hist) + 2),
           e.from \in Steps => \E m \in DOMAIN f.hist : Entered(f, e.from, m)
    PROVE  ReadyToResume(g)
<1> DEFINE n == Len(f.hist)
<1>1. n \in Nat /\ DOMAIN f.hist = 1 .. n /\ DOMAIN g.hist = 1 .. n + 1 /\ g.hist[n + 1] = e
      /\ n + 1 + 1 = n + 2
  BY Grown
<1>2. IsNewest(g.hist, FAILED, n + 1)  BY <1>1 DEF IsNewest
<1>3. e.from \in Steps =>
         \E m \in DOMAIN g.hist : m < n + 1 /\ Entered(g, e.from, m)
  <2> SUFFICES ASSUME NEW m \in 1 .. n, Entered(f, e.from, m)
               PROVE  m \in 1 .. n + 1 /\ m < n + 1 /\ Entered(g, e.from, m)
    BY <1>1
  <2> QED  BY <1>1, EnteredGrows, Names
<1> HIDE DEF n
<1>4. n + 1 \in DOMAIN g.hist  BY <1>1
<1> QED  BY <1>1, <1>2, <1>3, <1>4 DEF ReadyToResume, n

\* The dispatcher takes a file out of the inbox.
LEMMA DispatchFits ==
    ASSUME NEW f \in TaskType, NEW g \in TaskType, NEW s \in Statuses, NEW dest,
           HistoryOK(f), InInbox(f),
           Updated(g, f, s, f.last, Entry(DISPATCHER, f.status, s, f.last)),
           \/ s = FAILED /\ dest = Failed
              /\ ~(\E q \in StepQueues : Known(f) /\ Route(f) = MovesTo(q))
           \/ s = END /\ dest = Done /\ Known(f) /\ Route(f).kind = "finish"
           \/ s \in StepQueues /\ dest = s /\ Known(f) /\ Route(f) = MovesTo(s)
    PROVE  Fits(g, dest)
<1> DEFINE n == Len(f.hist)
           e == Entry(DISPATCHER, f.status, s, f.last)
<1>1. /\ e \in EntryType /\ e.actor = DISPATCHER /\ e.from = f.status /\ e.to = s
      /\ e.outcome = f.last /\ e.resumed = None
  <2>1. e \in EntryType  BY DispatchUpdates
  <2> QED  BY <2>1, EntryFields
<1>0. n \in Nat  BY <1>1, Grown DEF Updated
<1>2. SameMake(g, f) /\ g.status = s /\ g.last = f.last /\ g.hist = Append(f.hist, e)
  BY DEF Updated
<1> HIDE DEF e
<1>3. /\ n \in Nat /\ DOMAIN f.hist = 1 .. n /\ g.hist[n + 1] = e /\ Newest(g) = e
      /\ g.hist # <<>> /\ n + 1 \in DOMAIN g.hist
      /\ \A i \in 1 .. n : g.hist[i] = f.hist[i]
      /\ f.hist # <<>> => n > 0 /\ Newest(f) = f.hist[n]
  BY <1>1, <1>2, Grown
<1>4. f.status \in Statuses /\ f.last \in Outcomes \cup {None} /\ f.hist \in Seq(EntryType)
  BY DEF TaskType
<1>5. s \in StepQueues =>
         Known(g) /\ Route(With(g, f.status, f.last)) = MovesTo(s)
  <2>1. Known(g) <=> Known(f)  BY <1>2 DEF Known, SameMake
  <2>2. Route(With(g, f.status, f.last)) = Route(With(f, f.status, f.last))
        /\ Route(f) = Route(With(f, f.status, f.last))
    BY <1>2, <1>4, RouteWith DEF SameMake
  <2> QED  BY <2>1, <2>2, Names
(* What the four kinds of file in the inbox say of where it goes.          *)
<1>6. \A q \in Steps : SentBackTo(f, q) => s = q /\ s \in StepQueues
  <2> SUFFICES ASSUME NEW q \in Steps, SentBackTo(f, q)  PROVE s = q /\ s \in StepQueues
    OBVIOUS
  <2>1. q \in StepQueues /\ Known(f) /\ Route(f) = MovesTo(q)  BY DEF SentBackTo
  <2>2. MovesTo(q).kind = "move" /\ MovesTo(q).step = q /\ MovesTo(s).step = s
    BY RouteShape
  <2> QED  BY <2>1, <2>2
<1>7. SentBackDeclined(f) => s = FAILED
  <2> SUFFICES ASSUME SentBackDeclined(f)  PROVE Route(f).kind = "fail"
    BY RouteShape
  <2>1. f.status # None /\ f.last = None  BY Names DEF SentBackDeclined
  <2> QED  BY <2>1 DEF Route, Fails
<1>8. f.status \in Steps =>
         /\ \/ AboutToRoute(f)
            \/ \E q \in StepQueues : SentBackTo(f, q) /\ f.status = q
         /\ s = FAILED => \E m \in DOMAIN f.hist : Entered(f, f.status, m)
  BY <1>6, Names DEF InInbox, Anew, BackFromStep, SentBackDeclined, SentBackTo
<1>9. f.status = FAILED => s = FAILED /\ f.last = None /\ f.hist # <<>>
                           /\ DeclinedBefore(f.hist, n)
  BY <1>7, Names DEF InInbox, Anew, BackFromStep, SentBackDeclined, SentBackTo
<1>10. f.status # END
  BY Names DEF InInbox, Anew, BackFromStep, SentBackDeclined, SentBackTo
<1>11. f.status = FAILED => /\ DeclinedBefore(g.hist, n + 1)
                            /\ DeclinedBefore(g.hist, n + 2)
                            /\ DeclinedBefore(g.hist, n)
  <2> SUFFICES ASSUME DeclinedBefore(f.hist, n)
               PROVE  /\ DeclinedBefore(g.hist, n + 1) /\ DeclinedBefore(g.hist, n + 2)
                      /\ DeclinedBefore(g.hist, n)
    BY <1>9
  <2>1. PICK j \in 1 .. n - 1 : f.hist[j].actor = HEAL_ACTOR /\ f.hist[j].to = FAILED
    BY DEF DeclinedBefore
  <2>2. j \in 1 .. n + 1 - 1 /\ j \in 1 .. n + 2 - 1 /\ j \in 1 .. n  BY <1>3
  <2>3. g.hist[j] = f.hist[j]  BY <1>3, <2>2
  <2> HIDE DEF n
  <2> QED  BY <1>0, <2>1, <2>2, <2>3 DEF DeclinedBefore
<1>12. f.status \in Steps => Delivered(g.hist, n + 1) \/ GoesRound(g.hist, n + 1)
  <2>1. AboutToRoute(f) => Delivered(g.hist, n + 1)  BY <1>1, <1>2, NowDelivered
  <2>2. ASSUME NEW q \in StepQueues, SentBackTo(f, q), f.status = q
        PROVE  GoesRound(g.hist, n + 1)
    <3>1. s = q  BY <1>6, <2>2, Names
    <3>2. f.hist # <<>> /\ Newest(f).resumed = q  BY <2>2 DEF SentBackTo
    <3>3. n > 0 /\ g.hist[n + 1 - 1].resumed = q  BY <1>3, <3>2
    <3>4. g.hist[n + 1].to = q /\ g.hist[n + 1].from = q  BY <1>1, <1>3, <2>2, <3>1
    <3>5. n + 1 > 1  BY <1>3, <3>3
    <3> HIDE DEF n
    <3> QED  BY <1>0, <3>3, <3>4, <3>5 DEF GoesRound
  <2> QED  BY <1>8, <2>1, <2>2
<1>13. n + 1 > 1 => DeclinedBefore(g.hist, n + 1 - 1) \/ ComesBack(g.hist, n + 1)
  <2>1. CASE f.hist # <<>> => Newest(f).resumed = None
    BY <1>1, <1>2, <2>1, NothingComesBack
  <2>2. CASE SentBackDeclined(f)
    <3>1. f.status = FAILED  BY <2>2 DEF SentBackDeclined
    <3>2. n + 1 - 1 = n  BY <1>3
    <3> QED  BY <1>11, <3>1, <3>2
  <2>3. ASSUME NEW q \in StepQueues, SentBackTo(f, q)  PROVE ComesBack(g.hist, n + 1)
    <3>1. s = q  BY <1>6, <2>3, Names
    <3>2. PICK k \in 1 .. n : LastStepFailure(f.hist, n, k) /\ q = f.hist[k].from
      BY <1>3, <2>3 DEF SentBackTo
    <3>3. n + 1 - 1 = n /\ n + 1 - 2 = n - 1  BY <1>3
    <3>4. k \in 1 .. n - 1 /\ \A j \in 1 .. n - 1 : g.hist[j] = f.hist[j]
      BY <1>3, <3>2 DEF LastStepFailure
    <3>5. LastStepFailure(g.hist, n, k)  BY <3>2, <3>4 DEF LastStepFailure
    <3>6. g.hist[n + 1].actor = DISPATCHER /\ g.hist[n + 1].to = g.hist[k].from
      BY <1>1, <1>3, <3>1, <3>2, <3>4
    <3> HIDE DEF n
    <3> QED  BY <1>0, <3>3, <3>4, <3>5, <3>6 DEF ComesBack
  <2> QED  BY <2>1, <2>2, <2>3 DEF InInbox, Anew, BackFromStep
<1>14. EntryOK(g, n + 1)
  <2>1. DispatcherEntry(g, n + 1)
    <3>1. e.from \in Steps \cup {None, FAILED}  BY <1>1, <1>4, <1>10 DEF Statuses
    <3>2. e.to \in StepQueues \cup {END, FAILED}  BY <1>1
    <3> HIDE DEF n
    <3> QED
      BY <1>1, <1>3, <1>5, <1>9, <1>11, <1>12, <3>1, <3>2, Names DEF DispatcherEntry
  <2> HIDE DEF n
  <2> QED  BY <1>1, <1>3, <1>13, <2>1, Names DEF EntryOK
<1>15. HistoryOK(g)  BY <1>1, <1>2, <1>14, HistoryGrows
<1>16. CASE s = FAILED /\ dest = Failed
  <2>1. ReadyToResume(g)
    BY <1>1, <1>2, <1>8, <1>9, <1>11, <1>16, NewFailureReady, Names
  <2> QED  BY <1>1, <1>2, <1>3, <1>15, <1>16, <2>1, Names DEF Fits, InFailed
<1>17. CASE s = END /\ dest = Done
  BY <1>1, <1>2, <1>3, <1>15, <1>17, Names DEF Fits, InDone
<1>18. CASE s \in StepQueues /\ dest = s
  <2>1. WentBack(g) \/ NeverEnded(g)
    BY <1>1, <1>2, <1>18, EndedGrows, Names DEF InInbox
  <2>2. InStep(g, s)  BY <1>1, <1>2, <1>3, <2>1 DEF InStep
  <2> QED  BY <1>2, <1>15, <1>18, <2>2, Names DEF Fits, InStep
<1> QED  BY <1>16, <1>17, <1>18

\* The newest entry of a file that lies in a step, in done/ or in failed/ is no
\* resume.
LEMMA RestingIsNoResume ==
    ASSUME NEW f \in TaskType, HistoryOK(f), f.hist # <<>>,
           Newest(f).actor = DISPATCHER \/ Newest(f).to \in {END, FAILED}
    PROVE  Newest(f).resumed = None
<1>1. f.hist \in Seq(EntryType)  BY DEF TaskType
<1>2. Len(f.hist) \in DOMAIN f.hist /\ Newest(f) \in EntryType  BY <1>1 DEF Newest
<1>3. EntryOK(f, Len(f.hist))  BY <1>2 DEF HistoryOK
<1>4. Newest(f).actor \in {DISPATCHER, CONSUMER, HEAL_ACTOR, OPERATOR}
  BY <1>2 DEF EntryType
<1> QED
  BY <1>3, <1>4, Names DEF EntryOK, DispatcherEntry, ConsumerEntry, HealEntry, Newest

\* A consumer delivers.
LEMMA DeliverFits ==
    ASSUME NEW f \in TaskType, NEW g \in TaskType, NEW q \in StepQueues, NEW o \in Outcomes,
           HistoryOK(f), InStep(f, q),
           Updated(g, f, f.status, o, Entry(CONSUMER, q, None, o))
    PROVE  Fits(g, Inbox)
<1> DEFINE n == Len(f.hist)
           e == Entry(CONSUMER, q, None, o)
<1>1. /\ e \in EntryType /\ e.actor = CONSUMER /\ e.from = q /\ e.to = None
      /\ e.outcome = o /\ e.resumed = None
  <2>1. e \in EntryType  BY DeliverUpdates
  <2> QED  BY <2>1, EntryFields
<1>2. SameMake(g, f) /\ g.status = q /\ g.last = o /\ g.hist = Append(f.hist, e)
  BY DEF Updated, InStep
<1> HIDE DEF e
<1>3. /\ n \in Nat /\ DOMAIN f.hist = 1 .. n /\ DOMAIN g.hist = 1 .. n + 1
      /\ g.hist[n + 1] = e /\ Newest(g) = e /\ g.hist # <<>> /\ Len(g.hist) = n + 1
      /\ n > 0 /\ Newest(f) = f.hist[n]
  BY <1>1, <1>2, Grown DEF InStep
<1>4. f.hist # <<>> => Newest(f).resumed = None  BY RestingIsNoResume DEF InStep
<1>5. n + 1 > 1 => ComesBack(g.hist, n + 1)  BY <1>1, <1>2, <1>4, NothingComesBack
<1>6. EntryOK(g, n + 1)
  <2> HIDE DEF n
  <2> QED  BY <1>1, <1>3, <1>5, Names DEF EntryOK, ConsumerEntry
<1>7. HistoryOK(g)  BY <1>1, <1>2, <1>6, HistoryGrows
<1>8. Entered(g, q, n)
  <2>1. Entered(f, q, n)
    <3>1. n \in DOMAIN f.hist /\ \A j \in DOMAIN f.hist : ~(j > n)  BY <1>3
    <3>2. f.hist[n].actor = DISPATCHER /\ f.hist[n].to = q  BY <1>3 DEF InStep
    <3> HIDE DEF n
    <3> QED  BY <3>1, <3>2 DEF Entered
  <2> QED  BY <1>1, <1>2, <2>1, EnteredGrows, Names
<1>9. AboutToRoute(g)
  <2>1. \A k \in n + 1 + 1 .. n + 1 : FALSE  BY <1>3
  <2>2. n + 1 \in DOMAIN g.hist  BY <1>3
  <2> HIDE DEF n
  <2> QED  BY <1>1, <1>2, <1>3, <2>1, <2>2 DEF AboutToRoute
<1>10. BackFromStep(g)
  <2>1. n \in DOMAIN g.hist  BY <1>3
  <2> HIDE DEF n
  <2> QED  BY <1>1, <1>2, <1>3, <1>8, <1>9, <2>1 DEF BackFromStep
<1>11. WentBack(g) \/ NeverEnded(g)
  BY <1>1, <1>2, EndedGrows, Names DEF InStep
<1> QED  BY <1>7, <1>10, <1>11, Names DEF Fits, InInbox

\* A behavior raises.
LEMMA FailFits ==
    ASSUME NEW f \in TaskType, NEW g \in TaskType, NEW q \in StepQueues,
           HistoryOK(f), InStep(f, q),
           Updated(g, f, FAILED, f.last, Entry(CONSUMER, q, FAILED, None))
    PROVE  Fits(g, Failed)
<1> DEFINE n == Len(f.hist)
           e == Entry(CONSUMER, q, FAILED, None)
<1>1. /\ e \in EntryType /\ e.actor = CONSUMER /\ e.from = q /\ e.to = FAILED
      /\ e.outcome = None /\ e.resumed = None
  <2>1. e \in EntryType  BY FailUpdates
  <2> QED  BY <2>1, EntryFields
<1>2. SameMake(g, f) /\ g.status = FAILED /\ g.hist = Append(f.hist, e)  BY DEF Updated
<1> HIDE DEF e
<1>3. /\ n \in Nat /\ DOMAIN f.hist = 1 .. n /\ g.hist[n + 1] = e
      /\ Newest(g) = e /\ g.hist # <<>> /\ n > 0 /\ Newest(f) = f.hist[n]
  BY <1>1, <1>2, Grown DEF InStep
<1>4. f.hist # <<>> => Newest(f).resumed = None  BY RestingIsNoResume DEF InStep
<1>5. n + 1 > 1 => ComesBack(g.hist, n + 1)  BY <1>1, <1>2, <1>4, NothingComesBack
<1>6. EntryOK(g, n + 1)
  <2> HIDE DEF n
  <2> QED  BY <1>1, <1>3, <1>5, Names DEF EntryOK, ConsumerEntry
<1>7. HistoryOK(g)  BY <1>1, <1>2, <1>6, HistoryGrows
<1>8. n \in DOMAIN f.hist /\ Entered(f, q, n)
  <2>1. n \in DOMAIN f.hist /\ \A j \in DOMAIN f.hist : ~(j > n)  BY <1>3
  <2>2. f.hist[n].actor = DISPATCHER /\ f.hist[n].to = q  BY <1>3 DEF InStep
  <2> HIDE DEF n
  <2> QED  BY <2>1, <2>2 DEF Entered
<1>9. ReadyToResume(g)  BY <1>1, <1>2, <1>8, NewFailureReady, Names
<1> QED  BY <1>1, <1>2, <1>3, <1>7, <1>9, Names DEF Fits, InFailed

\* The healer declines.
LEMMA NoteFits ==
    ASSUME NEW f \in TaskType, NEW g \in TaskType, HistoryOK(f), InFailed(f), HarnessMade(f),
           Updated(g, f, f.status, f.last, Entry(HEAL_ACTOR, FAILED, FAILED, None))
    PROVE  Fits(g, Failed)
<1> DEFINE n == Len(f.hist)
           e == Entry(HEAL_ACTOR, FAILED, FAILED, None)
<1>1. /\ e \in EntryType /\ e.actor = HEAL_ACTOR /\ e.from = FAILED /\ e.to = FAILED
      /\ e.outcome = None /\ e.resumed = None
  <2>1. e \in EntryType  BY DeclineUpdates
  <2> QED  BY <2>1, EntryFields
<1>2. SameMake(g, f) /\ g.status = FAILED /\ g.hist = Append(f.hist, e)
  BY DEF Updated, InFailed
<1> HIDE DEF e
<1>3. /\ n \in Nat /\ g.hist[n + 1] = e /\ Newest(g) = e /\ g.hist # <<>>
  BY <1>1, <1>2, Grown
<1>4. f.hist # <<>> => Newest(f).resumed = None  BY RestingIsNoResume DEF InFailed
<1>5. n + 1 > 1 => ComesBack(g.hist, n + 1)  BY <1>1, <1>2, <1>4, NothingComesBack
<1>6. HarnessMade(g)  BY <1>2 DEF HarnessMade, SameMake
<1>7. EntryOK(g, n + 1)
  <2> HIDE DEF n
  <2> QED  BY <1>1, <1>3, <1>5, <1>6, Names DEF EntryOK, HealEntry
<1>8. HistoryOK(g)  BY <1>1, <1>2, <1>7, HistoryGrows
<1>9. DeclinedBefore(g.hist, n + 2)
  <2>1. n + 1 \in 1 .. n + 2 - 1  BY <1>3
  <2> HIDE DEF n
  <2> QED  BY <1>1, <1>3, <2>1 DEF DeclinedBefore
<1>10. ReadyToResume(g)  BY <1>1, <1>2, <1>9, NewFailureReady, Names
<1> QED  BY <1>1, <1>2, <1>3, <1>8, <1>10, Names DEF Fits, InFailed

\* The healer retires.
LEMMA RetireFits ==
    ASSUME NEW f \in TaskType, NEW g \in TaskType, HistoryOK(f), InFailed(f), ~HarnessMade(f),
           Updated(g, f, END, f.last, Entry(HEAL_ACTOR, FAILED, END, None))
    PROVE  Fits(g, Done)
<1> DEFINE n == Len(f.hist)
           e == Entry(HEAL_ACTOR, FAILED, END, None)
<1>1. /\ e \in EntryType /\ e.actor = HEAL_ACTOR /\ e.from = FAILED /\ e.to = END
      /\ e.outcome = None /\ e.resumed = None
  <2>1. e \in EntryType  BY SettleUpdates
  <2> QED  BY <2>1, EntryFields
<1>2. SameMake(g, f) /\ g.status = END /\ g.hist = Append(f.hist, e)  BY DEF Updated
<1> HIDE DEF e
<1>3. /\ n \in Nat /\ DOMAIN f.hist = 1 .. n /\ DOMAIN g.hist = 1 .. n + 1
      /\ g.hist[n + 1] = e /\ Newest(g) = e /\ g.hist # <<>>
      /\ \A i \in 1 .. n : g.hist[i] = f.hist[i]
  BY <1>1, <1>2, Grown
<1>4. f.hist # <<>> => Newest(f).resumed = None  BY RestingIsNoResume DEF InFailed
<1>5. n + 1 > 1 => ComesBack(g.hist, n + 1)  BY <1>1, <1>2, <1>4, NothingComesBack
<1>6. ~HarnessMade(g)  BY <1>2 DEF HarnessMade, SameMake
<1>7. EntryOK(g, n + 1)
  <2> HIDE DEF n
  <2> QED  BY <1>1, <1>3, <1>5, <1>6, Names DEF EntryOK, HealEntry
<1>8. HistoryOK(g)  BY <1>1, <1>2, <1>7, HistoryGrows
<1>9. ReadyToResume(g)
  <2>1. PICK k \in 1 .. n :
           /\ IsNewest(f.hist, FAILED, k)
           /\ f.hist[k].from = FAILED =>
                 f.hist[k].outcome = None /\ DeclinedBefore(f.hist, k + 1)
           /\ f.hist[k].from \in Steps =>
                 \E m \in DOMAIN f.hist : m < k /\ Entered(f, f.hist[k].from, m)
    BY <1>3 DEF InFailed, ReadyToResume
  <2>2. g.hist[k] = f.hist[k] /\ k \in 1 .. n + 1
        /\ \A i \in 1 .. n + 1 : i \in 1 .. n \/ i = n + 1
    BY <1>3
  <2>3. IsNewest(g.hist, FAILED, k)
    <3> HIDE DEF n
    <3> QED  BY <1>1, <1>3, <2>1, <2>2, Names DEF IsNewest
  <2>4. DeclinedBefore(f.hist, k + 1) => DeclinedBefore(g.hist, k + 1)
    <3>1. k + 1 - 1 = k /\ \A j \in 1 .. k : g.hist[j] = f.hist[j]  BY <1>3
    <3> HIDE DEF n
    <3> QED  BY <3>1 DEF DeclinedBefore
  <2>5. \A m \in 1 .. n : Entered(f, f.hist[k].from, m) => Entered(g, f.hist[k].from, m)
    BY <1>1, <1>2, EnteredGrows, Names
  <2>6. 1 .. n \subseteq 1 .. n + 1  BY <1>3
  <2> HIDE DEF n
  <2> QED  BY <1>3, <2>1, <2>2, <2>3, <2>4, <2>5, <2>6 DEF ReadyToResume
<1> QED  BY <1>1, <1>2, <1>3, <1>8, <1>9, Names DEF Fits, InDone

\* The operator restarts.
LEMMA RestartFits ==
    ASSUME NEW f \in TaskType, NEW g \in TaskType, HistoryOK(f), InFailed(f),
           Updated(g, f, None, None, Entry(OPERATOR, FAILED, None, None))
    PROVE  Fits(g, Inbox)
<1> DEFINE n == Len(f.hist)
           e == Entry(OPERATOR, FAILED, None, None)
<1>1. /\ e \in EntryType /\ e.actor = OPERATOR /\ e.from = FAILED /\ e.to = None
      /\ e.outcome = None /\ e.resumed = None
  <2>1. e \in EntryType  BY RestartedUpdates
  <2> QED  BY <2>1, EntryFields
<1>2. /\ SameMake(g, f) /\ g.status = None /\ g.last = None
      /\ g.hist = Append(f.hist, e)
  BY DEF Updated
<1> HIDE DEF e
<1>3. /\ n \in Nat /\ g.hist[n + 1] = e /\ Newest(g) = e /\ g.hist # <<>>
  BY <1>1, <1>2, Grown
<1>4. f.hist # <<>> => Newest(f).resumed = None  BY RestingIsNoResume DEF InFailed
<1>5. n + 1 > 1 => ComesBack(g.hist, n + 1)  BY <1>1, <1>2, <1>4, NothingComesBack
<1>6. EntryOK(g, n + 1)
  <2> HIDE DEF n
  <2> QED  BY <1>1, <1>3, <1>5, Names DEF EntryOK
<1>7. HistoryOK(g)  BY <1>1, <1>2, <1>6, HistoryGrows
<1>8. WentBack(g)  BY <1>1, <1>2, EndedGrows
<1>9. InInbox(g)  BY <1>1, <1>2, <1>3, <1>8 DEF InInbox, Anew
<1> QED  BY <1>7, <1>9, Names DEF Fits

\* The operator resumes: the pair that route() sends into the failed step.
LEMMA ResumeFits ==
    ASSUME NEW f \in TaskType, NEW g \in TaskType, NEW e \in EntryType,
           HistoryOK(f), InFailed(f) \/ InDone(f), IsResumable(f),
           e.actor = OPERATOR, e.to = None, e.resumed = FailedStep(f),
           Updated(g, f, Rewind(f).status, Rewind(f).last, e)
    PROVE  Fits(g, Inbox)
<1> DEFINE n == Len(f.hist)
<1>1. /\ SameMake(g, f) /\ g.hist = Append(f.hist, e) /\ f.hist \in Seq(EntryType)
      /\ g.status = Rewind(f).status /\ g.last = Rewind(f).last
  BY DEF Updated, TaskType
<1>2. /\ n \in Nat /\ DOMAIN f.hist = 1 .. n /\ DOMAIN g.hist = 1 .. n + 1
      /\ g.hist[n + 1] = e /\ Newest(g) = e /\ g.hist # <<>> /\ Len(g.hist) = n + 1
      /\ \A i \in 1 .. n : g.hist[i] = f.hist[i] /\ f.hist[i] \in EntryType
      /\ n + 1 - 1 = n
  BY <1>1, Grown
<1>3. f.hist # <<>> => Newest(f).resumed = None  BY RestingIsNoResume DEF InFailed, InDone
<1>4. n + 1 > 1 => ComesBack(g.hist, n + 1)  BY <1>1, <1>3, NothingComesBack
<1>5. EntryOK(g, n + 1)
  <2> HIDE DEF n
  <2> QED  BY <1>2, <1>4, Names DEF EntryOK
<1>6. HistoryOK(g)  BY <1>1, <1>5, HistoryGrows
<1>7. WentBack(g)  BY <1>1, EndedGrows
(* The failure that is resumed, and what it says.                          *)
<1>8. ReadyToResume(f)
  BY Names DEF IsResumable, IsRetiredFailure, InFailed, InDone, Newest
<1>9. PICK k \in 1 .. n :
         /\ IsNewest(f.hist, FAILED, k)
         /\ f.hist[k].from = FAILED =>
               f.hist[k].outcome = None /\ DeclinedBefore(f.hist, k + 1)
         /\ f.hist[k].from \in Steps =>
               \E m \in DOMAIN f.hist : m < k /\ Entered(f, f.hist[k].from, m)
  BY <1>2, <1>8 DEF ReadyToResume
<1>10. FailedStep(f) = f.hist[k].from /\ FailedStep(f) # None /\ f.hist[k].to = FAILED
  <2>1. NewestMoveTo(f.hist, FAILED) = k /\ k # 0  BY <1>1, <1>9, NewestMove
  <2> QED  BY <1>9, <2>1 DEF FailedStep, IsResumable, IsNewest
<1>11. f.hist[k].from \in Steps \cup {FAILED}
  <2>1. EntryOK(f, k) /\ f.hist[k] \in EntryType  BY <1>2 DEF HistoryOK
  <2>2. f.hist[k].actor \in {DISPATCHER, CONSUMER, HEAL_ACTOR, OPERATOR}
    BY <2>1 DEF EntryType
  <2> QED
    BY <1>10, <2>1, <2>2, Names DEF EntryOK, DispatcherEntry, ConsumerEntry, HealEntry
<1>12. CASE f.hist[k].from = FAILED
  <2>1. NewestMoveTo(f.hist, FAILED) = k /\ k # 0  BY <1>1, <1>9, NewestMove
  <2>2. g.status = FAILED /\ g.last = None  BY <1>1, <1>9, <1>10, <1>12, <2>1 DEF Rewind
  <2>3. DeclinedBefore(g.hist, n + 1)
    <3>1. PICK j \in 1 .. k + 1 - 1 : f.hist[j].actor = HEAL_ACTOR /\ f.hist[j].to = FAILED
      BY <1>9, <1>12 DEF DeclinedBefore
    <3>2. j \in 1 .. n /\ g.hist[j] = f.hist[j]  BY <1>2, <3>1
    <3> HIDE DEF n
    <3> QED  BY <1>2, <3>1, <3>2 DEF DeclinedBefore
  <2>4. SentBackDeclined(g)  BY <1>2, <2>2, <2>3 DEF SentBackDeclined
  <2> QED  BY <1>6, <1>7, <2>4, Names DEF Fits, InInbox
<1>13. CASE f.hist[k].from \in Steps
  <2> DEFINE s == f.hist[k].from
  <2>1. PICK m \in 1 .. n : m < k /\ Entered(f, s, m)  BY <1>2, <1>9, <1>13
  <2>2. IsNewest(f.hist, s, m)  BY <1>2, <1>13, <2>1 DEF Entered, IsNewest
  <2>3. NewestMoveTo(f.hist, s) = m /\ m # 0  BY <1>1, <2>2, NewestMove
  <2>4. g.status = f.hist[m].from /\ g.last = f.hist[m].outcome
    BY <1>1, <1>10, <2>3 DEF Rewind
  <2>5. EntryOK(f, m) /\ f.hist[m].actor = DISPATCHER /\ f.hist[m].to = s
    BY <1>2, <2>1 DEF HistoryOK, Entered
  <2>6. DispatcherEntry(f, m) /\ s \in StepQueues
    BY <1>13, <2>5, Names DEF EntryOK, DispatcherEntry
  <2>7. Known(g) /\ Route(g) = MovesTo(s)
    <3>1. Known(f) /\ Route(With(f, f.hist[m].from, f.hist[m].outcome)) = MovesTo(s)
      BY <2>5, <2>6 DEF DispatcherEntry
    <3>2. f.hist[m].from \in Statuses /\ f.hist[m].outcome \in Outcomes \cup {None}
      BY <1>2 DEF EntryType
    <3>3. Route(g) = Route(With(f, f.hist[m].from, f.hist[m].outcome))
      BY <1>1, <2>4, <3>2, RouteWith
    <3> QED  BY <1>1, <3>1, <3>3 DEF Known, SameMake
  <2>8. g.status \in Steps \cup {None}
    BY <1>13, <2>4, <2>5, <2>6, Names DEF DispatcherEntry
  <2>9. LastStepFailure(g.hist, n + 1, k) /\ g.hist[k].from = s
    <3>1. g.hist[k] = f.hist[k]  BY <1>2
    <3>2. \A j \in 1 .. n : f.hist[j].to = FAILED => j <= k  BY <1>2, <1>9 DEF IsNewest
    <3>3. \A j \in 1 .. n : g.hist[j].to = FAILED => j <= k  BY <1>2, <3>2
    <3> HIDE DEF n
    <3> QED  BY <1>2, <1>10, <1>13, <3>1, <3>3 DEF LastStepFailure
  <2>10. g.status \in Steps => g.status = s \/ AboutToRoute(g)
    <3> SUFFICES ASSUME g.status \in Steps, g.status # s  PROVE AboutToRoute(g)
      OBVIOUS
    <3>1. Delivered(f.hist, m)
      BY <2>4, <2>5, <2>6 DEF DispatcherEntry, GoesRound
    <3>2. PICK j \in 1 .. m - 1 :
             /\ f.hist[j].actor = CONSUMER /\ f.hist[j].from = g.status
             /\ f.hist[j].to = None /\ f.hist[j].outcome = g.last
             /\ \A i \in j + 1 .. m - 1 :
                   ~(f.hist[i].actor = DISPATCHER /\ f.hist[i].to = g.status)
      BY <2>4, <3>1 DEF Delivered
    <3>3. j \in 1 .. n /\ j \in 1 .. n + 1 /\ g.hist[j] = f.hist[j]  BY <1>2, <2>1, <3>2
    <3>4. ASSUME NEW i \in j + 1 .. n + 1
          PROVE  ~(g.hist[i].actor = DISPATCHER /\ g.hist[i].to = g.status)
      <4>1. CASE i < m
        <5>1. i \in j + 1 .. m - 1 /\ i \in 1 .. n  BY <1>2, <2>1, <3>2, <4>1
        <5> QED  BY <1>2, <3>2, <5>1
      <4>2. CASE i = m  BY <1>2, <2>5, <4>2
      <4>3. CASE i > m /\ i # n + 1
        <5>1. i \in 1 .. n  BY <1>2, <2>1, <3>2, <4>3
        <5>2. f.hist[i].to \notin Steps  BY <1>2, <2>1, <4>3, <5>1 DEF Entered
        <5> QED  BY <1>2, <5>1, <5>2
      <4>4. CASE i = n + 1  BY <1>2, <4>4, Names
      <4> QED  BY <1>2, <2>1, <3>2, <4>1, <4>2, <4>3, <4>4
    <3> HIDE DEF n
    <3> QED  BY <1>2, <3>2, <3>3, <3>4 DEF AboutToRoute
  <2>11. SentBackTo(g, s)
    <3>1. Newest(g).resumed = s  BY <1>2, <1>10
    <3>2. k \in DOMAIN g.hist  BY <1>2
    <3> HIDE DEF n, s
    <3> QED
      BY <1>2, <2>6, <2>7, <2>8, <2>9, <2>10, <3>1, <3>2 DEF SentBackTo
  <2> QED  BY <1>6, <1>7, <2>6, <2>11, Names DEF Fits, InInbox
<1> QED  BY <1>11, <1>12, <1>13

-----------------------------------------------------------------------------
(* The second invariant, step by step.                                     *)

\* Where a task is headed: the queue that a transfer under way takes it to.
Headed(t) ==
    IF Moves(t) THEN loop.dest
    ELSE IF \E a \in Threads : Writes(a) /\ thread[a].task = t THEN Inbox
    ELSE at[t]

FilesFit == \A t \in Ids \ torn : file[t] # NoTask => Fits(file[t], Headed(t))

CopiesFit ==
    \A a \in Threads :
        thread[a].stage \in {"found", "claimed"} /\ thread[a].task \notin torn =>
            Fits(thread[a].copy, thread[a].queue)

\* A step that leaves a task's file and course alone, or accounts for them.
Rightly(t) ==
    \/ t \in torn' \/ file'[t] = NoTask
    \/ file'[t] = file[t] /\ Headed(t)' = Headed(t) /\ t \notin torn
    \/ Fits(file'[t], Headed(t)')

LEMMA FitByFit ==
    ASSUME FilesFit, \A t \in Ids : t \notin torn' => Rightly(t)
    PROVE  FilesFit'
BY DEF FilesFit, Rightly

\* Nothing is under way with an unclaimed task.
LEMMA HeadedUnheld ==
    ASSUME Holding, NEW t \in Ids, ~held[t]
    PROVE  /\ ~Moves(t) /\ \A a \in Threads : ~(Has(a) /\ thread[a].task = t)
           /\ Headed(t) = at[t]
BY DEF Holding, LoopHas, ThreadHas, Moves, Headed, Writes, Has

LEMMA HeadedSame ==
    ASSUME NEW t \in Ids,
           Moves(t)' <=> Moves(t), Moves(t) => loop'.dest = loop.dest,
           (\E a \in Threads : Writes(a)' /\ thread'[a].task = t)
               <=> \E a \in Threads : Writes(a) /\ thread[a].task = t,
           at'[t] = at[t]
    PROVE  Headed(t)' = Headed(t)
BY DEF Headed

LEMMA PutFits ==
    ASSUME Holding, Holding', FilesFit, CopiesFit,
           NEW new \in TaskType, Puts(new),
           new.status = None, new.last = None, new.hist = <<>>,
           loop' = loop \/ (loop.stage # "moving" /\ loop' \in Rests),
           UNCHANGED <<held, thread, torn>>
    PROVE  FilesFit' /\ CopiesFit'
<1>1. minted' \in Ids /\ minted \in Nat /\ minted' = minted + 1 /\ Ids \subseteq Nat
  BY HarnessAssumption DEF Puts, Ids, Holding, TypeOK
<1>2. /\ at' = [t \in Ids |-> IF t = minted' THEN Inbox ELSE at[t]]
      /\ file' = [t \in Ids |-> IF t = minted' THEN new ELSE file[t]]
      /\ UNCHANGED <<held, thread, torn>>
  BY <1>1 DEF Puts, Holding, TypeOK
<1>3. ASSUME NEW t \in Ids, t = minted'  PROVE Fits(file'[t], Headed(t)')
  <2>1. ~held'[t]  BY <1>1, <1>2, <1>3 DEF Holding, HeldIsThere, IdsInOrder, TypeOK
  <2>2. Headed(t)' = at'[t]
    BY <2>1 DEF Holding, LoopHas, ThreadHas, Moves, Headed, Writes, Has
  <2> QED  BY <1>2, <1>3, <2>2, NewFits
<1>4. ASSUME NEW t \in Ids, t # minted', t \notin torn  PROVE Rightly(t)
  <2>1. Moves(t)' <=> Moves(t)  BY DEF Moves, Rests, Free
  <2>2. Moves(t) => loop'.dest = loop.dest  BY DEF Moves
  <2>3. Headed(t)' = Headed(t)
    BY <1>2, <1>4, <2>1, <2>2, HeadedSame DEF Writes
  <2> QED  BY <1>2, <1>4, <2>3 DEF Rightly
<1>5. FilesFit'  BY <1>2, <1>3, <1>4, FitByFit DEF Rightly
<1>6. CopiesFit'  BY <1>2 DEF CopiesFit
<1> QED  BY <1>5, <1>6

\* Steps that write no file, move none, and leave every transfer where it is.
LEMMA StillFits ==
    ASSUME FilesFit, UNCHANGED <<file, at, torn>>,
           \A t \in Ids : /\ Moves(t)' <=> Moves(t)
                          /\ Moves(t) => loop'.dest = loop.dest,
           \A a \in Threads : /\ Writes(a)' <=> Writes(a)
                              /\ Writes(a) => thread'[a].task = thread[a].task
    PROVE  FilesFit'
<1>1. ASSUME NEW t \in Ids, t \notin torn  PROVE Rightly(t)
  <2>1. Headed(t)' = Headed(t)  BY HeadedSame
  <2> QED  BY <1>1, <2>1 DEF Rightly
<1> QED  BY <1>1, FitByFit

LEMMA FiledTyped ==
    ASSUME Holding, NEW t \in Ids
    PROVE  /\ file[t] # NoTask => file[t] \in TaskType
           /\ at[t] \in Queues => file[t] # NoTask
BY Names DEF Holding, TypeOK

\* A claimed task of a consumer is in the hands of nobody else.
LEMMA HeadedRunning ==
    ASSUME Holding, NEW t \in running
    PROVE  Headed(t) = at[t] /\ at[t] \in StepQueues /\ file[t] # NoTask
<1>1. t \in Ids /\ at[t] \in StepQueues /\ ~Moves(t)
      /\ \A a \in Threads : ~(Has(a) /\ thread[a].task = t)
  BY DEF Holding, TypeOK, ConsumerHas, LoopHas, ThreadHas, Moves
<1>2. StepQueues \subseteq Queues  BY DEF Queues
<1> QED  BY <1>1, <1>2, FiledTyped DEF Headed, Writes, Has

\* The first half of a transfer.
LEMMA WrittenFits ==
    ASSUME Holding, FilesFit,
           NEW t \in Ids, NEW new \in TaskType, NEW dest \in Queues, NEW then \in Rests,
           Written(t, new, dest, then), t \notin torn
    PROVE  Fits(new, dest)
<1> DEFINE f == file[t]
<1>1. f \in TaskType /\ f # NoTask
  BY WrittenMeans, NoTaskAssumption
<1>2. CASE ByDispatcher(t, new, dest, then)
  <2>1. at[t] = Inbox /\ ~held[t]  BY <1>2 DEF ByDispatcher, Lies
  <2>2. Fits(f, Inbox)  BY <1>1, <2>1, HeadedUnheld DEF FilesFit
  <2>3. HistoryOK(f) /\ InInbox(f)  BY <2>2 DEF Fits
  <2> HIDE DEF f
  <2>4. PICK s \in Statuses :
           /\ Updated(new, f, s, f.last, Entry(DISPATCHER, f.status, s, f.last))
           /\ \/ s = FAILED /\ dest = Failed
                 /\ ~(\E q \in StepQueues : Known(f) /\ Route(f) = MovesTo(q))
              \/ s = END /\ dest = Done /\ Known(f) /\ Route(f).kind = "finish"
              \/ s \in StepQueues /\ dest = s /\ Known(f) /\ Route(f) = MovesTo(s)
    BY <1>2 DEF ByDispatcher, f
  <2> QED  BY <1>1, <2>3, <2>4, DispatchFits
<1>3. CASE ByDelivery(t, new, dest, then) \/ ByFailure(t, new, dest, then)
  <2>1. t \in running  BY <1>3 DEF ByDelivery, ByFailure
  <2>2. at[t] \in StepQueues /\ Fits(f, at[t])  BY <1>1, <2>1, HeadedRunning DEF FilesFit
  <2>3. HistoryOK(f) /\ InStep(f, at[t])  BY <2>2 DEF Fits
  <2>4. CASE ByDelivery(t, new, dest, then)
    BY <1>1, <2>2, <2>3, <2>4, DeliverFits DEF ByDelivery
  <2>5. CASE ByFailure(t, new, dest, then)
    BY <1>1, <2>2, <2>3, <2>5, FailFits DEF ByFailure
  <2> QED  BY <1>3, <2>4, <2>5
<1>4. CASE ByNote(t, new, dest, then) \/ ByRetirement(t, new, dest, then)
  <2>1. at[t] = Failed /\ ~held[t]  BY <1>4 DEF ByNote, ByRetirement, Lies
  <2>2. Fits(f, Failed)  BY <1>1, <2>1, HeadedUnheld DEF FilesFit
  <2>3. HistoryOK(f) /\ InFailed(f)  BY <2>2 DEF Fits
  <2>4. CASE ByNote(t, new, dest, then)  BY <1>1, <2>3, <2>4, NoteFits DEF ByNote
  <2>5. CASE ByRetirement(t, new, dest, then)
    BY <1>1, <2>3, <2>5, RetireFits DEF ByRetirement
  <2> QED  BY <1>4, <2>4, <2>5
<1> QED  BY <1>2, <1>3, <1>4 DEF Written

LEMMA WriteBackFits ==
    ASSUME Holding, FilesFit, CopiesFit,
           NEW t \in Ids, NEW new \in TaskType, NEW dest \in Queues, NEW then \in Rests,
           Written(t, new, dest, then)
    PROVE  FilesFit' /\ CopiesFit'
<1>1. /\ WriteBack(t, new, dest, then) /\ loop.stage # "moving"
      /\ UNCHANGED <<at, thread, torn>>
  BY WrittenMeans DEF Written, WriteBack, counters
<1>2. /\ file' = [u \in Ids |-> IF u = t THEN new ELSE file[u]]
      /\ loop'.stage = "moving" /\ loop'.task = t /\ loop'.dest = dest
  BY <1>1 DEF WriteBack, Moving, Holding, TypeOK
<1>3. t \notin torn => Fits(file'[t], Headed(t)')
  BY <1>2, WrittenFits DEF Headed, Moves
<1>4. ASSUME NEW u \in Ids, u # t, u \notin torn  PROVE Rightly(u)
  <2>1. Headed(u)' = Headed(u)
    BY <1>1, <1>2, <1>4, HeadedSame DEF Moves, Writes
  <2> QED  BY <1>2, <1>4, <2>1 DEF Rightly
<1>5. FilesFit'  BY <1>1, <1>3, <1>4, FitByFit DEF Rightly
<1>6. CopiesFit'  BY <1>1 DEF CopiesFit
<1> QED  BY <1>5, <1>6

\* The second half.
LEMMA FinishFits ==
    ASSUME Holding, Holding', FilesFit, CopiesFit, FinishTransfer
    PROVE  FilesFit' /\ CopiesFit'
<1>1. /\ loop.stage = "moving" /\ loop.task \in Ids /\ loop' = loop.then
      /\ loop.then \in Rests
      /\ UNCHANGED <<file, thread, torn>>
  BY LoopShape DEF FinishTransfer, Holding, TypeOK, counters
<1>2. /\ at' = [u \in Ids |-> IF u = loop.task THEN loop.dest ELSE at[u]]
      /\ held' = [u \in Ids |-> IF u = loop.task THEN FALSE ELSE held[u]]
      /\ loop'.stage # "moving"
  <2>1. loop'.stage # "moving"  BY <1>1 DEF Rests, Free
  <2> QED  BY <1>1, <2>1 DEF FinishTransfer, Holding, TypeOK
<1>3. ASSUME NEW u \in Ids, u \notin torn  PROVE Rightly(u)
  <2>1. CASE u = loop.task
    <3>1. Headed(u) = loop.dest  BY <1>1, <2>1 DEF Headed, Moves
    <3>2. ~held'[u]  BY <1>2, <2>1
    <3>3. Headed(u)' = at'[u]
      BY <1>2, <3>2 DEF Holding, LoopHas, ThreadHas, Moves, Headed, Writes, Has
    <3> QED  BY <1>1, <1>2, <1>3, <2>1, <3>1, <3>3 DEF Rightly
  <2>2. CASE u # loop.task
    <3>1. Headed(u)' = Headed(u)  BY <1>1, <1>2, <2>2, HeadedSame DEF Moves, Writes
    <3> QED  BY <1>1, <1>3, <3>1 DEF Rightly
  <2> QED  BY <2>1, <2>2
<1>4. FilesFit'  BY <1>1, <1>3, FitByFit
<1>5. CopiesFit'  BY <1>1 DEF CopiesFit
<1> QED  BY <1>4, <1>5

\* A request looks: the copy it takes away says what the file says.
LEMMA FindFits ==
    ASSUME Holding, FilesFit, CopiesFit,
           NEW a \in Threads, NEW v \in Verbs, NEW t \in Ids, RequestFind(a, v, t)
    PROVE  FilesFit' /\ CopiesFit'
<1> DEFINE r == Request("found", v, t, at[t], file[t])
<1>1. /\ UNCHANGED <<file, at, loop, torn>> /\ ~held[t] /\ at[t] \in LooksIn(v)
      /\ thread' = [b \in Threads |-> IF b = a THEN r ELSE thread[b]]
      /\ thread[a] = NoRequest
  BY DEF RequestFind, Holding, TypeOK
<1>2. ~Writes(a) /\ r.stage = "found" /\ r.task = t /\ r.queue = at[t] /\ r.copy = file[t]
  BY <1>1 DEF Request, Writes, NoRequest
<1> HIDE DEF r
<1>3. FilesFit'
  <2>1. ASSUME NEW b \in Threads
        PROVE  /\ Writes(b)' <=> Writes(b)
               /\ Writes(b) => thread'[b].task = thread[b].task
    BY <1>1, <1>2 DEF Writes
  <2> QED  BY <1>1, <2>1, StillFits DEF Moves
<1>4. t \notin torn => Fits(file[t], at[t])
  <2>1. LooksIn(v) \subseteq Queues  BY HarnessAssumption DEF LooksIn, Queues
  <2> QED  BY <1>1, <2>1, HeadedUnheld, FiledTyped DEF FilesFit
<1>5. CopiesFit'  BY <1>1, <1>2, <1>4 DEF CopiesFit
<1> QED  BY <1>3, <1>5

\* A request gives up: nothing changes but its thread.
LEMMA LostFits ==
    ASSUME Holding, FilesFit, CopiesFit, NEW a \in Threads, RequestLost(a)
    PROVE  FilesFit' /\ CopiesFit'
<1>1. /\ UNCHANGED <<file, at, loop, torn>>
      /\ thread' = [b \in Threads |-> IF b = a THEN NoRequest ELSE thread[b]]
      /\ thread[a].stage = "found"
  BY DEF RequestLost, Holding, TypeOK, counters
<1>2. ASSUME NEW b \in Threads
      PROVE  /\ Writes(b)' <=> Writes(b)
             /\ Writes(b) => thread'[b].task = thread[b].task
  BY <1>1 DEF Writes, NoRequest
<1>3. FilesFit'  BY <1>1, <1>2, StillFits DEF Moves
<1>4. CopiesFit'  BY <1>1 DEF CopiesFit, NoRequest
<1> QED  BY <1>3, <1>4

\* A request claims, and writes the copy it took away over the file.
LEMMA TakeFits ==
    ASSUME Holding, FilesFit, CopiesFit, NEW a \in Threads, RequestClaim(a)
    PROVE  FilesFit' /\ CopiesFit'
<1> DEFINE t == thread[a].task
           r == thread[a]
<1>1. thread[a].stage = "found" /\ r \in RequestType
  BY ThreadShape DEF RequestClaim, Holding, TypeOK, Asks
<1>2. t \in Ids /\ at[t] = r.queue /\ ~held[t]
  BY <1>1 DEF RequestClaim, Lies, RequestType
<1>3. /\ UNCHANGED <<at, loop, torn>>
      /\ file' = [u \in Ids |-> IF u = t THEN r.copy ELSE file[u]]
  BY <1>2 DEF RequestClaim, Holding, TypeOK, counters
<1>4. /\ thread' = [b \in Threads |-> IF b = a THEN [r EXCEPT !.stage = "claimed"]
                                      ELSE thread[b]]
  BY DEF RequestClaim, Holding, TypeOK
<1>5. /\ thread'[a].stage = "claimed" /\ thread'[a].task = t
      /\ thread'[a].copy = r.copy /\ thread'[a].queue = r.queue
  BY <1>1, <1>4 DEF RequestType
<1> HIDE DEF r
<1>6. ASSUME NEW b \in Threads
      PROVE  /\ Writes(b)' <=> Writes(b)
             /\ Writes(b) => thread'[b].task = thread[b].task
  BY <1>1, <1>4, <1>5 DEF Writes
<1>7. ASSUME NEW u \in Ids, u \notin torn  PROVE Rightly(u)
  <2>1. Headed(u)' = Headed(u)  BY <1>3, <1>6, HeadedSame DEF Moves
  <2>2. CASE u = t
    <3>1. Fits(r.copy, r.queue)  BY <1>1, <1>7, <2>2 DEF CopiesFit, r
    <3>2. Headed(u) = r.queue  BY <1>2, <2>2, HeadedUnheld
    <3> QED  BY <1>2, <1>3, <2>1, <2>2, <3>1, <3>2 DEF Rightly
  <2>3. CASE u # t  BY <1>3, <1>7, <2>1, <2>3 DEF Rightly
  <2> QED  BY <2>2, <2>3
<1>8. FilesFit'  BY <1>3, <1>7, FitByFit
<1>9. CopiesFit'
  <2> SUFFICES ASSUME NEW b \in Threads, thread'[b].stage \in {"found", "claimed"},
                      thread'[b].task \notin torn
               PROVE  Fits(thread'[b].copy, thread'[b].queue)
    BY <1>3 DEF CopiesFit
  <2>1. CASE b = a  BY <1>1, <1>5, <2>1 DEF CopiesFit, r
  <2>2. CASE b # a  BY <1>4, <2>2 DEF CopiesFit
  <2> QED  BY <2>1, <2>2
<1> QED  BY <1>8, <1>9

\* A request writes the task it claimed, restarted or resumed, for the inbox.
LEMMA RequeueFits ==
    ASSUME Holding, CopiesFit, NEW a \in Threads, NEW new \in TaskType, Requeues(a, new),
           thread[a].task \notin torn
    PROVE  Fits(new, Inbox)
<1> DEFINE f == thread[a].copy
           q == thread[a].queue
<1>1. thread[a].stage = "claimed" /\ Asks(a)  BY DEF Requeues, Asks
<1>2. f \in TaskType  BY <1>1, ThreadShape DEF Holding, TypeOK
<1>3. Fits(f, q) /\ q \in LooksIn(thread[a].verb) /\ Accepts(thread[a].verb, f)
  BY <1>1 DEF CopiesFit, Holding, RequestKnows
<1> HIDE DEF f, q
<1>4. CASE thread[a].verb = "restart" /\ new = Restarted(f)
  <2>1. HistoryOK(f) /\ InFailed(f)  BY <1>3, <1>4 DEF LooksIn, Fits
  <2>2. Updated(new, f, None, None, Entry(OPERATOR, FAILED, None, None))
    BY <1>2, <1>4, RestartedUpdates
  <2> QED  BY <1>2, <2>1, <2>2, RestartFits
<1>5. CASE thread[a].verb = "resume" /\ new = Resumed(f)
  <2>1. HistoryOK(f) /\ (InFailed(f) \/ InDone(f)) /\ IsResumable(f)
    BY <1>3, <1>5 DEF LooksIn, Fits, Accepts
  <2>2. PICK e \in EntryType :
           /\ e.actor = OPERATOR /\ e.to = None /\ e.resumed = FailedStep(f)
           /\ Updated(new, f, Rewind(f).status, Rewind(f).last, e)
    BY <1>2, <1>5, ResumedUpdates
  <2> QED  BY <1>2, <2>1, <2>2, ResumeFits
<1> QED  BY <1>4, <1>5 DEF Requeues, f

LEMMA WriteFits ==
    ASSUME Holding, FilesFit, CopiesFit, NEW a \in Threads, RequestWrite(a)
    PROVE  FilesFit' /\ CopiesFit'
<1> DEFINE t == thread[a].task
           r == thread[a]
<1>1. PICK new \in TaskType : Requeues(a, new)  BY RequestWrites
<1>2. r.stage = "claimed" /\ r \in RequestType /\ Has(a)
  BY ThreadShape DEF RequestWrite, Holding, TypeOK, Asks, Has
<1>3. t \in Ids /\ ~Moves(t)  BY <1>2 DEF RequestType, Holding, ThreadHas
<1>4. /\ UNCHANGED <<at, loop, torn>>
      /\ file' = [u \in Ids |-> IF u = t THEN new ELSE file[u]]
      /\ thread' = [b \in Threads |-> IF b = a THEN [r EXCEPT !.stage = "written"]
                                      ELSE thread[b]]
  BY <1>1, <1>3 DEF RequestWrite, Requeues, Holding, TypeOK, counters
<1>5. thread'[a].stage = "written" /\ thread'[a].task = t
  BY <1>2, <1>4 DEF RequestType
<1>6. t \notin torn => Fits(new, Inbox)  BY <1>1, RequeueFits
<1> HIDE DEF r, t
<1>7. ASSUME NEW u \in Ids, u = t, u \notin torn  PROVE Rightly(u)
  <2>1. Headed(u)' = Inbox  BY <1>3, <1>4, <1>5, <1>7 DEF Headed, Writes, Moves
  <2> QED  BY <1>4, <1>6, <1>7, <2>1 DEF Rightly
<1>8. ASSUME NEW u \in Ids, u # t, u \notin torn  PROVE Rightly(u)
  <2>1. ASSUME NEW b \in Threads
        PROVE  Writes(b)' /\ thread'[b].task = u <=> Writes(b) /\ thread[b].task = u
    BY <1>2, <1>4, <1>5, <1>8 DEF Writes, t, r
  <2>2. Headed(u)' = Headed(u)  BY <1>4, <2>1, HeadedSame DEF Moves
  <2> QED  BY <1>4, <1>8, <2>2 DEF Rightly
<1>9. FilesFit'  BY <1>4, <1>7, <1>8, FitByFit
<1>10. CopiesFit'  BY <1>4, <1>5 DEF CopiesFit
<1> QED  BY <1>9, <1>10

\* A request lets go: its task is in the inbox, or is gone.
LEMMA ReleaseFits ==
    ASSUME Holding, FilesFit, CopiesFit, NEW a \in Threads, RequestRename(a) \/ RequestDiscard(a)
    PROVE  FilesFit' /\ CopiesFit'
<1> DEFINE t == thread[a].task
<1>1. PICK q \in Queues \cup {Nowhere}, new \in TaskType \cup {NoTask} :
         /\ Releases(a, q, new)
         /\ q = Nowhere <=> new = NoTask
         /\ new # NoTask => new = file[t] /\ q = Inbox /\ Writes(a)
  BY RequestReleases
<1>2. Has(a) /\ Asks(a)  BY RequestReleases DEF Has, Asks
<1>3. t \in Ids /\ ~Moves(t) /\ \A b \in Threads : Has(b) /\ b # a => thread[b].task # t
  BY <1>2, ThreadShape DEF Holding, TypeOK, ThreadHas, OneThreadHas
<1>4. /\ file' = [u \in Ids |-> IF u = t THEN new ELSE file[u]]
      /\ at' = [u \in Ids |-> IF u = t THEN q ELSE at[u]]
      /\ thread' = [b \in Threads |-> IF b = a THEN NoRequest ELSE thread[b]]
      /\ UNCHANGED <<loop, torn>>
  BY <1>1, <1>3 DEF Releases, Holding, TypeOK
<1>5. \A b \in Threads : Writes(b)' <=> Writes(b) /\ b # a
  BY <1>4 DEF Writes, NoRequest
<1>6. ASSUME NEW u \in Ids, u = t, u \notin torn  PROVE Rightly(u)
  <2>1. CASE new = NoTask  BY <1>4, <1>6, <2>1 DEF Rightly
  <2>2. CASE new # NoTask
    <3>1. new = file[u] /\ q = Inbox /\ Writes(a) /\ thread[a].task = u  BY <1>1, <1>6, <2>2
    <3>2. Headed(u) = Inbox  BY <1>3, <1>6, <3>1 DEF Headed
    <3>3. \A b \in Threads : ~(Writes(b)' /\ thread'[b].task = u)
      BY <1>3, <1>4, <1>5, <1>6 DEF Writes, Has
    <3>4. Headed(u)' = Inbox  BY <1>3, <1>4, <1>6, <3>1, <3>3 DEF Headed, Moves
    <3> QED  BY <1>4, <1>6, <3>1, <3>2, <3>4 DEF Rightly
  <2> QED  BY <2>1, <2>2
<1>7. ASSUME NEW u \in Ids, u # t, u \notin torn  PROVE Rightly(u)
  <2>1. ASSUME NEW b \in Threads
        PROVE  Writes(b)' /\ thread'[b].task = u <=> Writes(b) /\ thread[b].task = u
    BY <1>4, <1>5, <1>7
  <2>2. Headed(u)' = Headed(u)  BY <1>4, <1>7, <2>1, HeadedSame DEF Moves
  <2> QED  BY <1>4, <1>7, <2>2 DEF Rightly
<1>8. FilesFit'  BY <1>4, <1>6, <1>7, FitByFit
<1>9. CopiesFit'  BY <1>4 DEF CopiesFit, NoRequest
<1> QED  BY <1>8, <1>9

\* The tasks that a crash catches in a transfer are torn, the others lie where
\* they were headed.
LEMMA CrashFits == ASSUME FilesFit, Crash PROVE FilesFit' /\ CopiesFit'
<1>1. /\ UNCHANGED <<file, at>> /\ loop' = Free /\ torn' = torn \cup Unfinished
      /\ thread' = [a \in Threads |-> NoRequest]
  BY DEF Crash
<1>2. ASSUME NEW t \in Ids, t \notin torn'  PROVE Rightly(t)
  <2>1. ~Moves(t) /\ \A a \in Threads : ~(Writes(a) /\ thread[a].task = t)
    BY <1>1, <1>2 DEF Unfinished, Moves, Writes
  <2>2. ~Moves(t)' /\ \A a \in Threads : ~Writes(a)'
    BY <1>1 DEF Moves, Writes, Free, NoRequest
  <2>3. Headed(t)' = Headed(t)  BY <1>1, <2>1, <2>2 DEF Headed
  <2> QED  BY <1>1, <1>2, <2>3 DEF Rightly
<1>3. FilesFit'  BY <1>2, FitByFit
<1>4. CopiesFit'  BY <1>1 DEF CopiesFit, NoRequest
<1> QED  BY <1>3, <1>4

LEMMA InitFits == Init => FilesFit /\ CopiesFit
BY DEF Init, FilesFit, CopiesFit, NoRequest

LEMMA NextFits ==
    ASSUME Holding, FilesFit, CopiesFit, [Next]_vars
    PROVE  FilesFit' /\ CopiesFit'
<1>0. Holding'  BY NextHolding
<1>1. CASE Submit
  <2>1. PICK new \in TaskType : Puts(new) /\ \E s \in Submissions : new = NewTask(s, 0)
    BY <1>1, SubmitPuts
  <2>2. UNCHANGED <<held, loop, thread, torn>>  BY <1>1 DEF Submit
  <2>3. new.status = None /\ new.last = None /\ new.hist = <<>>  BY <2>1 DEF NewTask
  <2> QED  BY <1>0, <2>1, <2>2, <2>3, PutFits
<1>2. CASE HealPut
  <2>1. PICK of \in loop.obs :
           /\ loop' \in Rests
           /\ \/ UNCHANGED <<file, at>>
              \/ HealTask(of) \in TaskType /\ Puts(HealTask(of))
    BY <1>2, HealPutCases
  <2>2. loop.stage # "moving" /\ UNCHANGED <<held, thread, torn>>  BY <1>2, HealPutCases
  <2>3. HealTask(of).status = None /\ HealTask(of).last = None /\ HealTask(of).hist = <<>>
    BY DEF HealTask, NewTask
  <2>4. CASE UNCHANGED <<file, at>>
    <3>1. loop'.stage # "moving"  BY <2>1 DEF Rests, Free
    <3>2. FilesFit'  BY <2>2, <2>4, <3>1, StillFits DEF Moves, Writes
    <3> QED  BY <2>2, <3>2 DEF CopiesFit
  <2> QED  BY <1>0, <2>1, <2>2, <2>3, <2>4, PutFits
<1>3. CASE HealStart \/ HealSkip \/ HealEnd
  <2>1. loop.stage # "moving" /\ loop' \in Rests /\ UNCHANGED <<file, at, thread, torn>>
    BY <1>3, LoopMoves
  <2>2. loop'.stage # "moving"  BY <2>1 DEF Rests, Free
  <2>3. FilesFit'  BY <2>1, <2>2, StillFits DEF Moves, Writes
  <2> QED  BY <2>1, <2>3 DEF CopiesFit
<1>4. CASE WritesBack  BY <1>4, WriteBackFits DEF WritesBack
<1>5. CASE FinishTransfer  BY <1>0, <1>5, FinishFits
<1>6. ASSUME NEW q \in StepQueues, ConsumerClaim(q)  PROVE FilesFit' /\ CopiesFit'
  <2>1. UNCHANGED <<file, at, loop, thread, torn>>  BY <1>6 DEF ConsumerClaim, counters
  <2>2. FilesFit'  BY <2>1, StillFits DEF Moves, Writes
  <2> QED  BY <2>1, <2>2 DEF CopiesFit
<1>7. CASE \E a \in Threads, v \in Verbs, t \in Ids : RequestFind(a, v, t)
  BY <1>7, FindFits
<1>8. ASSUME NEW a \in Threads,
             \/ RequestLost(a) \/ RequestClaim(a) \/ RequestWrite(a)
             \/ RequestRename(a) \/ RequestDiscard(a)
      PROVE  FilesFit' /\ CopiesFit'
  BY <1>8, LostFits, TakeFits, WriteFits, ReleaseFits
<1>9. CASE Crash  BY <1>9, CrashFits
<1>10. CASE Restart \/ UNCHANGED vars
  <2>1. UNCHANGED <<file, at, loop, thread, torn>>  BY <1>10 DEF Restart, vars, counters
  <2>2. FilesFit'  BY <2>1, StillFits DEF Moves, Writes
  <2> QED  BY <2>1, <2>2 DEF CopiesFit
<1> QED
  BY <1>1, <1>2, <1>3, <1>4, <1>5, <1>6, <1>7, <1>8, <1>9, <1>10, StepCases

\* An unclaimed task's file says what the queue it lies in asks for.
LEMMA RestingFits ==
    ASSUME Holding, FilesFit, NEW t \in Ids, t \notin torn, file[t] # NoTask, ~held[t]
    PROVE  file[t] \in TaskType /\ at[t] \in Queues /\ Fits(file[t], at[t])
BY HeadedUnheld, FiledTyped DEF FilesFit, Holding, TypeOK

(***************************************************************************)
(* No history shows a step that was skipped: the dispatcher passes a step  *)
(* only on an outcome that the step's consumer delivered since the task    *)
(* entered it, or on the one a resume brought back for a loop of one step. *)
(* For any workflows, tasks, threads and crashes.                          *)
(***************************************************************************)
THEOREM DispatchFollowsDeliveryHolds == Spec => []DispatchFollowsDelivery
<1>1. Init => Holding /\ FilesFit /\ CopiesFit  BY InitHolding, InitFits
<1>2. Holding /\ FilesFit /\ CopiesFit /\ [Next]_vars => (Holding /\ FilesFit /\ CopiesFit)'
  BY NextHolding, NextFits
<1>3. Holding /\ FilesFit => DispatchFollowsDelivery
  BY DEF FilesFit, Fits, HistoryOK, EntryOK, DispatcherEntry,
         DispatchFollowsDelivery, NoStepSkipped
<1> QED  BY <1>1, <1>2, <1>3, PTL DEF Spec

\* The newest failure of a step is the one StepThatFailed() chooses.
LEMMA StepOfLastFailure ==
    ASSUME NEW hist, NEW i \in Nat, NEW k, LastStepFailure(hist, i, k)
    PROVE  StepThatFailed(hist, i) = hist[k].from
<1> DEFINE failures == {j \in 1 .. i - 1 : hist[j].to = FAILED /\ hist[j].from \in Steps}
<1>1. k \in failures /\ \A j \in failures : j <= k  BY DEF LastStepFailure
<1>2. \A j \in failures : j \in Nat  OBVIOUS
<1>3. \A j \in failures : (\A m \in failures : m <= j) => j = k  BY <1>1, <1>2
<1>4. (CHOOSE j \in failures : \A m \in failures : m <= j) = k  BY <1>1, <1>3
<1> QED  BY <1>4 DEF StepThatFailed

(***************************************************************************)
(* A resume names no queue, and yet route() sends the task back into the   *)
(* step whose failure is the newest (models.py:290-293), for any workflow, *)
(* unless the healer declined that failure first.                          *)
(***************************************************************************)
THEOREM ResumeReturnsHolds == Spec => []ResumeReturns
<1>1. Init => Holding /\ FilesFit /\ CopiesFit  BY InitHolding, InitFits
<1>2. Holding /\ FilesFit /\ CopiesFit /\ [Next]_vars => (Holding /\ FilesFit /\ CopiesFit)'
  BY NextHolding, NextFits
<1>3. ASSUME Holding, FilesFit  PROVE ResumeReturns
  <2> SUFFICES ASSUME NEW t \in Ids, t \notin torn, file[t] # NoTask,
                      NEW i \in DOMAIN file[t].hist, ~DeclinedBefore(file[t].hist, i),
                      file[t].hist[i].resumed # None, i < Len(file[t].hist)
               PROVE  /\ file[t].hist[i + 1].actor = DISPATCHER
                      /\ file[t].hist[i + 1].to = StepThatFailed(file[t].hist, i)
    BY DEF ResumeReturns, Returns
  <2> DEFINE h == file[t].hist
  <2>1. h \in Seq(EntryType)  BY <1>3, FiledTyped DEF TaskType
  <2>2. i \in Nat /\ i + 1 \in DOMAIN h /\ i + 1 > 1 /\ i + 1 - 1 = i  BY <2>1
  <2>3. EntryOK(file[t], i + 1)  BY <1>3, <2>2 DEF FilesFit, Fits, HistoryOK
  <2> HIDE DEF h
  <2>4. ComesBack(h, i + 1)  BY <2>2, <2>3 DEF EntryOK, h
  <2>5. PICK k : LastStepFailure(h, i, k) /\ h[i + 1].to = h[k].from
    BY <2>2, <2>4, SMTT(30) DEF ComesBack, h
  <2>6. h[i + 1].actor = DISPATCHER  BY <2>2, <2>4 DEF ComesBack, h
  <2> QED  BY <2>2, <2>5, <2>6, StepOfLastFailure DEF h
<1> QED  BY <1>1, <1>2, <1>3, PTL DEF Spec

LEMMA StatusAtRest ==
    ASSUME Holding, FilesFit
    PROVE  StatusMatchesQueue
<1> SUFFICES ASSUME NEW t \in Ids \ torn, file[t] # NoTask, ~held[t]
             PROVE  CASE at[t] = Done -> file[t].status = END
                      [] at[t] = Failed -> file[t].status = FAILED
                      [] at[t] = Inbox -> \/ file[t].status \in Steps \cup {None}
                                          \/ /\ file[t].status = FAILED
                                             /\ AlreadyDeclined(file[t])
                      [] OTHER -> file[t].status = at[t]
  BY DEF StatusMatchesQueue
<1> DEFINE f == file[t]
<1>1. f \in TaskType /\ at[t] \in Queues /\ Fits(f, at[t])  BY RestingFits
<1> HIDE DEF f
<1>2. CASE at[t] = Done  BY <1>1, <1>2, Names DEF Fits, InDone, f
<1>3. CASE at[t] = Failed  BY <1>1, <1>3, Names DEF Fits, InFailed, f
<1>4. CASE at[t] = Inbox
  <2>1. InInbox(f)  BY <1>1, <1>4 DEF Fits
  <2>2. SentBackDeclined(f) => f.status = FAILED /\ AlreadyDeclined(f)
    <3>1. f.hist \in Seq(EntryType)  BY <1>1 DEF TaskType
    <3>2. \A j \in 1 .. Len(f.hist) - 1 : j \in DOMAIN f.hist  BY <3>1
    <3> QED  BY <3>2 DEF SentBackDeclined, DeclinedBefore, AlreadyDeclined
  <2>3. f.status \in Steps \cup {None} \/ (f.status = FAILED /\ AlreadyDeclined(f))
    BY <2>1, <2>2, Names DEF InInbox, Anew, BackFromStep, SentBackTo
  <2> QED  BY <1>4, <2>3, Names DEF f
<1>5. CASE at[t] \in StepQueues
  <2>1. f.status = at[t]  BY <1>1, <1>5 DEF Fits, InStep
  <2> QED  BY <1>5, <2>1, Names DEF f
<1> QED  BY <1>1, <1>2, <1>3, <1>4, <1>5 DEF Queues

-----------------------------------------------------------------------------
(* Where the report counts a task.                                         *)

LEMMA SettlingWitness ==
    ASSUME NEW task, NEW n \in Nat, DOMAIN task.hist = 1 .. n
    PROVE  /\ (\A i \in 1 .. n : task.hist[i].to \notin {END, FAILED})
                 => SettlingEntry(task) = 0
           /\ \A k \in 1 .. n :
                 /\ task.hist[k].to \in {END, FAILED}
                 /\ \A i \in 1 .. n : task.hist[i].to \in {END, FAILED} => i <= k
                 => SettlingEntry(task) = k
<1> DEFINE ends == {i \in DOMAIN task.hist : task.hist[i].to \in {END, FAILED}}
<1>1. ASSUME NEW k \in 1 .. n, task.hist[k].to \in {END, FAILED},
             \A i \in 1 .. n : task.hist[i].to \in {END, FAILED} => i <= k
      PROVE  SettlingEntry(task) = k
  <2>1. k \in ends /\ \A j \in ends : j <= k /\ j \in Nat  BY <1>1
  <2>2. \A j \in ends : (\A m \in ends : m <= j) => j = k  BY <2>1
  <2>3. (CHOOSE j \in ends : \A m \in ends : m <= j) = k  BY <2>1, <2>2
  <2>4. ends # {}  BY <2>1
  <2> QED  BY <2>3, <2>4 DEF SettlingEntry
<1>2. ASSUME \A i \in 1 .. n : task.hist[i].to \notin {END, FAILED}
      PROVE  SettlingEntry(task) = 0
  <2>1. ends = {}  BY <1>2
  <2> QED  BY <2>1 DEF SettlingEntry
<1> QED  BY <1>1, <1>2

\* The places where the report looks, with one more entry that settles nothing.
LEMMA Archives ==
    ASSUME NEW f \in TaskType
    PROVE  LET s == Swept(f)
               m == MergeArchived(f)
               n == Len(f.hist)
           IN  /\ n \in Nat /\ DOMAIN f.hist = 1 .. n
               /\ DOMAIN s.hist = 1 .. n + 1 /\ DOMAIN m.hist = 1 .. n + 1
               /\ s.hist[n + 1].to = None /\ m.hist[n + 1].to = ARCHIVED
               /\ \A i \in 1 .. n : s.hist[i] = f.hist[i] /\ m.hist[i] = f.hist[i]
               /\ s.status = ARCHIVED
<1> DEFINE e == Entry("reconciler", f.status, None, None)
           d == Entry("merge-reconciler", f.status, ARCHIVED, None)
           E == EntryType \cup {e, d}
           n == Len(f.hist)
<1>1. f.hist \in Seq(EntryType) /\ e.to = None /\ d.to = ARCHIVED
  BY DEF TaskType, Entry
<1>2. f.hist \in Seq(E)  BY <1>1
<1>3. /\ Swept(f).hist = Append(f.hist, e) /\ Swept(f).status = ARCHIVED
      /\ MergeArchived(f).hist = Append(f.hist, d)
  BY DEF Swept, MergeArchived, Stamp, TaskType
<1> HIDE DEF e, d
<1>4. ASSUME NEW x \in E
      PROVE  LET h == Append(f.hist, x)
             IN  /\ n \in Nat /\ DOMAIN f.hist = 1 .. n /\ DOMAIN h = 1 .. n + 1
                 /\ h[n + 1] = x /\ \A i \in 1 .. n : h[i] = f.hist[i]
  BY <1>2
<1> QED  BY <1>1, <1>3, <1>4

\* A task that settled is counted by the entry that settled it, whatever
\* archived it since.
LEMMA CountedSettled ==
    ASSUME NEW f \in TaskType, f.hist # <<>>, Newest(f).to \in {END, FAILED}
    PROVE  LET counts == IF Newest(f).to = FAILED THEN {"failed"}
                         ELSE IF IsRetired(Newest(f)) THEN {"failed", "retired"}
                         ELSE {"completed"}
           IN  /\ Counted(f) = counts /\ Counted(Swept(f)) = counts
               /\ Counted(MergeArchived(f)) = counts
<1> DEFINE n == Len(f.hist)
           Counts(e) == IF e.to = FAILED THEN {"failed"}
                        ELSE IF IsRetired(e) THEN {"failed", "retired"}
                        ELSE {"completed"}
<1>1. ASSUME NEW g, NEW m \in Nat, DOMAIN g.hist = 1 .. m, n \in 1 .. m,
             g.hist[n] = Newest(f), \A i \in 1 .. m : i > n => g.hist[i].to \notin {END, FAILED}
      PROVE  Counted(g) = Counts(Newest(f))
  <2>1. \A i \in 1 .. m : g.hist[i].to \in {END, FAILED} => i <= n  BY <1>1
  <2>2. SettlingEntry(g) = n /\ n # 0
    <3> HIDE DEF n
    <3> QED  BY <1>1, <2>1, SettlingWitness
  <2> HIDE DEF n
  <2> QED  BY <1>1, <2>2, Names DEF Counted
<1>2. ARCHIVED \notin {END, FAILED} /\ None \notin {END, FAILED}
  BY DEF ARCHIVED, END, FAILED, None
<1>3. n \in Nat /\ n > 0 /\ f.hist[n] = Newest(f)  BY DEF TaskType, Newest
<1>4. n + 1 \in Nat /\ n \in 1 .. n /\ n \in 1 .. n + 1
      /\ (\A i \in 1 .. n : ~(i > n)) /\ (\A i \in 1 .. n + 1 : i > n => i = n + 1)
  BY <1>3
<1>5. Counted(f) = Counts(Newest(f))  BY <1>1, <1>3, <1>4, Archives
<1>6. Counted(Swept(f)) = Counts(Newest(f))
  <2>1. /\ DOMAIN Swept(f).hist = 1 .. n + 1 /\ Swept(f).hist[n + 1].to = None
        /\ Swept(f).hist[n] = f.hist[n]
    BY <1>4, Archives
  <2> HIDE DEF n
  <2> QED  BY <1>1, <1>2, <1>3, <1>4, <2>1
<1>7. Counted(MergeArchived(f)) = Counts(Newest(f))
  <2>1. /\ DOMAIN MergeArchived(f).hist = 1 .. n + 1
        /\ MergeArchived(f).hist[n + 1].to = ARCHIVED
        /\ MergeArchived(f).hist[n] = f.hist[n]
    BY <1>4, Archives
  <2> HIDE DEF n
  <2> QED  BY <1>1, <1>2, <1>3, <1>4, <2>1
<1> QED  BY <1>5, <1>6, <1>7

\* A task that never settled is in flight, until it is archived.
LEMMA CountedFlying ==
    ASSUME NEW f \in TaskType, NeverEnded(f), ArchivedIsNoStep
    PROVE  Counted(f) = {"inFlight"} /\ Counted(Swept(f)) = {}
<1> DEFINE n == Len(f.hist)
<1>1. f.status # ARCHIVED
  BY DEF TaskType, Statuses, ArchivedIsNoStep, ARCHIVED, None, END, FAILED
<1>2. n \in Nat /\ DOMAIN f.hist = 1 .. n /\ n + 1 \in Nat  BY Archives
<1>3. SettlingEntry(f) = 0  BY <1>2, SettlingWitness DEF NeverEnded
<1>4. SettlingEntry(Swept(f)) = 0
  <2>1. /\ DOMAIN Swept(f).hist = 1 .. n + 1 /\ Swept(f).hist[n + 1].to = None
        /\ \A i \in 1 .. n : Swept(f).hist[i] = f.hist[i]
    BY Archives
  <2>2. \A i \in 1 .. n + 1 : Swept(f).hist[i].to \notin {END, FAILED}
    <3>1. \A i \in 1 .. n + 1 : i \in 1 .. n \/ i = n + 1  BY <1>2
    <3> HIDE DEF n
    <3> QED  BY <1>2, <2>1, <3>1, Names DEF NeverEnded
  <2> HIDE DEF n
  <2> QED  BY <1>2, <2>1, <2>2, SettlingWitness
<1>5. Swept(f).status = ARCHIVED  BY Archives
<1> QED  BY <1>1, <1>3, <1>4, <1>5 DEF Counted

\* A tally is made of four sets.
LEMMA SummarizeIs ==
    ASSUME NEW tasks, NEW flying, NEW completed, NEW failed, NEW retired,
           \A t : t \in flying <=> t \in DOMAIN tasks /\ "inFlight" \in Counted(tasks[t]),
           \A t : t \in completed <=> t \in DOMAIN tasks /\ "completed" \in Counted(tasks[t]),
           \A t : t \in failed <=> t \in DOMAIN tasks /\ "failed" \in Counted(tasks[t]),
           \A t : t \in retired <=> t \in DOMAIN tasks /\ "retired" \in Counted(tasks[t])
    PROVE  Summarize(tasks) = [inFlight |-> Cardinality(flying),
                               completed |-> Cardinality(completed),
                               failed |-> Cardinality(failed),
                               retired |-> Cardinality(retired)]
<1> DEFINE Of(count) == {t \in DOMAIN tasks : count \in Counted(tasks[t])}
<1>1. Of("inFlight") = flying /\ Of("completed") = completed
      /\ Of("failed") = failed /\ Of("retired") = retired
  OBVIOUS
<1>2. Summarize(tasks)
        = [count \in {"inFlight", "completed", "failed", "retired"} |-> Cardinality(Of(count))]
  BY DEF Summarize
<1> HIDE DEF Of
<1> QED  BY <1>1, <1>2

\* Where a task is counted that lies unclaimed in a queue.
LEMMA CountedAtRest ==
    ASSUME Holding, FilesFit, ArchivedIsNoStep,
           NEW t \in Listed, t \notin torn, at[t] \in {Done, Failed} \/ ~SentBack(t)
    PROVE  LET counts == IF at[t] = Failed THEN {"failed"}
                         ELSE IF at[t] # Done THEN {"inFlight"}
                         ELSE IF IsRetiredFailure(file[t]) THEN {"failed", "retired"}
                         ELSE {"completed"}
               swept == IF at[t] \in {Done, Failed} THEN counts ELSE {}
           IN  /\ Counted(file[t]) = counts /\ Counted(Swept(file[t])) = swept
               /\ at[t] = Done => Counted(MergeArchived(file[t])) = counts
<1> DEFINE f == file[t]
<1>1. f \in TaskType /\ at[t] \in Queues /\ Fits(f, at[t])
  BY RestingFits DEF Listed
<1>2. SentBack(t) <=> WentBack(f)  BY DEF SentBack, WentBack
<1> HIDE DEF f
<1>3. CASE at[t] = Failed
  <2>1. f.hist # <<>> /\ Newest(f).to = FAILED  BY <1>1, <1>3, Names DEF Fits, InFailed
  <2> QED  BY <1>1, <1>3, <2>1, CountedSettled, Names DEF f
<1>4. CASE at[t] = Done
  <2>1. InDone(f)  BY <1>1, <1>4, Names DEF Fits
  <2>2. f.hist # <<>> /\ Newest(f).to = END  BY <2>1 DEF InDone
  <2>3. IsRetiredFailure(f) <=> IsRetired(Newest(f))
    BY <2>1 DEF InDone, IsRetiredFailure, IsRetired, Newest
  <2> QED  BY <1>1, <1>4, <2>2, <2>3, CountedSettled, Names DEF f
<1>5. CASE at[t] \notin {Done, Failed}
  <2>1. NeverEnded(f)
    <3>1. at[t] = Inbox \/ at[t] \in StepQueues  BY <1>1, <1>5 DEF Queues
    <3> QED  BY <1>1, <1>2, <1>5, <3>1 DEF Fits, InInbox, InStep
  <2> QED  BY <1>1, <1>5, <2>1, CountedFlying DEF f
<1> QED  BY <1>3, <1>4, <1>5

LEMMA ReportAtRest ==
    ASSUME Holding, FilesFit, ArchivedIsNoStep
    PROVE  ReportTellsQueues
<1> DEFINE tasks == {t \in Listed \ torn : at[t] \in {Done, Failed} \/ ~SentBack(t)}
           done == {t \in tasks : at[t] = Done}
           failed == {t \in tasks : at[t] = Failed}
           retired == {t \in done : IsRetiredFailure(file[t])}
           flying == tasks \ (done \cup failed)
           Report(inFlight) == [inFlight  |-> Cardinality(inFlight),
                                completed |-> Cardinality(done \ retired),
                                failed    |-> Cardinality(failed \cup retired),
                                retired   |-> Cardinality(retired)]
           now == [t \in tasks |-> file[t]]
           swept == [t \in tasks |-> Swept(file[t])]
           merged == [t \in done |-> MergeArchived(file[t])]
<1>1. ASSUME NEW t \in tasks
      PROVE  LET counts == IF t \in failed THEN {"failed"}
                           ELSE IF t \notin done THEN {"inFlight"}
                           ELSE IF t \in retired THEN {"failed", "retired"}
                           ELSE {"completed"}
             IN  /\ Counted(now[t]) = counts
                 /\ Counted(swept[t]) = IF t \in flying THEN {} ELSE counts
                 /\ t \in done => Counted(merged[t]) = counts
  BY CountedAtRest
<1>2. /\ DOMAIN now = tasks /\ DOMAIN swept = tasks /\ DOMAIN merged = done
      /\ done \subseteq tasks /\ failed \subseteq tasks /\ retired \subseteq done
      /\ \A t : t \in flying <=> t \in tasks /\ t \notin done /\ t \notin failed
      /\ \A t : ~(t \in done /\ t \in failed)
  BY Names
<1> HIDE DEF tasks, done, failed, retired, flying, now, swept, merged
<1>3. ASSUME NEW t \in tasks
      PROVE  /\ "inFlight" \in Counted(now[t]) <=> t \in flying
             /\ "inFlight" \notin Counted(swept[t])
             /\ t \in done => "inFlight" \notin Counted(merged[t])
  BY <1>1, <1>2
<1>4. ASSUME NEW t \in tasks
      PROVE  /\ "completed" \in Counted(now[t]) <=> t \in done \ retired
             /\ "completed" \in Counted(swept[t]) <=> t \in done \ retired
             /\ t \in done => ("completed" \in Counted(merged[t]) <=> t \in done \ retired)
  BY <1>1, <1>2
<1>5. ASSUME NEW t \in tasks
      PROVE  /\ "failed" \in Counted(now[t]) <=> t \in failed \cup retired
             /\ "failed" \in Counted(swept[t]) <=> t \in failed \cup retired
             /\ t \in done => ("failed" \in Counted(merged[t]) <=> t \in retired)
  BY <1>1, <1>2
<1>6. ASSUME NEW t \in tasks
      PROVE  /\ "retired" \in Counted(now[t]) <=> t \in retired
             /\ "retired" \in Counted(swept[t]) <=> t \in retired
             /\ t \in done => ("retired" \in Counted(merged[t]) <=> t \in retired)
  BY <1>1, <1>2
<1>7. /\ flying \subseteq tasks /\ done \ retired \subseteq tasks
      /\ failed \cup retired \subseteq tasks /\ retired \subseteq tasks
      /\ done \ retired \subseteq done
  BY <1>2
<1>8. Summarize(now) = Report(flying)
  <2> DEFINE C == done \ retired
             F == failed \cup retired
  <2>1. /\ \A t : t \in flying <=> t \in DOMAIN now /\ "inFlight" \in Counted(now[t])
        /\ \A t : t \in C <=> t \in DOMAIN now /\ "completed" \in Counted(now[t])
        /\ \A t : t \in F <=> t \in DOMAIN now /\ "failed" \in Counted(now[t])
        /\ \A t : t \in retired <=> t \in DOMAIN now /\ "retired" \in Counted(now[t])
    BY <1>2, <1>3, <1>4, <1>5, <1>6, <1>7
  <2> HIDE DEF C, F
  <2>2. Summarize(now) = [inFlight |-> Cardinality(flying), completed |-> Cardinality(C),
                          failed |-> Cardinality(F), retired |-> Cardinality(retired)]
    BY <2>1, SummarizeIs
  <2> QED  BY <2>2 DEF C, F
<1>9. Summarize(swept) = Report({})
  <2> DEFINE C == done \ retired
             F == failed \cup retired
  <2>1. /\ \A t : t \in {} <=> t \in DOMAIN swept /\ "inFlight" \in Counted(swept[t])
        /\ \A t : t \in C <=> t \in DOMAIN swept /\ "completed" \in Counted(swept[t])
        /\ \A t : t \in F <=> t \in DOMAIN swept /\ "failed" \in Counted(swept[t])
        /\ \A t : t \in retired <=> t \in DOMAIN swept /\ "retired" \in Counted(swept[t])
    BY <1>2, <1>3, <1>4, <1>5, <1>6, <1>7
  <2> HIDE DEF C, F
  <2>2. Summarize(swept) = [inFlight |-> Cardinality({}), completed |-> Cardinality(C),
                            failed |-> Cardinality(F), retired |-> Cardinality(retired)]
    BY <2>1, SummarizeIs
  <2> QED  BY <2>2 DEF C, F
<1>10. Summarize(merged) = [Report({}) EXCEPT !.failed = Cardinality(retired)]
  <2> DEFINE C == done \ retired
  <2>1. /\ \A t : t \in {} <=> t \in DOMAIN merged /\ "inFlight" \in Counted(merged[t])
        /\ \A t : t \in C <=> t \in DOMAIN merged /\ "completed" \in Counted(merged[t])
        /\ \A t : t \in retired <=> t \in DOMAIN merged /\ "failed" \in Counted(merged[t])
        /\ \A t : t \in retired <=> t \in DOMAIN merged /\ "retired" \in Counted(merged[t])
    BY <1>2, <1>3, <1>4, <1>5, <1>6, <1>7
  <2> HIDE DEF C
  <2>2. Summarize(merged) = [inFlight |-> Cardinality({}), completed |-> Cardinality(C),
                             failed |-> Cardinality(retired),
                             retired |-> Cardinality(retired)]
    BY <2>1, SummarizeIs
  <2> QED  BY <2>2 DEF C
<1> QED
  BY <1>8, <1>9, <1>10
  DEF ReportTellsQueues, tasks, done, failed, retired, flying, now, swept, merged

(***************************************************************************)
(* A file says by its status, and its history says to the delivery report, *)
(* which queue the task lies in, and the history still says it when the    *)
(* task is archived (router.py, stats.py).  The report takes a task whose  *)
(* status is "archived" for an archived one (stats.py:319), so a workflow  *)
(* must not have a step of that name.                                      *)
(***************************************************************************)
THEOREM FilesTellQueuesHolds ==
    ASSUME ArchivedIsNoStep
    PROVE  Spec => []FilesTellQueues
<1>1. Init => Holding /\ FilesFit /\ CopiesFit  BY InitHolding, InitFits
<1>2. Holding /\ FilesFit /\ CopiesFit /\ [Next]_vars => (Holding /\ FilesFit /\ CopiesFit)'
  BY NextHolding, NextFits
<1>3. Holding /\ FilesFit => FilesTellQueues
  BY StatusAtRest, ReportAtRest DEF FilesTellQueues
<1> QED  BY <1>1, <1>2, <1>3, PTL DEF Spec

-----------------------------------------------------------------------------
(* What the healer's books say: the third invariant.                       *)

Live(t) == file[t] # NoTask
Copied(a) == thread[a].stage \in {"found", "claimed"}

\* One note, in every file and in every copy of one.
NotedOnce(f) ==
    \A i, j \in DOMAIN f.hist :
        /\ f.hist[i].actor = HEAL_ACTOR /\ f.hist[i].to = FAILED
        /\ f.hist[j].actor = HEAL_ACTOR /\ f.hist[j].to = FAILED
        => i = j

NotesOnce ==
    /\ \A t \in Ids : Live(t) => NotedOnce(file[t])
    /\ \A a \in Threads : Copied(a) => NotedOnce(thread[a].copy)

\* A heal task is younger than what it heals, and the only one of it.
HealsOlder == \A u \in Ids : Live(u) => file[u].of < u
HealsAlone ==
    \A u, v \in Ids :
        Live(u) /\ Live(v) /\ file[u].of = file[v].of /\ file[u].of # 0 => u = v

\* A failure has a heal task, or had one that the operator deleted.
TakenOver(t) ==
    \/ \E u \in Ids : Live(u) /\ file[u].of = t
    \/ \E u \in t + 1 .. minted : at[u] = Nowhere

\* The dedup keys are the tasks that live heal tasks are of, and some of those
\* whose heal task was deleted.
SeenIsRight ==
    /\ up => \A u \in Ids : Live(u) => file[u].of \in seen \cup {0}
    /\ \A s \in seen : TakenOver(s)

ObservedIsOld == \A t \in Observed : t <= minted

Keys == HealsOlder /\ HealsAlone /\ SeenIsRight /\ ObservedIsOld

\* A retired failure waits for its heal task in the tick that retired it.
RetiredIsTaken ==
    \A t \in Ids \ torn :
        /\ Live(t) /\ IsRetiredFailure(file[t]) => t \in Observed \/ TakenOver(t)
        /\ \A a \in Threads :
              Copied(a) /\ thread[a].task = t /\ IsRetiredFailure(thread[a].copy)
              => t \in Observed \/ TakenOver(t)

\* A file is of the task it was, or a new one under the next id.
Descends ==
    /\ minted' \in Nat /\ minted' >= minted
    /\ \A u \in Ids : Live(u)' =>
          \/ Live(u) /\ SameMake(file'[u], file[u])
          \/ ~Live(u) /\ u > minted /\ u = minted'

LEMMA SameDescends ==
    ASSUME Holding, UNCHANGED <<file, minted>>  PROVE Descends
BY DEF Descends, Live, SameMake, Holding, TypeOK

LEMMA PutDescends ==
    ASSUME Holding, NEW new \in TaskType, Puts(new)
    PROVE  /\ Descends
           /\ minted' \in Ids /\ minted \in Nat /\ minted' = minted + 1
           /\ file' = [u \in Ids |-> IF u = minted' THEN new ELSE file[u]]
           /\ \A u \in Ids : u = minted' => ~Live(u)
<1>1. minted \in Nat /\ minted' = minted + 1 /\ minted' \in Ids /\ Ids \subseteq Nat
  BY HarnessAssumption DEF Puts, Holding, TypeOK, Ids
<1>2. file' = [u \in Ids |-> IF u = minted' THEN new ELSE file[u]]
  BY <1>1 DEF Puts, Holding, TypeOK
<1>3. \A u \in Ids : u = minted' => ~Live(u)
  BY <1>1 DEF Holding, IdsInOrder, TypeOK, Live
<1> QED  BY <1>1, <1>2, <1>3 DEF Descends, Live, SameMake

\* A step that rewrites one file, of the same make.
LEMMA RewriteDescends ==
    ASSUME Holding, NEW t \in Ids, NEW new, Live(t),
           file' = [u \in Ids |-> IF u = t THEN new ELSE file[u]], minted' = minted,
           new = NoTask \/ SameMake(new, file[t])
    PROVE  Descends /\ \A u \in Ids : Live(u)' => Live(u)
BY DEF Descends, Live, SameMake, Holding, TypeOK

LEMMA NextDescends ==
    ASSUME Holding, [Next]_vars
    PROVE  Descends /\ (~Submit /\ ~HealPut => \A u \in Ids : Live(u)' => Live(u))
<1>1. CASE Submit
  <2>1. PICK new \in TaskType : Puts(new)  BY <1>1, SubmitPuts
  <2> QED  BY <1>1, <2>1, PutDescends
<1>2. CASE HealPut
  <2>1. \/ UNCHANGED <<file, minted>>
        \/ \E new \in TaskType : Puts(new)
    BY <1>2, HealPutCases
  <2> QED  BY <1>2, <2>1, PutDescends, SameDescends
<1>3. ASSUME NEW t \in Ids, NEW new \in TaskType, NEW dest \in Queues, NEW then \in Rests,
             Written(t, new, dest, then)
      PROVE  Descends /\ \A u \in Ids : Live(u)' => Live(u)
  <2>1. SameMake(new, file[t]) /\ Live(t)
    BY <1>3, WrittenMeans, NoTaskAssumption DEF Live
  <2>2. file' = [u \in Ids |-> IF u = t THEN new ELSE file[u]] /\ minted' = minted
    BY <1>3 DEF Written, WriteBack, Holding, TypeOK
  <2> QED  BY <2>1, <2>2, RewriteDescends
<1>4. ASSUME NEW a \in Threads, RequestClaim(a)
      PROVE  Descends /\ \A u \in Ids : Live(u)' => Live(u)
  <2> DEFINE t == thread[a].task
             copy == thread[a].copy
  <2>1. Asks(a) /\ Lies(t, thread[a].queue)  BY <1>4 DEF RequestClaim, Asks
  <2>2. t \in Ids /\ thread[a].queue \in Queues  BY <2>1, ThreadShape DEF Holding, TypeOK
  <2>3. Live(t)  BY <2>1, <2>2, FiledTyped DEF Lies, Live
  <2>4. SameMake(copy, file[t])  BY <2>1, <2>3 DEF Holding, RequestKnows, Live
  <2>5. file' = [u \in Ids |-> IF u = t THEN copy ELSE file[u]] /\ minted' = minted
    BY <1>4, <2>2 DEF RequestClaim, Holding, TypeOK
  <2> QED  BY <2>2, <2>3, <2>4, <2>5, RewriteDescends
<1>5. ASSUME NEW a \in Threads, RequestWrite(a)
      PROVE  Descends /\ \A u \in Ids : Live(u)' => Live(u)
  <2> DEFINE t == thread[a].task
  <2>1. PICK new \in TaskType : SameMake(new, thread[a].copy) /\ Requeues(a, new)
    BY <1>5, RequestWrites
  <2>2. thread[a].stage = "claimed" /\ Asks(a) /\ Has(a)  BY <1>5 DEF RequestWrite, Asks, Has
  <2>3. t \in Ids /\ file[t] = thread[a].copy /\ thread[a].copy \in TaskType
    BY <2>2, ThreadShape DEF Holding, TypeOK, ThreadHas
  <2>4. Live(t)  BY <2>3, NoTaskAssumption DEF Live
  <2>5. file' = [u \in Ids |-> IF u = t THEN new ELSE file[u]] /\ minted' = minted
    BY <1>5, <2>1, <2>3 DEF Requeues, RequestWrite, Holding, TypeOK
  <2> QED  BY <2>1, <2>3, <2>4, <2>5, RewriteDescends
<1>6. ASSUME NEW a \in Threads, RequestRename(a) \/ RequestDiscard(a)
      PROVE  Descends /\ \A u \in Ids : Live(u)' => Live(u)
  <2> DEFINE t == thread[a].task
  <2>1. PICK q \in Queues \cup {Nowhere}, new \in TaskType \cup {NoTask} :
           Releases(a, q, new) /\ (new # NoTask => new = file[t])
    BY <1>6, RequestReleases
  <2>2. Has(a) /\ Asks(a)  BY <1>6, RequestReleases DEF Has, Asks
  <2>3. t \in Ids /\ Live(t)
    BY <2>2, ThreadShape DEF Holding, TypeOK, ThreadHas, HeldIsThere, Live
  <2>4. file' = [u \in Ids |-> IF u = t THEN new ELSE file[u]] /\ minted' = minted
    BY <2>1, <2>3 DEF Releases, Holding, TypeOK
  <2> QED  BY <2>1, <2>3, <2>4, RewriteDescends DEF SameMake
<1>7. CASE UNCHANGED <<file, minted>>  BY <1>7, SameDescends DEF Live
<1>8. CASE HealStart \/ HealSkip \/ HealEnd  BY <1>7, <1>8, LoopMoves
<1>9. CASE \/ FinishTransfer \/ Crash \/ Restart \/ UNCHANGED vars
           \/ \E q \in StepQueues : ConsumerClaim(q)
           \/ \E a \in Threads, v \in Verbs, t \in Ids : RequestFind(a, v, t)
           \/ \E a \in Threads : RequestLost(a)
  BY <1>7, <1>9
  DEF FinishTransfer, Crash, Restart, vars, ConsumerClaim, RequestFind, RequestLost
<1> QED
  BY <1>1, <1>2, <1>3, <1>4, <1>5, <1>6, <1>8, <1>9, StepCases DEF WritesBack

\* What is known of a task: its file, and the copies that requests took of it.
From(f, t) ==
    \/ Live(t) /\ f = file[t]
    \/ \E a \in Threads : Copied(a) /\ thread[a].task = t /\ f = thread[a].copy

\* A healer's entry is a retirement to be healed, or the first note.
HealsRightly(e, f, t) ==
    e.actor = HEAL_ACTOR =>
        \/ e.to = END /\ t \in Observed'
        \/ e.to = FAILED /\ ~AlreadyDeclined(f)

\* Where a file comes from in a step.
ComesFrom(t) ==
    \/ From(file'[t], t)
    \/ file'[t].hist = <<>>
    \/ \E f \in TaskType, e \in EntryType :
          From(f, t) /\ file'[t].hist = Append(f.hist, e) /\ HealsRightly(e, f, t)

LEMMA WrittenObserved ==
    ASSUME Holding,
           NEW t \in Ids, NEW new \in TaskType, NEW dest \in Queues, NEW then \in Rests,
           Written(t, new, dest, then)
    PROVE  /\ ByRetirement(t, new, dest, then) => Observed' = Observed \cup {t}
           /\ ~ByRetirement(t, new, dest, then) => Observed' = Observed
<1>1. loop' = Moving(t, dest, then)  BY DEF Written, WriteBack
<1>2. loop'.stage = "moving" /\ loop'.then = then  BY <1>1 DEF Moving
<1>3. Observed' = IF then # Free THEN then.obs ELSE {}
  BY <1>2 DEF Observed
<1>4. \A todo, obs : Healing(todo, obs) # Free /\ Healing(todo, obs).obs = obs
  BY DEF Healing, Free
<1>5. loop = Free => Observed = {}  BY DEF Observed, Free
<1>6. loop.stage = "healing" => Observed = loop.obs  BY DEF Observed
<1> QED
  BY <1>3, <1>4, <1>5, <1>6
  DEF Written, ByDispatcher, ByDelivery, ByFailure, ByNote, ByRetirement

LEMMA WrittenFrom ==
    ASSUME Holding,
           NEW t \in Ids, NEW new \in TaskType, NEW dest \in Queues, NEW then \in Rests,
           Written(t, new, dest, then)
    PROVE  \A u \in Ids : Live(u)' => ComesFrom(u)
<1>1. file' = [u \in Ids |-> IF u = t THEN new ELSE file[u]]
  BY DEF Written, WriteBack, Holding, TypeOK
<1>2. file[t] \in TaskType /\ From(file[t], t)
  BY WrittenMeans, NoTaskAssumption DEF From, Live
<1>3. \E e \in EntryType : new.hist = Append(file[t].hist, e) /\ HealsRightly(e, file[t], t)
  <2> DEFINE f == file[t]
  <2> HIDE DEF f
  <2>1. ASSUME NEW e, NEW s, NEW o, Updated(new, f, s, o, e)
        PROVE  new.hist = Append(f.hist, e)
    BY <2>1 DEF Updated
  <2>2. CASE ByDispatcher(t, new, dest, then)
    <3>1. PICK s \in Statuses : Updated(new, f, s, f.last, Entry(DISPATCHER, f.status, s, f.last))
      BY <2>2 DEF ByDispatcher, f
    <3>2. Entry(DISPATCHER, f.status, s, f.last) \in EntryType
      BY <1>2, DispatchUpdates DEF f
    <3> QED  BY <2>1, <3>1, <3>2, EntryFields, Names DEF HealsRightly, f
  <2>3. CASE ByDelivery(t, new, dest, then)
    <3>1. PICK o \in Outcomes : Updated(new, f, f.status, o, Entry(CONSUMER, at[t], None, o))
      BY <2>3 DEF ByDelivery, f
    <3>2. at[t] \in StepQueues  BY <2>3, LyingTyped DEF ByDelivery
    <3>3. Entry(CONSUMER, at[t], None, o) \in EntryType  BY <1>2, <3>2, DeliverUpdates DEF f
    <3> QED  BY <2>1, <3>1, <3>3, EntryFields, Names DEF HealsRightly, f
  <2>4. CASE ByFailure(t, new, dest, then)
    <3>1. Updated(new, f, FAILED, f.last, Entry(CONSUMER, at[t], FAILED, None))
      BY <2>4 DEF ByFailure, f
    <3>2. at[t] \in StepQueues  BY <2>4, LyingTyped DEF ByFailure
    <3>3. Entry(CONSUMER, at[t], FAILED, None) \in EntryType  BY <1>2, <3>2, FailUpdates DEF f
    <3> QED  BY <2>1, <3>1, <3>3, EntryFields, Names DEF HealsRightly, f
  <2>5. CASE ByNote(t, new, dest, then)
    <3>1. /\ Updated(new, f, f.status, f.last, Entry(HEAL_ACTOR, FAILED, FAILED, None))
          /\ ~AlreadyDeclined(f)
      BY <2>5 DEF ByNote, f
    <3>2. Entry(HEAL_ACTOR, FAILED, FAILED, None) \in EntryType
      BY <1>2, DeclineUpdates DEF f
    <3> QED  BY <2>1, <3>1, <3>2, EntryFields, Names DEF HealsRightly, f
  <2>6. CASE ByRetirement(t, new, dest, then)
    <3>1. Updated(new, f, END, f.last, Entry(HEAL_ACTOR, FAILED, END, None))
      BY <2>6 DEF ByRetirement, f
    <3>2. Entry(HEAL_ACTOR, FAILED, END, None) \in EntryType  BY <1>2, SettleUpdates DEF f
    <3>3. t \in Observed'  BY <2>6, WrittenObserved
    <3> QED  BY <2>1, <3>1, <3>2, <3>3, EntryFields, Names DEF HealsRightly, f
  <2> QED  BY <2>2, <2>3, <2>4, <2>5, <2>6 DEF Written
<1>4. ASSUME NEW u \in Ids, Live(u)'  PROVE ComesFrom(u)
  <2>1. CASE u = t  BY <1>1, <1>2, <1>3, <2>1 DEF ComesFrom
  <2>2. CASE u # t  BY <1>1, <1>4, <2>2 DEF ComesFrom, From, Live
  <2> QED  BY <2>1, <2>2
<1> QED  BY <1>4

LEMMA SameFrom ==
    ASSUME NEW u \in Ids, Live(u)', file'[u] = file[u]  PROVE ComesFrom(u)
BY DEF ComesFrom, From, Live

\* A request writes back what it took, with the operator's entry.
LEMMA RequestFrom ==
    ASSUME Holding, NEW a \in Threads,
           RequestClaim(a) \/ RequestWrite(a) \/ RequestRename(a) \/ RequestDiscard(a)
    PROVE  \A u \in Ids : Live(u)' => ComesFrom(u)
<1> SUFFICES ASSUME NEW u \in Ids, Live(u)'  PROVE ComesFrom(u)
  OBVIOUS
<1> DEFINE t == thread[a].task
           copy == thread[a].copy
<1>1. Asks(a) /\ t \in Ids /\ copy \in TaskType
  BY ThreadShape DEF RequestClaim, RequestWrite, RequestRename, RequestDiscard, Asks,
                     Holding, TypeOK
<1>2. CASE RequestClaim(a)
  <2>1. Copied(a) /\ file' = [v \in Ids |-> IF v = t THEN copy ELSE file[v]]
    BY <1>1, <1>2 DEF RequestClaim, Copied, Holding, TypeOK
  <2> QED  BY <2>1, SameFrom DEF ComesFrom, From
<1>3. CASE RequestWrite(a)
  <2>1. PICK new \in TaskType : Requeues(a, new)  BY <1>3, RequestWrites
  <2>2. Copied(a) /\ file' = [v \in Ids |-> IF v = t THEN new ELSE file[v]]
    BY <1>1, <2>1 DEF Requeues, Copied, Holding, TypeOK
  <2>3. \E e \in EntryType : new.hist = Append(copy.hist, e) /\ e.actor = OPERATOR
    <3> HIDE DEF copy
    <3>1. CASE new = Restarted(copy)
      <4>1. PICK e \in EntryType : e = Entry(OPERATOR, FAILED, None, None)
                                   /\ Updated(new, copy, None, None, e)
        BY <1>1, <3>1, RestartedUpdates
      <4> QED  BY <4>1, EntryFields DEF Updated
    <3>2. CASE new = Resumed(copy)
      <4>1. PICK e \in EntryType : e.actor = OPERATOR
                                   /\ Updated(new, copy, Rewind(copy).status,
                                              Rewind(copy).last, e)
        BY <1>1, <3>2, ResumedUpdates
      <4> QED  BY <4>1 DEF Updated
    <3> QED  BY <2>1, <3>1, <3>2 DEF Requeues, copy
  <2>4. CASE u = t
    <3>1. From(copy, u)  BY <2>2, <2>4 DEF From
    <3>2. file'[u] = new  BY <2>2, <2>4
    <3> QED  BY <1>1, <2>3, <3>1, <3>2, Names DEF ComesFrom, HealsRightly
  <2>5. CASE u # t  BY <2>2, <2>5, SameFrom
  <2> QED  BY <2>4, <2>5
<1>4. CASE RequestRename(a) \/ RequestDiscard(a)
  <2>1. PICK q \in Queues \cup {Nowhere}, new \in TaskType \cup {NoTask} :
           Releases(a, q, new) /\ (new # NoTask => new = file[t])
    BY <1>4, RequestReleases
  <2>2. file' = [v \in Ids |-> IF v = t THEN new ELSE file[v]]
    BY <1>1, <2>1 DEF Releases, Holding, TypeOK
  <2>3. file'[u] = file[u]  BY <2>1, <2>2 DEF Live
  <2> QED  BY <2>3, SameFrom
<1> QED  BY <1>2, <1>3, <1>4

LEMMA NextFrom ==
    ASSUME Holding, [Next]_vars
    PROVE  \A u \in Ids : Live(u)' => ComesFrom(u)
<1>1. ASSUME NEW new \in TaskType, Puts(new), new.hist = <<>>
      PROVE  \A u \in Ids : Live(u)' => ComesFrom(u)
  <2>1. file' = [u \in Ids |-> IF u = minted' THEN new ELSE file[u]]  BY <1>1, PutDescends
  <2> QED  BY <1>1, <2>1, SameFrom DEF ComesFrom
<1>2. CASE Submit  BY <1>1, <1>2, SubmitPuts DEF NewTask
<1>3. CASE UNCHANGED file  BY <1>3, SameFrom
<1>4. CASE HealPut
  <2>1. UNCHANGED file \/ \E of \in loop.obs : HealTask(of) \in TaskType /\ Puts(HealTask(of))
    BY <1>4, HealPutCases
  <2>2. \A of : HealTask(of).hist = <<>>  BY DEF HealTask, NewTask
  <2> QED  BY <1>1, <1>3, <2>1, <2>2
<1>5. CASE WritesBack  BY <1>5, WrittenFrom DEF WritesBack
<1>6. CASE HealStart \/ HealSkip \/ HealEnd  BY <1>3, <1>6, LoopMoves
<1>7. CASE \/ FinishTransfer \/ Crash \/ Restart \/ UNCHANGED vars
           \/ \E q \in StepQueues : ConsumerClaim(q)
           \/ \E a \in Threads, v \in Verbs, t \in Ids : RequestFind(a, v, t)
           \/ \E a \in Threads : RequestLost(a)
  BY <1>3, <1>7
  DEF FinishTransfer, Crash, Restart, vars, ConsumerClaim, RequestFind, RequestLost
<1> QED  BY <1>2, <1>4, <1>5, <1>6, <1>7, RequestFrom, StepCases

\* Every copy is of a task's file or of an older copy.
LEMMA CopiesFrom ==
    ASSUME Holding, [Next]_vars, NEW a \in Threads, Copied(a)'
    PROVE  From(thread'[a].copy, thread'[a].task)
<1>1. CASE UNCHANGED thread  BY <1>1 DEF From, Copied
<1>2. ASSUME NEW b \in Threads, NEW v \in Verbs, NEW t \in Ids, RequestFind(b, v, t)
      PROVE  From(thread'[a].copy, thread'[a].task)
  <2> DEFINE r == Request("found", v, t, at[t], file[t])
  <2>1. thread' = [c \in Threads |-> IF c = b THEN r ELSE thread[c]] /\ at[t] \in LooksIn(v)
    BY <1>2 DEF RequestFind, Holding, TypeOK
  <2>2. r.task = t /\ r.copy = file[t]  BY DEF Request
  <2>3. Live(t)
    <3>1. LooksIn(v) \subseteq Queues  BY HarnessAssumption DEF LooksIn, Queues
    <3> QED  BY <2>1, <3>1, FiledTyped DEF Live
  <2> HIDE DEF r
  <2>4. CASE a = b  BY <2>1, <2>2, <2>3, <2>4 DEF From
  <2>5. CASE a # b  BY <2>1, <2>5 DEF From, Copied
  <2> QED  BY <2>4, <2>5
<1>3. ASSUME NEW b \in Threads,
             RequestLost(b) \/ RequestRename(b) \/ RequestDiscard(b)
      PROVE  From(thread'[a].copy, thread'[a].task)
  <2>1. thread' = [c \in Threads |-> IF c = b THEN NoRequest ELSE thread[c]]
    BY <1>3 DEF RequestLost, RequestRename, RequestDiscard, Holding, TypeOK
  <2> QED  BY <2>1 DEF From, Copied, NoRequest
<1>4. ASSUME NEW b \in Threads, NEW stage, stage # "found",
             thread[b].stage \in {"found", "claimed"},
             thread' = [thread EXCEPT ![b].stage = stage]
      PROVE  From(thread'[a].copy, thread'[a].task)
  <2>1. thread[b] \in RequestType  BY <1>4, ThreadShape DEF Holding, TypeOK, Asks
  <2>2. thread' = [c \in Threads |-> IF c = b THEN [thread[b] EXCEPT !.stage = stage]
                                     ELSE thread[c]]
    BY <1>4 DEF Holding, TypeOK
  <2>3. [thread[b] EXCEPT !.stage = stage].task = thread[b].task
        /\ [thread[b] EXCEPT !.stage = stage].copy = thread[b].copy
    BY <2>1 DEF RequestType
  <2>4. CASE a = b  BY <1>4, <2>2, <2>3, <2>4 DEF From, Copied
  <2>5. CASE a # b  BY <2>2, <2>5 DEF From, Copied
  <2> QED  BY <2>4, <2>5
<1>5. ASSUME NEW b \in Threads, RequestClaim(b) \/ RequestWrite(b)
      PROVE  From(thread'[a].copy, thread'[a].task)
  BY <1>4, <1>5 DEF RequestClaim, RequestWrite
<1>6. CASE Crash  BY <1>6 DEF Crash, Copied, NoRequest
<1>7. CASE HealPut  BY <1>1, <1>7, HealPutCases
<1>8. CASE WritesBack  BY <1>1, <1>8 DEF WritesBack, Written, WriteBack
<1>9. CASE HealStart \/ HealSkip \/ HealEnd  BY <1>1, <1>9, LoopMoves
<1>10. CASE \/ Submit \/ FinishTransfer \/ Restart \/ UNCHANGED vars
            \/ \E q \in StepQueues : ConsumerClaim(q)
  BY <1>1, <1>10 DEF Submit, FinishTransfer, Restart, vars, ConsumerClaim
<1> QED  BY <1>2, <1>3, <1>5, <1>6, <1>7, <1>8, <1>9, <1>10, StepCases

LEMMA InitNotes == Init => NotesOnce
BY DEF Init, NotesOnce, Live, Copied, NoRequest

LEMMA NextNotes ==
    ASSUME Holding, NotesOnce, [Next]_vars
    PROVE  NotesOnce'
<1>1. ASSUME NEW f, NEW t \in Ids, From(f, t)  PROVE NotedOnce(f)
  BY <1>1 DEF NotesOnce, From
<1>2. ASSUME NEW t \in Ids, Live(t)'  PROVE NotedOnce(file'[t])
  <2>1. ComesFrom(t)  BY <1>2, NextFrom
  <2>2. file'[t].hist = <<>> => NotedOnce(file'[t])  BY DEF NotedOnce
  <2>3. ASSUME NEW f \in TaskType, NEW e \in EntryType, From(f, t),
               file'[t].hist = Append(f.hist, e), HealsRightly(e, f, t)
        PROVE  NotedOnce(file'[t])
    <3> DEFINE n == Len(f.hist)
               h == file'[t].hist
               Note(d) == d.actor = HEAL_ACTOR /\ d.to = FAILED
    <3>1. /\ n \in Nat /\ DOMAIN f.hist = 1 .. n /\ DOMAIN h = 1 .. n + 1
          /\ h[n + 1] = e /\ \A i \in 1 .. n : h[i] = f.hist[i]
      <4>1. f.hist \in Seq(EntryType)  BY DEF TaskType
      <4> QED  BY <2>3, <4>1
    <3> HIDE DEF n, h
    <3>2. \A i \in 1 .. n + 1 : i \in 1 .. n \/ i = n + 1  BY <3>1
    <3>3. Note(e) => \A i \in 1 .. n : ~Note(f.hist[i])
      BY <2>3, <3>1, Names DEF HealsRightly, AlreadyDeclined
    <3>4. \A i, j \in 1 .. n : Note(f.hist[i]) /\ Note(f.hist[j]) => i = j
      BY <1>1, <2>3, <3>1 DEF NotedOnce
    <3> HIDE DEF Note
    <3>5. \A i, j \in 1 .. n + 1 : Note(h[i]) /\ Note(h[j]) => i = j
      BY <3>1, <3>2, <3>3, <3>4
    <3> QED  BY <3>1, <3>5 DEF NotedOnce, Note, h
  <2> QED  BY <1>1, <2>1, <2>2, <2>3 DEF ComesFrom
<1>3. ASSUME NEW a \in Threads, Copied(a)'  PROVE NotedOnce(thread'[a].copy)
  <2>1. From(thread'[a].copy, thread'[a].task)  BY <1>3, CopiesFrom
  <2>2. thread'[a].task \in Ids
    <3>1. Holding'  BY NextHolding
    <3>2. thread'[a] \in RequestType
      BY <1>3, <3>1 DEF Holding, TypeOK, Copied, NoRequest
    <3> QED  BY <3>2 DEF RequestType
  <2> QED  BY <1>1, <2>1, <2>2
<1> QED  BY <1>2, <1>3 DEF NotesOnce

\* What the healer has taken over stays so, its heal task deleted or not.
LEMMA TakenStays ==
    ASSUME Holding, Holding', HealsOlder, Descends, NEW t \in Ids, TakenOver(t)
    PROVE  TakenOver(t)'
<1>1. /\ Ids \subseteq Nat /\ minted \in Nat /\ minted' \in Nat /\ minted' >= minted
      /\ minted <= MaxTasks /\ MaxTasks \in Nat /\ t \in Nat
  BY HarnessAssumption DEF Ids, Descends, Holding, TypeOK
<1>2. \A u \in Ids : (~Live(u) <=> at[u] = Nowhere) /\ (~Live(u)' <=> at'[u] = Nowhere)
  BY DEF Holding, TypeOK, Live
<1>3. CASE \E u \in Ids : Live(u) /\ file[u].of = t
  <2>1. PICK u \in Ids : Live(u) /\ file[u].of = t  BY <1>3
  <2>2. t < u /\ ~(u > minted)
    BY <1>2, <2>1 DEF HealsOlder, Holding, IdsInOrder
  <2>3. u \in t + 1 .. minted'  BY <1>1, <2>2
  <2>4. CASE Live(u)'
    <3>1. SameMake(file'[u], file[u])  BY <2>1, <2>4 DEF Descends
    <3> QED  BY <2>1, <2>4, <3>1 DEF TakenOver, SameMake
  <2>5. CASE ~Live(u)'  BY <1>2, <2>3, <2>5 DEF TakenOver
  <2> QED  BY <2>4, <2>5
<1>4. CASE \E u \in t + 1 .. minted : at[u] = Nowhere
  <2>1. PICK u \in t + 1 .. minted : at[u] = Nowhere  BY <1>4
  <2>2. u \in Ids /\ u \in t + 1 .. minted' /\ ~(u > minted)
    BY <1>1, <2>1 DEF Ids
  <2>3. ~Live(u)'  BY <1>2, <2>1, <2>2 DEF Descends
  <2> QED  BY <1>2, <2>2, <2>3 DEF TakenOver
<1> QED  BY <1>3, <1>4 DEF TakenOver

LEMMA ObservedTyped == ASSUME Holding PROVE Observed \subseteq Ids
<1>1. loop.stage = "healing" => loop.obs \subseteq Ids  BY LoopShape DEF Holding, TypeOK
<1>2. loop.stage = "moving" => loop.then \in Rests  BY LoopShape DEF Holding, TypeOK
<1>3. loop.stage = "moving" /\ loop.then # Free => loop.then.obs \subseteq Ids
  BY <1>2 DEF Rests
<1> QED  BY <1>1, <1>3 DEF Observed

\* The observations a step adds, and those it is done with.
LEMMA NextObserved ==
    ASSUME Holding, Keys, [Next]_vars
    PROVE  /\ \A t \in Observed' : t \in Observed \/ t <= minted
           /\ \A t \in Observed : t \in Observed' \/ t \in torn' \/ TakenOver(t)'
<1> DEFINE Kept == /\ \A t \in Observed' : t \in Observed \/ t <= minted
                   /\ \A t \in Observed : t \in Observed' \/ t \in torn' \/ TakenOver(t)'
<1>1. CASE Observed' = Observed  BY <1>1
<1>2. CASE UNCHANGED loop  BY <1>1, <1>2 DEF Observed
<1>3. CASE HealPut
  <2>1. PICK of \in loop.obs :
           /\ of \in Ids /\ loop' = Healing({}, loop.obs \ {of})
           /\ \/ of \in seen /\ UNCHANGED <<file, at, minted, seen>>
              \/ of \notin seen /\ Puts(HealTask(of)) /\ HealTask(of) \in TaskType
    BY <1>3, HealPutCases
  <2>2. Observed = loop.obs /\ Observed' = loop.obs \ {of}
    BY <1>3, <2>1, HealPutCases DEF Observed, Healing
  <2>3. TakenOver(of)'
    <3>1. CASE of \in seen /\ UNCHANGED <<file, at, minted, seen>>
      BY <3>1 DEF Keys, SeenIsRight, TakenOver, Live
    <3>2. CASE Puts(HealTask(of)) /\ HealTask(of) \in TaskType
      <4>1. /\ minted' \in Ids
            /\ file' = [u \in Ids |-> IF u = minted' THEN HealTask(of) ELSE file[u]]
        BY <3>2, PutDescends
      <4>2. PICK u \in Ids : u = minted'  BY <4>1
      <4>3. Live(u)' /\ file'[u].of = of
        BY <3>2, <4>1, <4>2, NoTaskAssumption DEF Live, HealTask, NewTask
      <4> QED  BY <4>3 DEF TakenOver
    <3> QED  BY <2>1, <3>1, <3>2
  <2> QED  BY <2>2, <2>3
<1>4. ASSUME NEW t \in Ids, NEW new \in TaskType, NEW dest \in Queues, NEW then \in Rests,
             Written(t, new, dest, then)
      PROVE  Kept
  <2>1. Observed' = Observed \/ Observed' = Observed \cup {t}  BY <1>4, WrittenObserved
  <2>2. t <= minted
    <3>1. at[t] # Nowhere  BY <1>4, WrittenMeans, Names DEF Queues
    <3>2. ~(t > minted)  BY <3>1 DEF Holding, IdsInOrder
    <3> QED  BY <3>2, HarnessAssumption DEF Holding, TypeOK, Ids
  <2> QED  BY <2>1, <2>2
<1>5. CASE FinishTransfer
  <2>1. loop' = loop.then /\ loop.stage = "moving" /\ loop.then \in Rests
    BY <1>5, LoopShape DEF FinishTransfer, Holding, TypeOK
  <2>2. CASE loop.then = Free  BY <1>1, <2>1, <2>2 DEF Observed, Free
  <2>3. CASE loop.then # Free
    <3>1. loop.then.stage = "healing"  BY <2>1, <2>3 DEF Rests
    <3> QED  BY <1>1, <2>1, <2>3, <3>1 DEF Observed
  <2> QED  BY <2>2, <2>3
<1>6. CASE HealStart \/ HealSkip \/ HealEnd
  <2>1. \A todo, obs : /\ loop' = Healing(todo, obs) => Observed' = obs
                       /\ loop = Healing(todo, obs) => Observed = obs
    <3>1. \A todo, obs : /\ Healing(todo, obs).stage = "healing"
                         /\ Healing(todo, obs).obs = obs
      BY DEF Healing
    <3> QED  BY <3>1 DEF Observed
  <2>2. (loop = Free => Observed = {}) /\ (loop' = Free => Observed' = {})
        /\ (loop.stage = "healing" => Observed = loop.obs)
    BY DEF Observed, Free
  <2>3. CASE HealStart  BY <1>1, <2>1, <2>2, <2>3 DEF HealStart
  <2>4. CASE HealSkip  BY <1>1, <2>1, <2>2, <2>4 DEF HealSkip
  <2>5. CASE HealEnd  BY <1>1, <2>1, <2>2, <2>5 DEF HealEnd
  <2> QED  BY <1>6, <2>3, <2>4, <2>5
<1>7. CASE Crash
  <2>1. Observed' = {}  BY <1>7 DEF Crash, Observed, Free
  <2>2. \A t \in Observed : t \in torn'
    BY <1>7, ObservedTyped DEF Crash, Unfinished
  <2> QED  BY <2>1, <2>2
<1>8. CASE \/ Submit \/ Restart \/ UNCHANGED vars
           \/ \E q \in StepQueues : ConsumerClaim(q)
           \/ \E a \in Threads, v \in Verbs, t \in Ids : RequestFind(a, v, t)
           \/ \E a \in Threads : \/ RequestLost(a) \/ RequestClaim(a) \/ RequestWrite(a)
                                 \/ RequestRename(a) \/ RequestDiscard(a)
  BY <1>2, <1>8
  DEF Submit, Restart, vars, ConsumerClaim, RequestFind, RequestLost, RequestClaim,
      RequestWrite, RequestRename, RequestDiscard
<1> QED  BY <1>3, <1>4, <1>5, <1>6, <1>7, <1>8, StepCases DEF WritesBack

LEMMA ObservedShape ==
    ASSUME NEW l \in Rests \cup Transfers
    PROVE  /\ l.stage = "healing" => l.obs \subseteq Ids
           /\ l.stage = "moving" /\ l.then # Free => l.then.obs \subseteq Ids
<1>1. l.stage = "healing" => l.obs \subseteq Ids  BY DEF Rests, Transfers, Free
<1>2. l.stage = "moving" => l.then \in Rests  BY DEF Rests, Transfers, Free
<1> QED  BY <1>1, <1>2 DEF Rests

LEMMA StaysOld ==
    ASSUME Holding, Holding', Keys, [Next]_vars  PROVE ObservedIsOld'
<1>1. loop' \in Rests \cup Transfers  BY DEF Holding, TypeOK
<1>2. /\ loop'.stage = "healing" => loop'.obs \subseteq Ids
      /\ loop'.stage = "moving" /\ loop'.then # Free => loop'.then.obs \subseteq Ids
  BY <1>1, ObservedShape
<1>3. \A t \in Observed' : t \in Ids /\ t <= minted
  <2>1. Observed' \subseteq Ids  BY <1>2 DEF Observed
  <2> QED  BY <2>1, NextObserved DEF Keys, ObservedIsOld
<1>4. minted \in Nat /\ minted' \in Nat /\ minted' >= minted /\ Ids \subseteq Nat
  BY NextDescends, HarnessAssumption DEF Descends, Ids, Holding, TypeOK
<1>5. ASSUME NEW t \in Observed'  PROVE t <= minted'
  <2>1. t \in Nat /\ t <= minted  BY <1>3, <1>4
  <2> QED  BY <1>4, <2>1
<1> QED  BY <1>5 DEF ObservedIsOld

LEMMA InitKeys == Init => Keys
<1> SUFFICES ASSUME Init PROVE Keys
  OBVIOUS
<1>1. Observed = {} /\ \A u \in Ids : ~Live(u)  BY DEF Init, Observed, Free, Live
<1> QED  BY <1>1 DEF Init, Keys, HealsOlder, HealsAlone, SeenIsRight, ObservedIsOld

\* A step in which no task comes into being.
LEMMA KeysKept ==
    ASSUME Holding, Holding', Keys, [Next]_vars,
           \A u \in Ids : Live(u)' => Live(u),
           \/ seen' = seen /\ (up' => up)
           \/ seen' = {} /\ ~up'
    PROVE  Keys'
<1>1. Descends  BY NextDescends
<1>2. \A u \in Ids : Live(u)' => Live(u) /\ file'[u].of = file[u].of
  BY <1>1 DEF Descends, SameMake, Holding, IdsInOrder, TypeOK, Live
<1>3. HealsOlder'  BY <1>2 DEF Keys, HealsOlder
<1>4. HealsAlone'  BY <1>2 DEF Keys, HealsAlone
<1>5. SeenIsRight'
  <2>1. \A s \in seen : TakenOver(s)'
    BY <1>1, TakenStays DEF Keys, SeenIsRight, Holding, TypeOK
  <2> QED  BY <1>2, <2>1 DEF Keys, SeenIsRight
<1>6. ObservedIsOld'  BY StaysOld
<1> QED  BY <1>3, <1>4, <1>5, <1>6 DEF Keys

\* A new task, of something the healer has not seen.
LEMMA KeysPut ==
    ASSUME Holding, Holding', Keys, [Next]_vars, NEW new \in TaskType, Puts(new), up' = up,
           \/ new.of = 0 /\ seen' = seen
           \/ /\ new.of \in Observed /\ new.of \in Ids /\ up
              /\ new.of \notin seen /\ seen' = seen \cup {new.of}
    PROVE  Keys'
<1>1. PICK n \in Ids : n = minted'  BY PutDescends
<1>2. /\ Descends /\ minted \in Nat /\ n = minted + 1 /\ ~Live(n)
      /\ file' = [u \in Ids |-> IF u = n THEN new ELSE file[u]]
  BY <1>1, PutDescends
<1>3. file'[n] = new /\ Live(n)' /\ \A u \in Ids : u # n =>
         file'[u] = file[u] /\ (Live(u)' <=> Live(u))
  BY <1>2, NoTaskAssumption DEF Live
<1>4. HealsOlder'
  <2>1. new.of < n
    BY <1>2, HarnessAssumption DEF Keys, ObservedIsOld, Ids
  <2> QED  BY <1>3, <2>1 DEF Keys, HealsOlder
<1>5. new.of # 0 => \A u \in Ids : Live(u) => file[u].of # new.of
  BY DEF Keys, SeenIsRight
<1>6. HealsAlone'
  <2> SUFFICES ASSUME NEW u \in Ids, NEW v \in Ids, Live(u)', Live(v)',
                      file'[u].of = file'[v].of, file'[u].of # 0
               PROVE  u = v
    BY DEF HealsAlone
  <2>1. CASE u # n /\ v # n  BY <1>3, <2>1 DEF Keys, HealsAlone
  <2>2. CASE u = n \/ v = n  BY <1>3, <1>5, <2>2
  <2> QED  BY <2>1, <2>2
<1>7. SeenIsRight'
  <2>1. up' => \A u \in Ids : Live(u)' => file'[u].of \in seen' \cup {0}
    BY <1>3 DEF Keys, SeenIsRight
  <2>2. \A s \in seen : TakenOver(s)'
    BY <1>2, TakenStays DEF Keys, SeenIsRight, Holding, TypeOK
  <2>3. new.of # 0 => TakenOver(new.of)'  BY <1>3 DEF TakenOver
  <2> QED  BY <2>1, <2>2, <2>3, HarnessAssumption DEF SeenIsRight, Ids
<1>8. ObservedIsOld'  BY StaysOld
<1> QED  BY <1>4, <1>6, <1>7, <1>8 DEF Keys

\* The keys are read back from disk.
LEMMA KeysReadBack ==
    ASSUME Holding, Holding', Keys, Restart  PROVE Keys'
<1>1. UNCHANGED <<file, at, minted, loop>>
      /\ seen' = {file[t].of : t \in {u \in Ids : Live(u)}} \ {0}
  BY DEF Restart, Live
<1>2. (HealsOlder /\ HealsAlone /\ ObservedIsOld)'
  BY <1>1 DEF Keys, HealsOlder, HealsAlone, ObservedIsOld, Observed, Live
<1>3. SeenIsRight'  BY <1>1 DEF SeenIsRight, TakenOver, Live
<1> QED  BY <1>2, <1>3 DEF Keys

LEMMA NextKeys == ASSUME Holding, Keys, [Next]_vars PROVE Keys'
<1>0. Holding'  BY NextHolding
<1>1. CASE Submit
  <2>1. PICK new \in TaskType : Puts(new) /\ new.of = 0
    BY <1>1, SubmitPuts DEF NewTask
  <2> QED  BY <1>0, <1>1, <2>1, KeysPut DEF Submit
<1>2. CASE HealPut
  <2>1. PICK of \in loop.obs :
           /\ of \in Ids
           /\ \/ of \in seen /\ UNCHANGED <<file, at, minted, seen>>
              \/ /\ of \notin seen /\ seen' = seen \cup {of}
                 /\ HealTask(of) \in TaskType /\ Puts(HealTask(of))
    BY <1>2, HealPutCases
  <2>2. up /\ up' = up /\ loop.stage = "healing"  BY <1>2, HealPutCases
  <2>3. of \in Observed  BY <2>2 DEF Observed
  <2>4. HealTask(of).of = of  BY DEF HealTask, NewTask
  <2>5. CASE UNCHANGED <<file, at, minted, seen>>
    BY <1>0, <2>2, <2>5, KeysKept DEF Live
  <2>6. CASE of \notin seen /\ seen' = seen \cup {of}
             /\ HealTask(of) \in TaskType /\ Puts(HealTask(of))
    BY <1>0, <2>1, <2>2, <2>3, <2>4, <2>6, KeysPut
  <2> QED  BY <2>1, <2>5, <2>6
<1>3. CASE Restart  BY <1>0, <1>3, KeysReadBack
<1>4. CASE ~Submit /\ ~HealPut /\ ~Restart
  <2>1. \A u \in Ids : Live(u)' => Live(u)  BY <1>4, NextDescends
  <2>2. (seen' = seen /\ (up' => up)) \/ (seen' = {} /\ ~up')
    <3>1. CASE Crash  BY <3>1 DEF Crash
    <3>2. CASE WritesBack  BY <3>2 DEF WritesBack, Written, WriteBack
    <3>3. CASE HealStart \/ HealSkip \/ HealEnd  BY <3>3, LoopMoves
    <3>4. CASE \/ FinishTransfer \/ UNCHANGED vars
               \/ \E q \in StepQueues : ConsumerClaim(q)
               \/ \E a \in Threads, v \in Verbs, t \in Ids : RequestFind(a, v, t)
               \/ \E a \in Threads : \/ RequestLost(a) \/ RequestClaim(a) \/ RequestWrite(a)
                                     \/ RequestRename(a) \/ RequestDiscard(a)
      BY <3>4
      DEF FinishTransfer, vars, ConsumerClaim, RequestFind, RequestLost, RequestClaim,
          RequestWrite, RequestRename, RequestDiscard
    <3> QED  BY <1>4, <3>1, <3>2, <3>3, <3>4, StepCases
  <2> QED  BY <1>0, <2>1, <2>2, KeysKept
<1> QED  BY <1>1, <1>2, <1>3, <1>4

LEMMA NextTorn == ASSUME Holding, [Next]_vars PROVE torn \subseteq torn'
<1>1. CASE HealPut  BY <1>1, HealPutCases
<1>2. CASE WritesBack  BY <1>2 DEF WritesBack, Written, WriteBack, counters
<1>3. CASE HealStart \/ HealSkip \/ HealEnd  BY <1>3, LoopMoves
<1>4. CASE \/ Submit \/ FinishTransfer \/ Crash \/ Restart \/ UNCHANGED vars
           \/ \E q \in StepQueues : ConsumerClaim(q)
           \/ \E a \in Threads, v \in Verbs, t \in Ids : RequestFind(a, v, t)
           \/ \E a \in Threads : \/ RequestLost(a) \/ RequestClaim(a) \/ RequestWrite(a)
                                 \/ RequestRename(a) \/ RequestDiscard(a)
  BY <1>4
  DEF Submit, FinishTransfer, Crash, Restart, vars, ConsumerClaim, RequestFind, RequestLost,
      RequestClaim, RequestWrite, RequestRename, RequestDiscard, counters
<1> QED  BY <1>1, <1>2, <1>3, <1>4, StepCases

LEMMA InitTaken == Init => RetiredIsTaken
BY DEF Init, RetiredIsTaken, Live, Copied, NoRequest

LEMMA NextTaken ==
    ASSUME Holding, Keys, RetiredIsTaken, [Next]_vars
    PROVE  RetiredIsTaken'
<1>0. Holding' /\ Descends  BY NextHolding, NextDescends
<1>1. ASSUME NEW t \in Ids, t \notin torn', NEW f, From(f, t), IsRetiredFailure(f)
      PROVE  t \in Observed' \/ TakenOver(t)'
  <2>1. t \notin torn  BY <1>1, NextTorn
  <2>2. t \in Observed \/ TakenOver(t)  BY <1>1, <2>1 DEF RetiredIsTaken, From
  <2>3. TakenOver(t) => TakenOver(t)'  BY <1>0, TakenStays DEF Keys
  <2> QED  BY <1>1, <2>2, <2>3, NextObserved
<1>2. ASSUME NEW t \in Ids, t \notin torn', Live(t)', IsRetiredFailure(file'[t])
      PROVE  t \in Observed' \/ TakenOver(t)'
  <2>1. ComesFrom(t)  BY <1>2, NextFrom
  <2>2. file'[t].hist # <<>>  BY <1>2 DEF IsRetiredFailure
  <2>3. ASSUME NEW f \in TaskType, NEW e \in EntryType, file'[t].hist = Append(f.hist, e),
               HealsRightly(e, f, t)
        PROVE  t \in Observed'
    <3>1. f.hist \in Seq(EntryType)  BY DEF TaskType
    <3>2. file'[t].hist[Len(file'[t].hist)] = e  BY <2>3, <3>1
    <3>3. e.actor = HEAL_ACTOR /\ e.to = END  BY <1>2, <3>2 DEF IsRetiredFailure
    <3> QED  BY <2>3, <3>3, Names DEF HealsRightly
  <2> QED  BY <1>1, <1>2, <2>1, <2>2, <2>3 DEF ComesFrom
<1>3. ASSUME NEW t \in Ids, t \notin torn', NEW a \in Threads, Copied(a)',
             thread'[a].task = t, IsRetiredFailure(thread'[a].copy)
      PROVE  t \in Observed' \/ TakenOver(t)'
  <2>1. From(thread'[a].copy, t)  BY <1>3, CopiesFrom
  <2> QED  BY <1>1, <1>3, <2>1
<1> QED  BY <1>2, <1>3 DEF RetiredIsTaken

LEMMA AtMostOne ==
    ASSUME NEW S, \A x, y \in S : x = y
    PROVE  Cardinality(S) <= 1
<1>1. CASE S = {}  BY <1>1, FS_EmptySet
<1>2. CASE S # {}
  <2>1. PICK x : S = {x}  BY <1>2
  <2> QED  BY <2>1, FS_Singleton
<1> QED  BY <1>1, <1>2

LEMMA BooksBalance ==
    ASSUME Holding, NotesOnce, Keys, RetiredIsTaken
    PROVE  HealedOnce
<1>1. OneHealTask
  <2> SUFFICES ASSUME NEW t \in Ids  PROVE Cardinality(HealTasksOf(t)) <= 1
    BY DEF OneHealTask
  <2>1. t # 0  BY HarnessAssumption DEF Ids
  <2>2. \A u, v \in HealTasksOf(t) : u = v
    BY <2>1 DEF HealTasksOf, Keys, HealsAlone, Live
  <2> QED  BY <2>2, AtMostOne
<1>2. DeclinedOnce
  <2> SUFFICES ASSUME NEW t \in Ids, file[t] # NoTask
               PROVE  Cardinality({i \in DOMAIN file[t].hist :
                          /\ file[t].hist[i].actor = HEAL_ACTOR
                          /\ file[t].hist[i].to = FAILED}) <= 1
    BY DEF DeclinedOnce
  <2> DEFINE notes == {i \in DOMAIN file[t].hist :
                          /\ file[t].hist[i].actor = HEAL_ACTOR
                          /\ file[t].hist[i].to = FAILED}
  <2>1. \A i, j \in notes : i = j  BY DEF NotesOnce, NotedOnce, Live
  <2> HIDE DEF notes
  <2>2. Cardinality(notes) <= 1  BY <2>1, AtMostOne
  <2> QED  BY <2>2 DEF notes
<1>3. RetiredHasHealTask
  <2> SUFFICES ASSUME NEW t \in Ids, t \notin torn, Retired(t), t \notin Observed
               PROVE  HealTasksOf(t) # {} \/ \E u \in t + 1 .. minted : at[u] = Nowhere
    BY DEF RetiredHasHealTask
  <2>1. Live(t) /\ IsRetiredFailure(file[t])
    BY FiledTyped DEF Retired, Live, Queues
  <2>2. TakenOver(t)  BY <2>1 DEF RetiredIsTaken
  <2> QED  BY <2>2 DEF TakenOver, HealTasksOf, Live
<1> QED  BY <1>1, <1>2, <1>3 DEF HealedOnce

(***************************************************************************)
(* The healer keeps its books over restarts that rebuild them from disk,   *)
(* resumes, second failures and crashes at any point, for any number of    *)
(* them (failed_tasks_check.py, app.py _seed_pollers): a failed task has   *)
(* at most one live heal task, is declined at most once, and is not        *)
(* retired without a heal task that takes it over.                         *)
(***************************************************************************)
THEOREM HealedOnceHolds == Spec => []HealedOnce
<1> DEFINE Inv == Holding /\ NotesOnce /\ Keys /\ RetiredIsTaken
<1>1. Init => Inv  BY InitHolding, InitNotes, InitKeys, InitTaken
<1>2. Inv /\ [Next]_vars => Inv'  BY NextHolding, NextNotes, NextKeys, NextTaken
<1>3. Inv => HealedOnce  BY BooksBalance
<1> QED  BY <1>1, <1>2, <1>3, PTL DEF Spec

-----------------------------------------------------------------------------
(* What a request takes.                                                   *)

\* What is certain of it for any number of threads: a restart takes a failure,
\* and so does a resume that found its task in failed/; one that found it in
\* done/ found a retired failure.
TakesWhatItFound ==
    [][\A a \in Threads :
          /\ thread[a].stage = "found" /\ thread[a].task \notin torn
          /\ thread'[a].stage = "claimed" /\ thread[a].verb # "delete"
          => \/ thread[a].queue = Failed /\ file[thread[a].task].status = FAILED
             \/ /\ thread[a].queue = Done /\ thread[a].verb = "resume"
                /\ IsRetiredFailure(thread[a].copy)]_vars

\* Who goes from found to claimed makes a claim.
LEMMA ClaimsAre ==
    ASSUME Holding, [Next]_vars, NEW a \in Threads,
           thread[a].stage = "found", thread'[a].stage = "claimed"
    PROVE  RequestClaim(a)
<1>1. CASE UNCHANGED thread  BY <1>1
<1>2. ASSUME NEW b \in Threads, NEW v \in Verbs, NEW t \in Ids, RequestFind(b, v, t)
      PROVE  FALSE
  <2>1. thread' = [c \in Threads |-> IF c = b THEN Request("found", v, t, at[t], file[t])
                                     ELSE thread[c]]
    BY <1>2 DEF RequestFind, Holding, TypeOK
  <2> QED  BY <2>1 DEF Request
<1>3. ASSUME NEW b \in Threads, RequestLost(b) \/ RequestRename(b) \/ RequestDiscard(b)
      PROVE  FALSE
  <2>1. thread' = [c \in Threads |-> IF c = b THEN NoRequest ELSE thread[c]]
    BY <1>3 DEF RequestLost, RequestRename, RequestDiscard, Holding, TypeOK
  <2> QED  BY <2>1 DEF NoRequest
<1>4. ASSUME NEW b \in Threads, RequestClaim(b) \/ RequestWrite(b), b # a
      PROVE  FALSE
  BY <1>4 DEF RequestClaim, RequestWrite, Holding, TypeOK
<1>5. ~RequestWrite(a)  BY DEF RequestWrite
<1>6. CASE Crash  BY <1>6 DEF Crash, NoRequest
<1>7. CASE HealPut  BY <1>1, <1>7, HealPutCases
<1>8. CASE WritesBack  BY <1>1, <1>8 DEF WritesBack, Written, WriteBack
<1>9. CASE HealStart \/ HealSkip \/ HealEnd  BY <1>1, <1>9, LoopMoves
<1>10. CASE \/ Submit \/ FinishTransfer \/ Restart \/ UNCHANGED vars
            \/ \E q \in StepQueues : ConsumerClaim(q)
  BY <1>1, <1>10 DEF Submit, FinishTransfer, Restart, vars, ConsumerClaim
<1> QED  BY <1>2, <1>3, <1>4, <1>5, <1>6, <1>7, <1>8, <1>9, <1>10, StepCases

LEMMA ClaimTakes ==
    ASSUME Holding, FilesFit, CopiesFit, NEW a \in Threads, RequestClaim(a),
           thread[a].task \notin torn, thread[a].verb # "delete"
    PROVE  \/ thread[a].queue = Failed /\ file[thread[a].task].status = FAILED
           \/ /\ thread[a].queue = Done /\ thread[a].verb = "resume"
              /\ IsRetiredFailure(thread[a].copy)
<1> DEFINE t == thread[a].task
           q == thread[a].queue
           v == thread[a].verb
           copy == thread[a].copy
<1>1. Asks(a) /\ thread[a].stage = "found" /\ Lies(t, q)  BY DEF RequestClaim, Asks
<1>2. t \in Ids /\ q \in Queues /\ v \in {"restart", "resume"} /\ copy \in TaskType
  BY <1>1, ThreadShape, HarnessAssumption DEF Holding, TypeOK
<1>3. q \in LooksIn(v) /\ Accepts(v, copy)  BY <1>1 DEF Holding, RequestKnows
<1>4. Fits(copy, q)  BY <1>1 DEF CopiesFit
<1>5. at[t] = q /\ ~held[t] /\ file[t] # NoTask
  BY <1>1, <1>2, FiledTyped DEF Lies
<1>6. Fits(file[t], q)  BY <1>2, <1>5, RestingFits
<1> HIDE DEF t, q, v, copy
<1>7. q = Failed => file[t].status = FAILED  BY <1>6 DEF Fits, InFailed
<1>8. q = Failed \/ (q = Done /\ v = "resume")
  BY <1>2, <1>3 DEF LooksIn
<1>9. q = Done /\ v = "resume" => IsRetiredFailure(copy)
  BY <1>3, <1>4, Names DEF Accepts, IsResumable, Fits, InDone
<1> QED  BY <1>7, <1>8, <1>9 DEF t, q, v, copy

(***************************************************************************)
(* What a restart takes back is a failure, at the moment it takes it, and  *)
(* so is what a resume finds, for any number of the operator's threads     *)
(* (task_control.py).                                                      *)
(***************************************************************************)
THEOREM TakesWhatItFoundHolds == Spec => TakesWhatItFound
<1> DEFINE Inv == Holding /\ FilesFit /\ CopiesFit
           Takes == \A a \in Threads :
                       /\ thread[a].stage = "found" /\ thread[a].task \notin torn
                       /\ thread'[a].stage = "claimed" /\ thread[a].verb # "delete"
                       => \/ thread[a].queue = Failed /\ file[thread[a].task].status = FAILED
                          \/ /\ thread[a].queue = Done /\ thread[a].verb = "resume"
                             /\ IsRetiredFailure(thread[a].copy)
<1>1. Init => Inv  BY InitHolding, InitFits
<1>2. Inv /\ [Next]_vars => Inv'  BY NextHolding, NextFits
<1>3. Inv /\ [Next]_vars => Takes  BY ClaimsAre, ClaimTakes
<1>4. Inv /\ [Next]_vars => [Takes]_vars  BY <1>3
<1> QED  BY <1>1, <1>2, <1>4, PTL DEF Spec, TakesWhatItFound

-----------------------------------------------------------------------------
(* The operator alone: a harness that serves one request at a time.        *)

\* What lies in done/ stays there as the request found it, for nobody but a
\* request takes anything out of done/.
StaysDone ==
    /\ loop.stage = "moving" => at[loop.task] # Done
    /\ \A a \in Threads :
          thread[a].stage = "found" /\ thread[a].queue = Done =>
              at[thread[a].task] = Done /\ file[thread[a].task] = thread[a].copy

\* A step keeps StaysDone that leaves alone what lies in done/ and asks nothing.
LEMMA LeftInDone ==
    ASSUME Holding, StaysDone,
           \A t \in Ids : at[t] = Done => at'[t] = Done /\ file'[t] = file[t],
           \A a \in Threads : thread'[a].stage = "found" => thread'[a] = thread[a],
           loop'.stage = "moving" => at'[loop'.task] # Done
    PROVE  StaysDone'
<1>1. ASSUME NEW a \in Threads, thread'[a].stage = "found", thread'[a].queue = Done
      PROVE  at'[thread'[a].task] = Done /\ file'[thread'[a].task] = thread'[a].copy
  <2>1. thread'[a] = thread[a] /\ thread[a].stage = "found" /\ thread[a].queue = Done
    BY <1>1
  <2>2. thread[a].task \in Ids  BY <2>1, ThreadShape DEF Holding, TypeOK, Asks
  <2>3. at[thread[a].task] = Done /\ file[thread[a].task] = thread[a].copy
    BY <2>1 DEF StaysDone
  <2> QED  BY <2>1, <2>2, <2>3
<1> QED  BY <1>1 DEF StaysDone

LEMMA NextStays ==
    ASSUME Alone, Holding, StaysDone, [Next]_vars
    PROVE  StaysDone'
<1>1. /\ file \in [Ids -> TaskType \cup {NoTask}] /\ at \in [Ids -> Queues \cup {Nowhere}]
      /\ thread \in [Threads -> RequestType \cup {NoRequest}]
  BY DEF Holding, TypeOK
<1>2. loop.stage = "moving" => loop.task \in Ids /\ at[loop.task] # Done /\ loop.then \in Rests
  BY LoopShape DEF Holding, TypeOK, StaysDone
<1>3. Rests \cap Transfers = {} /\ \A l \in Rests : l.stage # "moving"
  BY DEF Rests, Transfers, Free
<1>4. Done # Inbox /\ Done # Failed /\ Done # Nowhere /\ Done \notin StepQueues
  BY HarnessAssumption DEF Done, Inbox, Failed, Nowhere
<1>5. ASSUME NEW new \in TaskType, Puts(new), UNCHANGED thread,
             loop' = loop \/ loop' \in Rests
      PROVE  StaysDone'
  <2>1. /\ file' = [u \in Ids |-> IF u = minted' THEN new ELSE file[u]]
        /\ at' = [u \in Ids |-> IF u = minted' THEN Inbox ELSE at[u]]
    BY <1>1, <1>5 DEF Puts
  <2>2. \A t \in Ids : at[t] = Done => t # minted'
    BY <1>4, <1>5, HarnessAssumption DEF Puts, Holding, IdsInOrder, TypeOK, Ids
  <2>3. \A t \in Ids : at[t] = Done => at'[t] = Done /\ file'[t] = file[t]
    BY <2>1, <2>2
  <2>4. loop'.stage = "moving" => at'[loop'.task] # Done
    BY <1>2, <1>3, <1>4, <1>5, <2>1
  <2> QED  BY <1>5, <2>3, <2>4, LeftInDone
<1>6. CASE Submit
  BY <1>5, <1>6, SubmitPuts DEF Submit
<1>7. CASE HealPut
  <2>1. PICK of \in loop.obs :
           /\ of \in Ids /\ loop' \in Rests
           /\ \/ of \in seen /\ UNCHANGED <<file, at, minted, seen>>
              \/ HealTask(of) \in TaskType /\ Puts(HealTask(of))
    BY <1>7, HealPutCases
  <2>2. UNCHANGED thread  BY <1>7, HealPutCases
  <2>3. CASE UNCHANGED <<file, at>>  BY <1>3, <2>1, <2>2, <2>3, LeftInDone
  <2> QED  BY <1>5, <2>1, <2>2, <2>3
<1>8. CASE HealStart \/ HealSkip \/ HealEnd
  <2>1. loop' \in Rests /\ UNCHANGED <<file, at, thread>>  BY <1>8, LoopMoves
  <2> QED  BY <1>3, <2>1, LeftInDone
<1>9. CASE WritesBack
  <2>1. PICK t \in Ids, new \in TaskType, dest \in Queues, then \in Rests :
            Written(t, new, dest, then)
    BY <1>9 DEF WritesBack
  <2>2. at[t] # Done  BY <1>4, <2>1, WrittenMeans
  <2>3. /\ UNCHANGED <<at, thread>> /\ loop' = Moving(t, dest, then)
        /\ file' = [u \in Ids |-> IF u = t THEN new ELSE file[u]]
    BY <1>1, <2>1 DEF Written, WriteBack
  <2>4. loop'.task = t  BY <2>3 DEF Moving
  <2>5. \A u \in Ids : at[u] = Done => at'[u] = Done /\ file'[u] = file[u]
    BY <2>2, <2>3
  <2>6. at'[loop'.task] # Done  BY <2>2, <2>3, <2>4
  <2> QED  BY <2>3, <2>5, <2>6, LeftInDone
<1>10. CASE FinishTransfer
  <2>1. loop.stage = "moving" /\ loop' \in Rests /\ UNCHANGED <<file, thread>>
    BY <1>2, <1>10 DEF FinishTransfer
  <2>2. at' = [u \in Ids |-> IF u = loop.task THEN loop.dest ELSE at[u]]
    BY <1>1, <1>10 DEF FinishTransfer
  <2>3. \A u \in Ids : at[u] = Done => at'[u] = Done  BY <1>2, <2>1, <2>2
  <2> QED  BY <1>3, <2>1, <2>3, LeftInDone
<1>11. ASSUME NEW a \in Threads, NEW v \in Verbs, NEW t \in Ids, RequestFind(a, v, t)
       PROVE  StaysDone'
  <2> DEFINE r == Request("found", v, t, at[t], file[t])
  <2>1. thread' = [b \in Threads |-> IF b = a THEN r ELSE thread[b]]
        /\ UNCHANGED <<file, at, loop>>
    BY <1>1, <1>11 DEF RequestFind
  <2>2. r.task = t /\ r.queue = at[t] /\ r.copy = file[t]  BY DEF Request
  <2> HIDE DEF r
  <2> QED  BY <2>1, <2>2 DEF StaysDone
<1>12. ASSUME NEW a \in Threads,
              \/ RequestLost(a) \/ RequestClaim(a) \/ RequestWrite(a)
              \/ RequestRename(a) \/ RequestDiscard(a)
       PROVE  StaysDone'
  <2>1. UNCHANGED loop
    BY <1>12 DEF RequestLost, RequestClaim, RequestWrite, RequestRename, RequestDiscard
  <2>2. thread'[a].stage # "found"
    <3>1. CASE RequestLost(a) \/ RequestRename(a) \/ RequestDiscard(a)
      BY <1>1, <3>1 DEF RequestLost, RequestRename, RequestDiscard, NoRequest
    <3>2. CASE RequestClaim(a) \/ RequestWrite(a)
      <4>1. PICK s \in {"claimed", "written"} : thread' = [thread EXCEPT ![a].stage = s]
        BY <3>2 DEF RequestClaim, RequestWrite
      <4>2. thread[a] \in RequestType
        BY <1>1, <3>2, ThreadShape DEF RequestClaim, RequestWrite, Asks
      <4> QED  BY <1>1, <4>1, <4>2 DEF RequestType
    <3> QED  BY <1>12, <3>1, <3>2
  <2>3. \A b \in Threads : thread'[b].stage # "found"  BY <2>2 DEF Alone
  <2>4. \A u \in Ids : at'[u] = at[u] \/ at'[u] \in {Inbox, Nowhere}
    BY <1>1, <1>12 DEF RequestLost, RequestClaim, RequestWrite, RequestRename,
       RequestDiscard
  <2> QED  BY <1>2, <1>4, <2>1, <2>3, <2>4 DEF StaysDone
<1>13. CASE Crash
  BY <1>13 DEF Crash, StaysDone, NoRequest, Free
<1>14. CASE \/ Restart \/ UNCHANGED vars \/ \E q \in StepQueues : ConsumerClaim(q)
  BY <1>14 DEF Restart, vars, ConsumerClaim, StaysDone
<1> QED  BY <1>6, <1>7, <1>8, <1>9, <1>10, <1>11, <1>12, <1>13, <1>14, StepCases

(***************************************************************************)
(* With one request at a time, what a restart or a resume takes back is a  *)
(* failure at the moment it takes it, not only when the operator's thread  *)
(* looked (task_control.py; models.py:350-354).                            *)
(***************************************************************************)
THEOREM OnlyFailuresTakenHolds == ASSUME Alone PROVE Spec => OnlyFailuresTaken
<1> DEFINE Inv == Holding /\ FilesFit /\ CopiesFit /\ StaysDone
           Takes == \A a \in Threads :
                       /\ thread[a].stage = "found" /\ thread[a].task \notin torn
                       /\ thread'[a].stage = "claimed" /\ thread[a].verb # "delete"
                       => \/ file[thread[a].task].status = FAILED
                          \/ IsRetiredFailure(file[thread[a].task])
<1>1. Init => Inv
  <2>1. Init => StaysDone  BY DEF Init, StaysDone, NoRequest, Free
  <2> QED  BY <2>1, InitHolding, InitFits
<1>2. Inv /\ [Next]_vars => Inv'  BY NextHolding, NextFits, NextStays
<1>3. Inv /\ [Next]_vars => Takes
  <2>1. Inv => \A a \in Threads : thread[a].stage = "found" /\ thread[a].queue = Done
                                  => file[thread[a].task] = thread[a].copy
    BY DEF StaysDone
  <2> QED  BY <2>1, ClaimsAre, ClaimTakes
<1>4. Inv /\ [Next]_vars => [Takes]_vars  BY <1>3
<1> QED  BY <1>1, <1>2, <1>4, PTL DEF Spec, OnlyFailuresTaken
=============================================================================
