------------------------------ MODULE Schedule ------------------------------
(***************************************************************************)
(* Triggers on a cadence.  Each process has a poller of its own: a tick    *)
(* asks the trigger for the occurrence the clock is in, and when it is not *)
(* the last one evaluates the check and puts one task for every           *)
(* observation whose key is new.  What the trigger and the poller remember *)
(* is gone after a stop; a start reads the keys of the tasks on disk, but  *)
(* not of those that the retention has archived.  The clock is the wall's: *)
(* it may jump, also back.                                                 *)
(***************************************************************************)
EXTENDS Cron

CONSTANTS
    Processes,
    Definition,    \* Definition[p]: the process as its file has it
    Conditions,    \* what a check may find: files, lines, a full disk
    Instants,      \* the minutes at which somebody looks at the clock
    None,
    MaxChanges, MaxTroubles   \* bounds

Deduping == {"per-interval", "per-state"}
CadenceOK(p) ==
    IF Definition[p].byCron THEN CronOK(Definition[p].cron)
    ELSE IntervalOK(Definition[p].interval)

ASSUME ScheduleAssumption ==
    /\ \A p \in Processes : CadenceOK(p) /\ Definition[p].dedup \in Deduping
    /\ None \notin Conditions
    /\ Instants \subseteq Nat
    /\ {MaxChanges, MaxTroubles} \subseteq Nat

\* What a file's texts are parsed into before they are checked.
Fields == Seq(Seq([whole : BOOLEAN, from : Nat, to : Nat, step : Nat]))
Intervals == [number : Nat, unit : {"s", "m", "h"}]

ASSUME CadenceAssumption ==
    \A p \in Processes :
        /\ Definition[p].byCron \in BOOLEAN
        /\ IF Definition[p].byCron THEN Definition[p].cron \in Fields
           ELSE Definition[p].interval \in Intervals

\* The epoch is longer ago than an occurrence is looked for.
ASSUME ClockAssumption == \A t \in Instants : DayOf(t) >= LookbackDays

VARIABLES
    now,        \* what the clock shows
    standing,   \* standing[p]: what p's check finds now
    up,
    last,       \* last[p]: the occurrence p's trigger has fired for
    seen,       \* seen[p]: the keys p's poller has ingested
    batch,      \* the tasks of a tick that are still to be put
    tasks,      \* every task put, in order
    changes,    \* a counter for the bound
    troubles,   \* so many: stops, checks that raised, clocks set back
    polled,     \* observer: polled[p] is the instant of p's last occurrence
    owed        \* observer: what p's last evaluation returned, if it lives

vars == <<now, standing, up, last, seen, batch, tasks,
          changes, troubles, polled, owed>>
counters == <<changes, troubles>>
memory == <<last, seen, batch>>

\* Where a task lies: in a queue that a start reads (the inbox, a step, done,
\* failed), or in the archive.
Places == {"kept", "archived"}
SeedingNone == {}      \* mutant: nothing is read at a start

Seeding == {"kept"}

\* The key a task is known by: its occurrence, or what was found.
KeyByInterval(p, occurrence, found) ==   \* mutant: no state in any key
    [process |-> p, occurrence |-> occurrence, found |-> None]

Key(p, occurrence, found) ==
    IF Definition[p].dedup = "per-interval"
    THEN [process |-> p, occurrence |-> occurrence, found |-> None]
    ELSE [process |-> p, occurrence |-> NoOccurrence, found |-> found]

Task(p, occurrence, found) ==
    [key |-> Key(p, occurrence, found), found |-> found, place |-> "kept"]
KeysOf(p, places) ==
    {tasks[n].key : n \in {k \in DOMAIN tasks :
                            tasks[k].key.process = p /\ tasks[k].place \in places}}

Schedules == [p \in {q \in Processes : Definition[q].byCron} |->
                 ScheduleOf(Definition[p].cron)]
OccurrenceOf == [p \in Processes |-> [t \in Instants |->
    IF Definition[p].byCron THEN OccurrenceAtOrBefore(Schedules[p], t)
    ELSE Bucket(Seconds(Definition[p].interval), t)]]

\* Every order in which a check may list what it found.
Listings(found) ==
    {f \in [1 .. Cardinality(found) -> found] : {f[n] : n \in DOMAIN f} = found}

Init ==
    /\ now \in {t \in Instants : \A u \in Instants : t <= u}
    /\ standing = [p \in Processes |-> {}]
    /\ up = TRUE
    /\ last = [p \in Processes |-> NoOccurrence]
    /\ seen = [p \in Processes |-> {}]
    /\ batch = <<>>
    /\ tasks = <<>>
    /\ changes = 0 /\ troubles = 0
    /\ polled = last
    /\ owed = [p \in Processes |-> {}]

----------------------------------------------------------------------------
\* The world: time passes, the clock is set back, conditions come and go.
Pass ==
    /\ \E t \in Instants : t > now /\ now' = t
    /\ UNCHANGED <<standing, up, memory, tasks, counters, polled, owed>>

SetBack ==
    /\ troubles < MaxTroubles
    /\ \E t \in Instants : t < now /\ now' = t
    /\ troubles' = troubles + 1
    /\ UNCHANGED <<standing, up, memory, tasks, changes, polled, owed>>

Change(p) ==
    /\ changes < MaxChanges
    /\ ~Definition[p].always
    /\ \E c \in Conditions :
          standing' = [standing EXCEPT
                         ![p] = IF c \in @ THEN @ \ {c} ELSE @ \cup {c}]
    /\ changes' = changes + 1
    /\ UNCHANGED <<now, up, memory, tasks, troubles, polled, owed>>

\* Long after a task has settled the retention archives it.
Archive(n) ==
    /\ up /\ tasks[n].place = "kept"
    /\ tasks' = [tasks EXCEPT ![n].place = "archived"]
    /\ UNCHANGED <<now, standing, up, memory, counters, polled, owed>>

----------------------------------------------------------------------------
\* A tick.  The occurrence is remembered before the check is asked.
Fresh(p) == OccurrenceOf[p][now] \notin {NoOccurrence, last[p]}

Occurs(p) ==
    /\ up /\ batch = <<>> /\ Fresh(p)
    /\ last' = [last EXCEPT ![p] = OccurrenceOf[p][now]]
    /\ polled' = [polled EXCEPT ![p] = now]

\* What a check returns.  A check that says "always" finds nothing by name.
\* A command that fails or is too slow has found nothing.
Evaluations(p) ==
    IF Definition[p].always THEN {<<None>>}
    ELSE Listings(standing[p]) \cup (IF Definition[p].command THEN {<<>>} ELSE {})

\* A per-state key needs a state: without one no task comes of it, ever.
Keyless(p) == Definition[p].always /\ Definition[p].dedup = "per-state"

Poll(p) ==
    /\ Occurs(p)
    /\ ~Keyless(p)
    /\ \E found \in Evaluations(p) :
          /\ batch' = [n \in DOMAIN found |-> Task(p, OccurrenceOf[p][now], found[n])]
          /\ owed' = [owed EXCEPT ![p] = {batch'[n] : n \in DOMAIN found}]
    /\ UNCHANGED <<now, standing, up, seen, tasks, counters>>

PollKeyless(p) ==
    /\ Occurs(p)
    /\ Keyless(p)
    /\ owed' = [owed EXCEPT ![p] = {}]
    /\ UNCHANGED <<now, standing, up, seen, batch, tasks, counters>>

PollRaises(p) ==
    /\ Occurs(p)
    /\ troubles < MaxTroubles
    /\ troubles' = troubles + 1
    /\ owed' = [owed EXCEPT ![p] = {}]
    /\ UNCHANGED <<now, standing, up, seen, batch, tasks, changes>>

Ingest ==
    LET task == Head(batch)
        p == task.key.process
    IN  /\ up /\ batch # <<>>
        /\ batch' = Tail(batch)
        /\ IF task.key \in seen[p] THEN UNCHANGED <<seen, tasks>>
           ELSE /\ seen' = [seen EXCEPT ![p] = @ \cup {task.key}]
                /\ tasks' = Append(tasks, task)
        /\ UNCHANGED <<now, standing, up, last, counters, polled, owed>>

----------------------------------------------------------------------------
\* Mutant: a tick goes on after the stop.
StopMidTick ==
    /\ up /\ troubles < MaxTroubles
    /\ up' = FALSE
    /\ troubles' = troubles + 1
    /\ last' = [p \in Processes |-> NoOccurrence]
    /\ seen' = [p \in Processes |-> {}]
    /\ polled' = last'
    /\ owed' = [p \in Processes |-> {}]
    /\ UNCHANGED <<now, standing, batch, tasks, changes>>

\* A stop at any point, and a start.
Stop ==
    /\ up /\ troubles < MaxTroubles
    /\ up' = FALSE
    /\ troubles' = troubles + 1
    /\ batch' = <<>>
    /\ last' = [p \in Processes |-> NoOccurrence]
    /\ seen' = [p \in Processes |-> {}]
    /\ polled' = last'
    /\ owed' = [p \in Processes |-> {}]
    /\ UNCHANGED <<now, standing, tasks, changes>>

Start ==
    /\ ~up
    /\ up' = TRUE
    /\ seen' = [p \in Processes |-> KeysOf(p, Seeding)]
    /\ UNCHANGED <<now, standing, last, batch, tasks, counters, polled, owed>>

Next ==
    \/ Pass \/ SetBack
    \/ \E p \in Processes : Change(p)
    \/ \E n \in DOMAIN tasks : Archive(n)
    \/ \E p \in Processes : Poll(p) \/ PollKeyless(p) \/ PollRaises(p)
    \/ Ingest
    \/ Stop \/ Start

Spec == Init /\ [][Next]_vars

----------------------------------------------------------------------------
Keys == [process : Processes, occurrence : Nat \cup {NoOccurrence},
         found : Conditions \cup {None}]
TypeOK ==
    /\ now \in Instants
    /\ standing \in [Processes -> SUBSET Conditions]
    /\ up \in BOOLEAN
    /\ last \in [Processes -> Nat \cup {NoOccurrence}]
    /\ \A p \in Processes : \A key \in seen[p] : key \in Keys /\ key.process = p
    /\ \A n \in DOMAIN tasks :
          tasks[n].key \in Keys /\ tasks[n].place \in Places
    /\ ~up => batch = <<>>
    /\ changes <= MaxChanges /\ troubles <= MaxTroubles

\* A cron trigger fires for the newest minute its expression names and never
\* for one that is to come, and there always is one for an expression that
\* was accepted (occurrence_at_or_before, _day_matches, parse_cron).  The
\* reference asks every minute on its own: a day is named by either day field
\* when both are restricted, and otherwise by each that is.
NamesDay(day, raw) ==
    LET inField(field, lo, hi, v) == v \in FieldValues(field, lo, hi)
        date == Civil(day)
        dow == (Weekday(day) + 1) % 7
        byDate == raw[3] # Star /\ inField(raw[3], 1, 31, date.dom)
        byWeekday == raw[5] # Star /\ (\/ inField(raw[5], 0, 7, dow)
                                       \/ dow = 0 /\ inField(raw[5], 0, 7, 7))
    IN  /\ inField(raw[4], 1, 12, date.month)
        /\ byDate \/ byWeekday \/ (raw[3] = Star /\ raw[5] = Star)

Newest(p, t) ==
    LET raw == Definition[p].cron
        o == OccurrenceOf[p][t]
        named == {MinutesOf(day, hour, minute) :
                     day \in {d \in DayOf(o) .. DayOf(t) : NamesDay(d, raw)},
                     hour \in FieldValues(raw[2], 0, 23),
                     minute \in FieldValues(raw[1], 0, 59)}
    IN  o \in named /\ o <= t /\ \A c \in named : c <= t => c <= o

IsNewest == [p \in DOMAIN Schedules |-> [t \in Instants |-> Newest(p, t)]]

OccurrenceIsLatest ==
    \A p \in DOMAIN Schedules :
        /\ OccurrenceOf[p][now] # NoOccurrence
        /\ polled[p] # NoOccurrence =>
               last[p] = OccurrenceOf[p][polled[p]] /\ IsNewest[p][polled[p]]

\* One task for an occurrence, or for a condition: over stops, a clock that
\* goes back and checks that fail, a second one comes only when the first has
\* been archived (ScheduledTrigger.poll, _dedup_key, SourcePoller.seed, tick).
OneTaskPerKey ==
    \A n, k \in DOMAIN tasks :
        n < k /\ tasks[n].key = tasks[k].key => tasks[n].place = "archived"

\* What a check returned is not lost while the harness lives: each condition
\* has a task of its own, or under per-interval the occurrence has one, be it
\* from before a start (SourcePoller.tick, _task_for).
ReturnedIsTasked ==
    up /\ batch = <<>> =>
        \A p \in Processes : \A task \in owed[p] :
            \E n \in DOMAIN tasks :
                /\ tasks[n].key.process = p
                /\ IF Definition[p].dedup = "per-interval"
                   THEN tasks[n].key.occurrence = last[p]
                   ELSE tasks[n].found = task.found
=============================================================================
