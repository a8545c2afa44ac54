---------------------------- MODULE Housekeeping ----------------------------
(***************************************************************************)
(* What takes settled work off the board, next to what goes on there: the  *)
(* merge, issue and retention reconcilers and the pull request watcher of  *)
(* the event loop, the operator's request thread, and the events by which  *)
(* each tells the board what it did.  An event is emitted after the file   *)
(* was moved, so the two threads may cross.  The life of a task up to      *)
(* there is in Harness; here it moves between the queues.                  *)
(***************************************************************************)
EXTENDS Board, Naturals, Sequences, SequencesExt

CONSTANTS
    WithPr,     \* the tasks whose landing stored a pull request
    WithIssue,  \* the tasks that have a source issue
    MaxRequests, MaxErrors, MaxCrashes      \* bounds

ASSUME HousekeepingAssumption ==
    /\ Tasks \subseteq Nat /\ WithPr \subseteq Tasks /\ WithIssue \subseteq Tasks
    /\ MaxRequests \in Nat /\ MaxErrors \in Nat /\ MaxCrashes \in Nat

VARIABLES
    place,     \* place[t]: the queue of the task
    holder,    \* holder[t]: who has claimed it
    status,    \* status[t]: what its file says
    aged,      \* aged[t]: its last history entry is older than the window
    checked,   \* the candidates with a checkedAt, the oldest first
    prs,       \* prs[t]: its pull request
    closed,    \* the tasks whose source issue is closed
    loop,      \* what the event loop is in the middle of
    request,   \* what the request thread is in the middle of
    outbox,    \* outbox[w]: the event w is about to emit
    crossed,   \* observer: the tasks whose last two events changed places
    requests, errors, crashes      \* counters for the bounds

world == <<prs, closed>>
counters == <<requests, errors, crashes>>
vars == <<boardVars, place, holder, status, aged, checked, world, loop,
          request, outbox, crossed, counters>>

Workers == {"loop", "thread"}
Queues == {"new", "inbox", "step", "done", "failed", "healed", "archived", "gone"}
Free == [at |-> "free"]
Silence == [name |-> "none"]

\* Unclaimed in its queue, where a listing sees it.
Lies(t, queue) == place[t] = queue /\ holder[t] = "none"

\* What a restart shows for what lies where it does.
Column(where, stat) ==
    CASE where = "inbox" -> (CASE stat = "none"     -> "todo"
                               [] stat = "archived" -> "unknown"   \* no such column
                               [] OTHER             -> "step")
      [] where = "step" -> "step"
      [] where \in {"done", "healed"} -> "done"
      [] where = "failed" -> "failed"
      [] where = "archived" -> "resolved"
      [] OTHER -> "unknown"

Init ==
    /\ \E old \in SUBSET Tasks :      \* settled by an earlier version
          place = [t \in Tasks |-> IF t \in old THEN "healed" ELSE "new"]
    /\ holder = [t \in Tasks |-> "none"]
    /\ status = [t \in Tasks |-> "none"]
    /\ aged = [t \in Tasks |-> FALSE]
    /\ checked = <<>>
    /\ prs = [t \in Tasks |-> "open"] /\ closed = {}
    /\ loop = Free /\ request = Free
    /\ outbox = [w \in Workers |-> Silence] /\ crossed = {}
    /\ requests = 0 /\ errors = 0 /\ crashes = 0
    /\ cards = [t \in Tasks |-> Column(place[t], "none")]
    /\ client = "away" /\ slot = FALSE /\ fresh = FALSE

-----------------------------------------------------------------------------
(* Events.                                                                 *)

Other(w) == CHOOSE v \in Workers : v # w
Pending(w, t) == outbox[w] # Silence /\ outbox[w].task = t

\* It comes `second' when the other worker still has an older one of the task.
Event(w, name, t, column) ==
    outbox' = [outbox EXCEPT
        ![w] = [name |-> name, task |-> t, column |-> column,
                order |-> IF Pending(Other(w), t) THEN "second" ELSE "first"]]

\* An event that the other worker's newer one has overtaken is told `late'.
Emit(w) ==
    /\ outbox[w] # Silence
    /\ LET e == outbox[w]
           other == outbox[Other(w)]
           left == IF ~Pending(Other(w), e.task) THEN other
                   ELSE [other EXCEPT !.order = IF e.order = "second" THEN "late"
                                                ELSE "first"]
       IN /\ Sink(e.name, e.task, e.column)
          /\ outbox' = [outbox EXCEPT ![w] = Silence, ![Other(w)] = left]
          /\ crossed' = IF e.order = "late" THEN crossed \cup {e.task}
                        ELSE crossed \ {e.task}
    /\ UNCHANGED <<client, place, holder, status, aged, checked, world,
                   loop, request, counters>>

-----------------------------------------------------------------------------
(* The world, and the work on the tasks.                                   *)

\* Only what may still matter to a reconciler changes.
StillCounts(t) == place[t] \notin {"new", "archived", "gone"}

Ages(t) ==
    /\ ~aged[t] /\ place[t] \in {"done", "healed"}
    /\ aged' = [aged EXCEPT ![t] = TRUE]
    /\ UNCHANGED <<boardVars, place, holder, status, checked, world, loop,
                   request, outbox, crossed, counters>>

PrEnds(t, how) ==
    /\ t \in WithPr /\ StillCounts(t)
    /\ prs[t] = "open"
    /\ prs' = [prs EXCEPT ![t] = how]
    /\ UNCHANGED <<boardVars, place, holder, status, aged, checked, closed,
                   loop, request, outbox, crossed, counters>>

IssueCloses(t) ==
    /\ t \in WithIssue \ closed /\ StillCounts(t)
    /\ closed' = closed \cup {t}
    /\ UNCHANGED <<boardVars, place, holder, status, aged, checked, prs,
                   loop, request, outbox, crossed, counters>>

Turn == loop = Free /\ outbox["loop"] = Silence

\* A queue, the one a task goes on to, its status and column then, the event.
Moves ==
    {<<"new", "inbox", "none", "todo", "ingested">>,
     <<"inbox", "step", "step", "step", "dispatched">>,
     <<"inbox", "done", "end", "done", "finished">>,
     <<"inbox", "failed", "failed", "failed", "failed">>,
     <<"step", "inbox", "step", "step", "consumed">>,
     <<"step", "failed", "failed", "failed", "failed">>,
     <<"failed", "done", "end", "done", "healed">>}

Work(t) ==
    /\ Turn
    /\ \E m \in Moves :
          /\ Lies(t, m[1])
          /\ m[1] = "inbox" /\ status[t] = "archived" => m[2] = "failed"
          /\ place' = [place EXCEPT ![t] = m[2]]
          /\ status' = [status EXCEPT ![t] = m[3]]
          /\ Event("loop", m[5], t, m[4])
    /\ aged' = [aged EXCEPT ![t] = FALSE]
    /\ checked' = RemoveFirst(checked, t)
    /\ UNCHANGED <<boardVars, holder, world, loop, request, crossed, counters>>

-----------------------------------------------------------------------------
(* The reconcilers: a claim, and what comes of it.                         *)

Claims(t, task) ==
    /\ holder' = [holder EXCEPT ![t] = "loop"]
    /\ loop' = task
    /\ UNCHANGED <<boardVars, place, status, aged, checked, world, request,
                   outbox, crossed, counters>>

\* Mutant: whatever is done is taken for a candidate.
CandidatesAll == {t \in Tasks : Lies(t, "done")}

\* What MergeReconciler.tick() finds in done/, the least recently checked first.
Candidates == {t \in WithPr : Lies(t, "done")}
Earlier(t, u) ==
    \/ t \notin Range(checked) /\ (u \in Range(checked) \/ t < u)
    \/ \E i, j \in DOMAIN checked : i < j /\ checked[i] = t /\ checked[j] = u
First(t) == t \in Candidates /\ \A u \in Candidates \ {t} : Earlier(t, u)

\* What the checks of a pull request answer.
Merged(t) == prs[t] = "merged"
Ended(t) == prs[t] # "open"

MergeClaims ==
    /\ Turn
    /\ \E t \in Candidates : First(t) /\ Claims(t, [at |-> "merge", task |-> t])

\* Mutant: a candidate that is still open is not stamped.
MergeOpenUnstamped ==
    /\ loop.at = "merge" /\ ~Merged(loop.task)
    /\ holder' = [holder EXCEPT ![loop.task] = "none"]
    /\ loop' = Free
    /\ Event("loop", "rechecked", loop.task, "done")
    /\ UNCHANGED <<boardVars, place, status, aged, checked, world, request,
                   crossed, counters>>

\* Not merged: released, with the stamp that lets others go first.
MergeOpen ==
    /\ loop.at = "merge" /\ ~Merged(loop.task)
    /\ holder' = [holder EXCEPT ![loop.task] = "none"]
    /\ checked' = Append(RemoveFirst(checked, loop.task), loop.task)
    /\ loop' = Free
    /\ Event("loop", "rechecked", loop.task, "done")
    /\ UNCHANGED <<boardVars, place, status, aged, world, request, crossed,
                   counters>>

\* The check raises: released as it was, and looked at again first.
MergeRaises ==
    /\ errors < MaxErrors /\ errors' = errors + 1
    /\ loop.at = "merge"
    /\ holder' = [holder EXCEPT ![loop.task] = "none"]
    /\ loop' = Free
    /\ Event("loop", "rechecked", loop.task, "done")
    /\ UNCHANGED <<boardVars, place, status, aged, checked, world, request,
                   crossed, requests, crashes>>

Archived(t, stat) ==
    /\ place' = [place EXCEPT ![t] = "archived"]
    /\ holder' = [holder EXCEPT ![t] = "none"]
    /\ status' = [status EXCEPT ![t] = stat]
    /\ aged' = [aged EXCEPT ![t] = FALSE]
    /\ loop' = Free
    /\ Event("loop", "archived", t, "archived")
    /\ UNCHANGED <<boardVars, checked, world, request, crossed, counters>>

MergeArchives ==
    /\ loop.at = "merge" /\ Merged(loop.task)
    /\ Archived(loop.task, status[loop.task])

\* The pull request watcher: merged or closed.
WatchClaims(t) ==
    /\ Turn
    /\ t \in WithPr /\ Ended(t) /\ Lies(t, "done")
    /\ Claims(t, [at |-> "resolve", task |-> t])

\* The issue reconciler asks GitHub before it claims: the queue it found the
\* task in need not be the task's any more.
IssueSees(t) ==
    /\ Turn
    /\ t \in closed
    /\ \E queue \in {"inbox", "step", "done", "failed"} :
          /\ Lies(t, queue)
          /\ loop' = [at |-> "claim", task |-> t, queue |-> queue]
    /\ UNCHANGED <<boardVars, place, holder, status, aged, checked, world,
                   request, outbox, crossed, counters>>

IssueClaims ==
    /\ loop.at = "claim"
    /\ IF Lies(loop.task, loop.queue)
       THEN Claims(loop.task, [at |-> "resolve", task |-> loop.task])
       ELSE /\ loop' = Free
            /\ UNCHANGED <<boardVars, place, holder, status, aged, checked,
                           world, request, outbox, crossed, counters>>

RetentionClaims(t) ==
    /\ Turn
    /\ aged[t]
    /\ Lies(t, "done") \/ Lies(t, "healed")
    /\ Claims(t, [at |-> "resolve", task |-> t])

Resolve == loop.at = "resolve" /\ Archived(loop.task, "archived")

-----------------------------------------------------------------------------
(* The request thread: resume, restart, delete.                            *)

RequestClaims(t) ==
    /\ request = Free /\ outbox["thread"] = Silence
    /\ requests < MaxRequests /\ requests' = requests + 1
    /\ holder[t] = "none"
    /\ \/ place[t] \in {"done", "failed"} /\ request' = [at |-> "resume", task |-> t]
       \/ place[t] = "failed" /\ request' = [at |-> "restart", task |-> t]
       \/ /\ place[t] \in {"inbox", "step", "done", "failed"}
          /\ request' = [at |-> "delete", task |-> t]
    /\ holder' = [holder EXCEPT ![t] = "thread"]
    /\ UNCHANGED <<boardVars, place, status, aged, checked, world, loop,
                   outbox, crossed, errors, crashes>>

SendsBack ==
    /\ request.at \in {"resume", "restart"}
    /\ LET t == request.task
       IN /\ place' = [place EXCEPT ![t] = "inbox"]
          /\ status' = [status EXCEPT ![t] =
                            IF request.at = "resume" THEN "step" ELSE "none"]
          /\ holder' = [holder EXCEPT ![t] = "none"]
          /\ aged' = [aged EXCEPT ![t] = FALSE]
          /\ Event("thread", "resumed", t, "todo")
    /\ request' = Free
    /\ UNCHANGED <<boardVars, checked, world, loop, crossed, counters>>

Deletes ==
    /\ request.at = "delete"
    /\ place' = [place EXCEPT ![request.task] = "gone"]
    /\ holder' = [holder EXCEPT ![request.task] = "none"]
    /\ Event("thread", "deleted", request.task, "none")
    /\ request' = Free
    /\ UNCHANGED <<boardVars, status, aged, checked, world, loop, crossed, counters>>

-----------------------------------------------------------------------------

\* Mutant: done/ is not walked by recovery.
RecoveredSome == {"inbox", "step", "failed"}

Recovered == {"inbox", "step", "done", "failed"}

\* The process dies and is started again.  An archiving may have written its
\* status without the move.
Restart ==
    /\ crashes < MaxCrashes /\ crashes' = crashes + 1
    /\ \/ UNCHANGED status
       \/ loop.at = "resolve" /\ status' = [status EXCEPT ![loop.task] = "archived"]
    /\ holder' = [t \in Tasks |-> IF holder[t] # "none" /\ place[t] \notin Recovered
                                  THEN "nobody" ELSE "none"]
    /\ Hydrate([t \in Tasks |-> IF holder'[t] = "none"
                                THEN Column(place[t], status'[t]) ELSE "unknown"])
    /\ loop' = Free /\ request' = Free
    /\ outbox' = [w \in Workers |-> Silence] /\ crossed' = {}
    /\ UNCHANGED <<place, aged, checked, world, requests, errors>>

Page ==
    /\ Connect \/ Wake \/ Fetch \/ Leave
    /\ UNCHANGED <<place, holder, status, aged, checked, world, loop, request,
                   outbox, crossed, counters>>

Settle == MergeOpen \/ MergeArchives \/ IssueClaims \/ Resolve

Next ==
    \/ \E w \in Workers : Emit(w)
    \/ \E t \in Tasks : \/ Ages(t) \/ IssueCloses(t) \/ Work(t)
                        \/ PrEnds(t, "merged") \/ PrEnds(t, "closed")
                        \/ WatchClaims(t) \/ IssueSees(t) \/ RetentionClaims(t)
                        \/ RequestClaims(t)
    \/ MergeClaims \/ MergeRaises \/ Settle
    \/ SendsBack \/ Deletes
    \/ Restart \/ Page

\* Each loop gets its turn although the others keep taking theirs; what was
\* begun goes on.
Fairness ==
    /\ SF_vars(MergeClaims)
    /\ \A t \in Tasks : SF_vars(RetentionClaims(t))
    /\ WF_vars(Settle) /\ WF_vars(SendsBack \/ Deletes)
    /\ \A w \in Workers : WF_vars(Emit(w))

Spec == Init /\ [][Next]_vars /\ Fairness

-----------------------------------------------------------------------------
(* Properties.                                                             *)

\* Every variable has its type; what is begun and what is announced refer to
\* tasks there are, and the stamped candidates are stamped once each.
TypeOK ==
    /\ BoardTypeOK
    /\ place \in [Tasks -> Queues]
    /\ holder \in [Tasks -> Workers \cup {"none", "nobody"}]
    /\ status \in [Tasks -> {"none", "step", "end", "failed", "archived"}]
    /\ aged \in [Tasks -> BOOLEAN]
    /\ Range(checked) \subseteq WithPr /\ IsInjective(checked)
    /\ prs \in [Tasks -> {"open", "merged", "closed"}] /\ closed \subseteq Tasks
    /\ loop = Free \/ (loop.task \in Tasks /\ loop.at \in {"merge", "claim", "resolve"})
    /\ request = Free
       \/ (request.task \in Tasks /\ request.at \in {"resume", "restart", "delete"})
    /\ \A w \in Workers : outbox[w] = Silence \/ outbox[w].task \in Tasks
    /\ crossed \subseteq Tasks /\ counters \in Nat \X Nat \X Nat

\* A task that went back to the inbox shows as sent back, or, after a restart,
\* in the column it will be dispatched from.
MayShow(t) ==
    IF holder[t] = "nobody" THEN Shown
    ELSE {Column(place[t], status[t])}
         \cup (IF place[t] = "inbox" THEN {"todo"} ELSE {})
         \cup (IF place[t] = "inbox" /\ status[t] = "archived" THEN Shown ELSE {})

\* Once both threads have told what they did, the board has every task where
\* its file is, through claims that lose, requests and restarts; except a task
\* whose last two events, of the two threads, were told in the other order.
BoardTellsPlace ==
    \A t \in Tasks \ crossed :
        Pending("loop", t) \/ Pending("thread", t) \/ cards[t] \in MayShow(t)

\* What is claimed has a holder that is at work on it, whoever crashed; except
\* in the healed/ of an earlier version, which recovery does not walk.
ClaimedIsAttended ==
    \A t \in Tasks :
        \/ holder[t] = "none"
        \/ holder[t] = "loop" /\ loop # Free /\ loop.task = t
        \/ holder[t] = "thread" /\ request # Free /\ request.task = t
        \/ holder[t] = "nobody" /\ place[t] = "healed"

\* A merged pull request's task leaves done/, whatever other pull requests stay
\* open beside it, as long as the checks do not keep raising.
MergedLeavesDone ==
    \A t \in WithPr : place[t] = "done" /\ prs[t] = "merged" ~> place[t] # "done"

\* A task that has been settled for the whole window leaves done/: no recheck
\* starts its window again.
AgedLeavesDone ==
    \A t \in Tasks : place[t] = "done" /\ aged[t] ~> place[t] # "done"

\* Nothing that is over stays in done/ for good.
SettledLeavesDone == MergedLeavesDone /\ AgedLeavesDone
=============================================================================
