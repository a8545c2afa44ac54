--------------------------- MODULE FsQueueProofs ---------------------------
(***************************************************************************)
(* FsQueue's safety properties, for every set of tasks, clients and queues *)
(* and every bound on revisions.                                           *)
(***************************************************************************)
EXTENDS FsQueue, TLAPS

(* What a client is about while it is not idle, and what the file it is    *)
(* about to publish looks like: the facts the properties need about the    *)
(* middle of an operation.                                                 *)
ClientShape ==
    \A a \in Actors :
        /\ pc[a] # Idle => up
        /\ pc[a] = Sweeping => queue[a] \in Guarded
        /\ pc[a] = Written =>
             \/ held[queue[a]][task[a]] = Corrupt
             \/ held[queue[a]][task[a]].lock = NoLock

(* The inductive invariant: the properties the runs check, and the shape of *)
(* a client's operation that makes them inductive.                         *)
IInv ==
    /\ TypeOK
    /\ gone \subseteq born
    /\ ClientShape
    /\ OneFile
    /\ NothingLost
    /\ ExclusiveClaim
    /\ NoneStranded
    /\ UnclaimedIsUnlocked

(* A file some operation writes is readable, typed and carries its lock.   *)
LEMMA FileIsContent ==
    ASSUME NEW r \in Nat, NEW l \in Actors \cup {NoLock}
    PROVE  /\ File(r, l) \in Content
           /\ File(r, l).lock = l
           /\ File(r, l).rev = r
           /\ File(r, l) \notin {NoFile, Corrupt}
BY MarkerAssumption DEF File, Content

(* A file that is there and parses has a revision and a lock.              *)
LEMMA ReadableIsContent ==
    ASSUME NEW f \in Content \cup {NoFile, Corrupt}, f \notin {NoFile, Corrupt}
    PROVE  f \in Content /\ f.rev \in Nat /\ f.lock \in Actors \cup {NoLock}
BY DEF Content

-----------------------------------------------------------------------------
(* Every variable keeps its type: the initial state has it and each        *)
(* operation writes files and client records of the declared shape.        *)
THEOREM TypeCorrect == Spec => []TypeOK
<1> USE DEF TypeOK, Begin, Finish, Goto, clients,
            Idle, Listed, Renamed, Working, Written, Sweeping
<1>1. Init => TypeOK
  BY DEF Init
<1>2. TypeOK /\ [Next]_vars => TypeOK'
  <2> SUFFICES ASSUME TypeOK, [Next]_vars PROVE TypeOK'
    OBVIOUS
  <2>1. ASSUME NEW t \in Tasks, Put(t) PROVE TypeOK'
    BY <2>1, FileIsContent DEF Put
  <2>2. ASSUME NEW a \in Actors, NEW q \in Queues, NEW t \in Tasks,
               List(a, q, t)
        PROVE TypeOK'
    <3>1. root[q][t].rev \in Nat
      BY <2>2, ReadableIsContent DEF List
    <3> QED
      BY <2>2, <3>1 DEF List
  <2>3. ASSUME NEW a \in Actors, NEW q \in Queues, NEW t \in Tasks,
               ListCorrupt(a, q, t)
        PROVE TypeOK'
    BY <2>3 DEF ListCorrupt
  <2>4. ASSUME NEW a \in Actors, Quarantine(a) PROVE TypeOK'
    <3>1. root' \in [Queues -> [Tasks -> Content \cup {NoFile, Corrupt}]]
      <4>1. CASE root[queue[a]][task[a]] = NoFile
        BY <2>4, <4>1 DEF Quarantine
      <4>2. CASE root[queue[a]][task[a]] # NoFile
        <5> DEFINE f == root[queue[a]][task[a]]
                   emptied == [root EXCEPT ![queue[a]][task[a]] = NoFile]
        <5>1. task[a] \in Tasks /\ queue[a] \in Queues
          BY <2>4 DEF Quarantine
        <5>2. f \in Content \cup {NoFile, Corrupt}
          BY <5>1
        <5>3. emptied \in [Queues -> [Tasks -> Content \cup {NoFile, Corrupt}]]
          BY <5>1
        <5>4. root' = [emptied EXCEPT ![Failed][task[a]] = f]
          BY <2>4, <4>2 DEF Quarantine
        <5> HIDE DEF f, emptied
        <5> QED
          BY <5>1, <5>2, <5>3, <5>4, QueueAssumption
      <4> QED
        BY <4>1, <4>2
    <3> QED
      BY <2>4, <3>1 DEF Quarantine
  <2>5. ASSUME NEW a \in Actors, ClaimRename(a) PROVE TypeOK'
    BY <2>5 DEF ClaimRename
  <2>6. ASSUME NEW a \in Actors, ClaimLost(a) PROVE TypeOK'
    BY <2>6 DEF ClaimLost
  <2>7. ASSUME NEW a \in Actors, ClaimWrite(a) PROVE TypeOK'
    BY <2>7, FileIsContent DEF ClaimWrite
  <2>8. ASSUME NEW a \in Actors, TransferWrite(a) PROVE TypeOK'
    BY <2>8, FileIsContent DEF TransferWrite
  <2>9. ASSUME NEW a \in Actors, Discard(a) PROVE TypeOK'
    BY <2>9 DEF Discard
  <2>10. ASSUME NEW a \in Actors, NEW q \in Queues, TransferRename(a, q)
         PROVE TypeOK'
    BY <2>10 DEF TransferRename
  <2>11. ASSUME NEW q \in Queues, NEW t \in Tasks, Damage(q, t) PROVE TypeOK'
    <3>1. CASE root' = [root EXCEPT ![q][t] = Corrupt] /\ held' = held
      BY <2>11, <3>1 DEF Damage
    <3>2. CASE held' = [held EXCEPT ![q][t] = Corrupt] /\ root' = root
      BY <2>11, <3>2 DEF Damage
    <3> QED
      BY <2>11, <3>1, <3>2 DEF Damage
  <2>12. ASSUME Crash PROVE TypeOK'
    BY <2>12 DEF Crash
  <2>13. ASSUME NEW q \in Queues, NEW t \in Tasks, RecoverWrite(q, t)
         PROVE TypeOK'
    BY <2>13 DEF RecoverWrite, Content
  <2>14. ASSUME NEW q \in Queues, NEW t \in Tasks, RecoverRename(q, t)
         PROVE TypeOK'
    BY <2>14 DEF RecoverRename
  <2>15. ASSUME NEW q \in Queues, NEW t \in Tasks, RecoverCorrupt(q, t)
         PROVE TypeOK'
    BY <2>15 DEF RecoverCorrupt
  <2>16. ASSUME Start PROVE TypeOK'
    BY <2>16 DEF Start
  <2>17. CASE UNCHANGED vars
    BY <2>17 DEF vars
  <2>18. ASSUME NEW t \in Tasks, SubmitOpen(t) PROVE TypeOK'
    BY <2>18, QueueAssumption DEF SubmitOpen
  <2>19. ASSUME NEW t \in Tasks, SubmitWrite(t) PROVE TypeOK'
    BY <2>19, FileIsContent DEF SubmitWrite
  <2>20. ASSUME NEW t \in Tasks, SubmitDies(t) PROVE TypeOK'
    BY <2>20 DEF SubmitDies
  <2> QED
    BY <2>1, <2>2, <2>3, <2>4, <2>5, <2>6, <2>7, <2>8, <2>9, <2>10, <2>11,
       <2>12, <2>13, <2>14, <2>15, <2>16, <2>17, <2>18, <2>19, <2>20
    DEF Next, Client, Restart
<1> QED
  BY <1>1, <1>2, PTL DEF Spec

-----------------------------------------------------------------------------
(* One step keeps the inductive invariant.  Each operation has one step    *)
(* per conjunct.                                                           *)
LEMMA Step == IInv /\ TypeOK' /\ [Next]_vars => IInv'
<1> SUFFICES ASSUME IInv, TypeOK', [Next]_vars PROVE IInv'
  OBVIOUS
<1> USE DEF IInv, TypeOK, Holding, Begin, Finish, Goto, clients,
            Idle, Listed, Renamed, Working, Written, Sweeping
<1>1. ASSUME NEW t \in Tasks, Put(t) PROVE IInv'
  <2>1. ClientShape'
    BY <1>1 DEF Put, ClientShape
  <2>2. OneFile'
    BY <1>1 DEF Put, OneFile, NothingLost, InRoot, InHeld
  <2>3. NothingLost'
    BY <1>1, FileIsContent DEF Put, NothingLost, InRoot, InHeld
  <2>4. ExclusiveClaim'
    BY <1>1 DEF Put, ExclusiveClaim
  <2>5. NoneStranded'
    BY <1>1 DEF Put, NoneStranded
  <2>6. UnclaimedIsUnlocked'
    BY <1>1, FileIsContent DEF Put, UnclaimedIsUnlocked
  <2> QED BY <1>1, <2>1, <2>2, <2>3, <2>4, <2>5, <2>6 DEF Put
<1>2. ASSUME NEW a \in Actors, NEW q \in Queues, NEW t \in Tasks, List(a, q,
             t)
      PROVE IInv'
  <2>1. ClientShape'
    BY <1>2 DEF List, ClientShape
  <2>2. OneFile'
    BY <1>2 DEF List, OneFile, InRoot, InHeld
  <2>3. NothingLost'
    BY <1>2 DEF List, NothingLost, InRoot, InHeld
  <2>4. ExclusiveClaim'
    BY <1>2 DEF List, ExclusiveClaim
  <2>5. NoneStranded'
    <3>1. \A b \in Actors : Holding(b) =>
            Holding(b)' /\ queue'[b] = queue[b] /\ task'[b] = task[b]
      BY <1>2 DEF List
    <3> QED
      BY <1>2, <3>1 DEF List, NoneStranded
  <2>6. UnclaimedIsUnlocked'
    BY <1>2 DEF List, UnclaimedIsUnlocked
  <2> QED BY <1>2, <2>1, <2>2, <2>3, <2>4, <2>5, <2>6 DEF List
<1>3. ASSUME NEW a \in Actors, NEW q \in Queues, NEW t \in Tasks,
             ListCorrupt(a, q, t)
      PROVE IInv'
  <2>1. ClientShape'
    BY <1>3 DEF ListCorrupt, ClientShape
  <2>2. OneFile'
    BY <1>3 DEF ListCorrupt, OneFile, InRoot, InHeld
  <2>3. NothingLost'
    BY <1>3 DEF ListCorrupt, NothingLost, InRoot, InHeld
  <2>4. ExclusiveClaim'
    BY <1>3 DEF ListCorrupt, ExclusiveClaim
  <2>5. NoneStranded'
    <3>1. \A b \in Actors : Holding(b) =>
            Holding(b)' /\ queue'[b] = queue[b] /\ task'[b] = task[b]
      BY <1>3 DEF ListCorrupt
    <3> QED
      BY <1>3, <3>1 DEF ListCorrupt, NoneStranded
  <2>6. UnclaimedIsUnlocked'
    BY <1>3 DEF ListCorrupt, UnclaimedIsUnlocked
  <2> QED BY <1>3, <2>1, <2>2, <2>3, <2>4, <2>5, <2>6 DEF ListCorrupt
<1>4. ASSUME NEW a \in Actors, Quarantine(a) PROVE IInv'
  <2>7. /\ task[a] \in Tasks /\ queue[a] \in Guarded
        /\ queue[a] \in Queues /\ Failed \in Queues /\ queue[a] # Failed
        /\ held' = held /\ born' = born /\ gone' = gone
    BY <1>4, QueueAssumption DEF Quarantine, ClientShape
  <2>8. ASSUME root[queue[a]][task[a]] # NoFile
        PROVE  \A q \in Queues, t \in Tasks :
                 root'[q][t] = IF t # task[a] THEN root[q][t]
                               ELSE IF q = Failed THEN root[queue[a]][task[a]]
                               ELSE IF q = queue[a] THEN NoFile
                               ELSE root[q][t]
    <3> DEFINE f == root[queue[a]][task[a]]
               emptied == [root EXCEPT ![queue[a]][task[a]] = NoFile]
    <3>1. root' = [emptied EXCEPT ![Failed][task[a]] = f]
      BY <1>4, <2>8 DEF Quarantine
    <3>2. \A q \in Queues, t \in Tasks :
             emptied[q][t] = IF t = task[a] /\ q = queue[a] THEN NoFile
                             ELSE root[q][t]
      BY <2>7
    <3>3. emptied \in [Queues -> [Tasks -> Content \cup {NoFile, Corrupt}]]
      BY <2>7
    <3> HIDE DEF emptied
    <3>4. \A q \in Queues, t \in Tasks :
             root'[q][t] = IF t = task[a] /\ q = Failed THEN f
                           ELSE emptied[q][t]
      BY <2>7, <3>1, <3>3
    <3> QED
      BY <2>7, <3>2, <3>4
  <2>1. ClientShape'
    BY <1>4 DEF Quarantine, ClientShape
  <2>2. OneFile'
    <3>1. CASE root[queue[a]][task[a]] = NoFile
      BY <1>4, <3>1 DEF Quarantine, OneFile, InRoot, InHeld
    <3>2. CASE root[queue[a]][task[a]] # NoFile
      <4>3. \A q \in Queues : /\ root'[q][task[a]] # NoFile => q = Failed
                             /\ held'[q][task[a]] = NoFile
        <5>1. \A q \in Queues : root[q][task[a]] # NoFile => q = queue[a]
          BY <3>2, <2>7, QueueAssumption DEF OneFile, InRoot
        <5>2. \A q \in Queues : held[q][task[a]] = NoFile
          BY <3>2, <2>7, QueueAssumption DEF OneFile, InRoot, InHeld
        <5> QED
          BY <3>2, <2>7, <2>8, <5>1, <5>2
      <4>4. \A t \in Tasks, q \in Queues : t # task[a] =>
               root'[q][t] = root[q][t] /\ held'[q][t] = held[q][t]
        BY <3>2, <2>7, <2>8
      <4> QED
        <5> HIDE DEF TypeOK
        <5> QED
          BY <4>3, <4>4 DEF OneFile, InRoot, InHeld
    <3> QED
      BY <3>1, <3>2
  <2>3. NothingLost'
    <3>1. CASE root[queue[a]][task[a]] = NoFile
      BY <1>4, <3>1 DEF Quarantine, NothingLost, InRoot, InHeld
    <3>2. CASE root[queue[a]][task[a]] # NoFile
      <4>3. task[a] \in born \ gone
        BY <3>2, <2>7 DEF NothingLost, InRoot
      <4> QED
        <5>1. root'[Failed][task[a]] # NoFile /\ Failed \in Queues
          BY <3>2, <2>7, <2>8, QueueAssumption
        <5>2. \A q \in Queues, t \in Tasks :
                  t # task[a] => root'[q][t] = root[q][t]
          BY <3>2, <2>8
        <5> HIDE DEF TypeOK
        <5> QED
          BY <2>7, <4>3, <5>1, <5>2 DEF IInv, NothingLost, InRoot, InHeld
    <3> QED
      BY <3>1, <3>2
  <2>4. ExclusiveClaim'
    BY <1>4 DEF Quarantine, ExclusiveClaim
  <2>5. NoneStranded'
    <3>1. \A b \in Actors : Holding(b) =>
            Holding(b)' /\ queue'[b] = queue[b] /\ task'[b] = task[b]
      BY <1>4 DEF Quarantine
    <3> QED
      BY <1>4, <3>1 DEF Quarantine, NoneStranded
  <2>6. UnclaimedIsUnlocked'
    <3>1. CASE root[queue[a]][task[a]] = NoFile
      BY <1>4, <3>1 DEF Quarantine, UnclaimedIsUnlocked
    <3>2. CASE root[queue[a]][task[a]] # NoFile
      BY <1>4, <3>2 DEF Quarantine, UnclaimedIsUnlocked
    <3> QED
      BY <3>1, <3>2
  <2> QED BY <1>4, <2>1, <2>2, <2>3, <2>4, <2>5, <2>6 DEF Quarantine
<1>5. ASSUME NEW a \in Actors, ClaimRename(a) PROVE IInv'
  <2>7. /\ task[a] \in Tasks /\ queue[a] \in Queues
        /\ \A b \in Actors : Holding(b) => task[b] # task[a]
    BY <1>5 DEF ClaimRename, OneFile, ExclusiveClaim, InRoot, InHeld
  <2>8. \A b \in Actors : b # a =>
            pc'[b] = pc[b] /\ task'[b] = task[b] /\ queue'[b] = queue[b]
    BY <1>5 DEF ClaimRename
  <2>9. \A b \in Actors : Holding(b) =>
            /\ task[b] \in Tasks /\ queue[b] \in Queues
            /\ held'[queue[b]][task[b]] = held[queue[b]][task[b]]
    BY <1>5, <2>7 DEF ClaimRename
  <2>10. /\ pc'[a] = Renamed /\ task'[a] = task[a] /\ queue'[a] = queue[a]
         /\ held'[queue[a]][task[a]] # NoFile
         /\ up' = up
    BY <1>5, <2>7 DEF ClaimRename
  <2>1. ClientShape'
    BY <1>5, <2>7, <2>8, <2>9, <2>10 DEF ClaimRename, ClientShape
  <2>2. OneFile'
    BY <1>5 DEF ClaimRename, OneFile, InRoot, InHeld
  <2>3. NothingLost'
    BY <1>5 DEF ClaimRename, NothingLost, InRoot, InHeld
  <2>4. ExclusiveClaim'
    <3>1. \A b \in Actors : Holding(b)' =>
             /\ task'[b] = task[b] /\ queue'[b] = queue[b]
             /\ b = a \/ (Holding(b) /\ task[b] # task[a])
      BY <2>7, <2>8, <2>10
    <3>2. \A b, c \in Actors :
            Holding(b)' /\ Holding(c)' /\ task'[b] = task'[c] => b = c
      BY <3>1 DEF ExclusiveClaim
    <3>3. \A b \in Actors : Holding(b)' => held'[queue'[b]][task'[b]] # NoFile
      BY <3>1, <2>9, <2>10 DEF ExclusiveClaim
    <3> QED
      BY <3>2, <3>3 DEF ExclusiveClaim
  <2>5. NoneStranded'
    BY <1>5 DEF ClaimRename, NoneStranded
  <2>6. UnclaimedIsUnlocked'
    BY <1>5 DEF ClaimRename, UnclaimedIsUnlocked
  <2> QED BY <1>5, <2>1, <2>2, <2>3, <2>4, <2>5, <2>6 DEF ClaimRename
<1>6. ASSUME NEW a \in Actors, ClaimLost(a) PROVE IInv'
  <2>1. ClientShape'
    BY <1>6 DEF ClaimLost, ClientShape
  <2>2. OneFile'
    BY <1>6 DEF ClaimLost, OneFile, InRoot, InHeld
  <2>3. NothingLost'
    BY <1>6 DEF ClaimLost, NothingLost, InRoot, InHeld
  <2>4. ExclusiveClaim'
    BY <1>6 DEF ClaimLost, ExclusiveClaim
  <2>5. NoneStranded'
    <3>1. \A b \in Actors : Holding(b) =>
            Holding(b)' /\ queue'[b] = queue[b] /\ task'[b] = task[b]
      BY <1>6 DEF ClaimLost
    <3> QED
      BY <1>6, <3>1 DEF ClaimLost, NoneStranded
  <2>6. UnclaimedIsUnlocked'
    BY <1>6 DEF ClaimLost, UnclaimedIsUnlocked
  <2> QED BY <1>6, <2>1, <2>2, <2>3, <2>4, <2>5, <2>6 DEF ClaimLost
<1>7. ASSUME NEW a \in Actors, ClaimWrite(a) PROVE IInv'
  <2>1. ClientShape'
    BY <1>7 DEF ClaimWrite, ClientShape, ExclusiveClaim
  <2>2. OneFile'
    BY <1>7 DEF ClaimWrite, OneFile, ExclusiveClaim, InRoot, InHeld
  <2>3. NothingLost'
    BY <1>7, FileIsContent DEF ClaimWrite, ExclusiveClaim, NothingLost,
       InRoot, InHeld
  <2>4. ExclusiveClaim'
    BY <1>7, FileIsContent DEF ClaimWrite, ExclusiveClaim
  <2>5. NoneStranded'
    BY <1>7 DEF ClaimWrite, NoneStranded
  <2>6. UnclaimedIsUnlocked'
    BY <1>7 DEF ClaimWrite, UnclaimedIsUnlocked
  <2> QED BY <1>7, <2>1, <2>2, <2>3, <2>4, <2>5, <2>6 DEF ClaimWrite
<1>8. ASSUME NEW a \in Actors, TransferWrite(a) PROVE IInv'
  <2>1. ClientShape'
    BY <1>8, FileIsContent DEF TransferWrite, ClientShape
  <2>2. OneFile'
    BY <1>8 DEF TransferWrite, OneFile, ExclusiveClaim, InRoot, InHeld
  <2>3. NothingLost'
    BY <1>8, FileIsContent DEF TransferWrite, ExclusiveClaim, NothingLost,
       InRoot, InHeld
  <2>4. ExclusiveClaim'
    BY <1>8, FileIsContent DEF TransferWrite, ExclusiveClaim
  <2>5. NoneStranded'
    BY <1>8 DEF TransferWrite, NoneStranded
  <2>6. UnclaimedIsUnlocked'
    BY <1>8 DEF TransferWrite, UnclaimedIsUnlocked
  <2> QED BY <1>8, <2>1, <2>2, <2>3, <2>4, <2>5, <2>6 DEF TransferWrite
<1>9. ASSUME NEW a \in Actors, Discard(a) PROVE IInv'
  <2>1. ClientShape'
    BY <1>9 DEF Discard, ClientShape, ExclusiveClaim
  <2>2. OneFile'
    BY <1>9 DEF Discard, OneFile, InRoot, InHeld
  <2>3. NothingLost'
    BY <1>9 DEF Discard, OneFile, ExclusiveClaim, NothingLost, InRoot, InHeld
  <2>4. ExclusiveClaim'
    BY <1>9 DEF Discard, ExclusiveClaim
  <2>5. NoneStranded'
    BY <1>9 DEF Discard, NoneStranded
  <2>6. UnclaimedIsUnlocked'
    BY <1>9 DEF Discard, UnclaimedIsUnlocked
  <2> QED
    BY <1>9, <2>1, <2>2, <2>3, <2>4, <2>5, <2>6 DEF Discard, NothingLost,
       ExclusiveClaim, InHeld
<1>10. ASSUME NEW a \in Actors, NEW q \in Queues, TransferRename(a, q)
       PROVE IInv'
  <2>1. ClientShape'
    BY <1>10 DEF TransferRename, ClientShape, ExclusiveClaim
  <2>2. OneFile'
    BY <1>10 DEF TransferRename, OneFile, InRoot, InHeld
  <2>3. NothingLost'
    BY <1>10 DEF TransferRename, ExclusiveClaim, NothingLost, InRoot, InHeld
  <2>4. ExclusiveClaim'
    BY <1>10 DEF TransferRename, ExclusiveClaim
  <2>5. NoneStranded'
    BY <1>10 DEF TransferRename, NoneStranded
  <2>6. UnclaimedIsUnlocked'
    BY <1>10 DEF TransferRename, ClientShape, UnclaimedIsUnlocked
  <2> QED BY <1>10, <2>1, <2>2, <2>3, <2>4, <2>5, <2>6 DEF TransferRename
<1>11. ASSUME NEW q \in Queues, NEW t \in Tasks, Damage(q, t) PROVE IInv'
  <2>1. ClientShape'
    <3>1. CASE root[q][t] \notin {NoFile, Corrupt} /\ held' = held
                 /\ root' = [root EXCEPT ![q][t] = Corrupt]
      BY <1>11, <3>1 DEF Damage, ClientShape
    <3>2. CASE held[q][t] \notin {NoFile, Corrupt} /\ root' = root
                 /\ held' = [held EXCEPT ![q][t] = Corrupt]
      BY <1>11, <3>2 DEF Damage, ClientShape
    <3> QED
      BY <1>11, <3>1, <3>2 DEF Damage
  <2>2. OneFile'
    <3>1. CASE root[q][t] \notin {NoFile, Corrupt} /\ held' = held
                 /\ root' = [root EXCEPT ![q][t] = Corrupt]
      BY <1>11, <3>1 DEF OneFile, InRoot, InHeld
    <3>2. CASE held[q][t] \notin {NoFile, Corrupt} /\ root' = root
                 /\ held' = [held EXCEPT ![q][t] = Corrupt]
      BY <1>11, <3>2 DEF OneFile, InRoot, InHeld
    <3> QED
      BY <1>11, <3>1, <3>2 DEF Damage
  <2>3. NothingLost'
    <3>1. CASE root[q][t] \notin {NoFile, Corrupt} /\ held' = held
                 /\ root' = [root EXCEPT ![q][t] = Corrupt]
      BY <1>11, <3>1, MarkerAssumption DEF Damage, NothingLost, InRoot,
         InHeld
    <3>2. CASE held[q][t] \notin {NoFile, Corrupt} /\ root' = root
                 /\ held' = [held EXCEPT ![q][t] = Corrupt]
      BY <1>11, <3>2, MarkerAssumption DEF Damage, NothingLost, InRoot,
         InHeld
    <3> QED
      BY <1>11, <3>1, <3>2 DEF Damage
  <2>4. ExclusiveClaim'
    <3>1. CASE root[q][t] \notin {NoFile, Corrupt} /\ held' = held
                 /\ root' = [root EXCEPT ![q][t] = Corrupt]
      BY <1>11, <3>1 DEF Damage, ExclusiveClaim
    <3>2. CASE held[q][t] \notin {NoFile, Corrupt} /\ root' = root
                 /\ held' = [held EXCEPT ![q][t] = Corrupt]
      BY <1>11, <3>2, MarkerAssumption DEF Damage, ExclusiveClaim
    <3> QED
      BY <1>11, <3>1, <3>2 DEF Damage
  <2>5. NoneStranded'
    <3>1. CASE root[q][t] \notin {NoFile, Corrupt} /\ held' = held
                 /\ root' = [root EXCEPT ![q][t] = Corrupt]
      BY <1>11, <3>1 DEF Damage, NoneStranded
    <3>2. CASE held[q][t] \notin {NoFile, Corrupt} /\ root' = root
                 /\ held' = [held EXCEPT ![q][t] = Corrupt]
      BY <1>11, <3>2 DEF Damage, NoneStranded
    <3> QED
      BY <1>11, <3>1, <3>2 DEF Damage
  <2>6. UnclaimedIsUnlocked'
    <3>1. CASE root[q][t] \notin {NoFile, Corrupt} /\ held' = held
                 /\ root' = [root EXCEPT ![q][t] = Corrupt]
      BY <1>11, <3>1 DEF UnclaimedIsUnlocked
    <3>2. CASE held[q][t] \notin {NoFile, Corrupt} /\ root' = root
                 /\ held' = [held EXCEPT ![q][t] = Corrupt]
      BY <1>11, <3>2 DEF UnclaimedIsUnlocked
    <3> QED
      BY <1>11, <3>1, <3>2 DEF Damage
  <2> QED BY <1>11, <2>1, <2>2, <2>3, <2>4, <2>5, <2>6 DEF Damage
<1>12. ASSUME Crash PROVE IInv'
  <2>1. ClientShape'
    BY <1>12 DEF Crash, ClientShape
  <2>2. OneFile'
    BY <1>12 DEF Crash, OneFile, InRoot, InHeld
  <2>3. NothingLost'
    BY <1>12 DEF Crash, NothingLost, InRoot, InHeld
  <2>4. ExclusiveClaim'
    BY <1>12 DEF Crash, ExclusiveClaim
  <2>5. NoneStranded'
    BY <1>12 DEF Crash, NoneStranded
  <2>6. UnclaimedIsUnlocked'
    BY <1>12 DEF Crash, UnclaimedIsUnlocked
  <2> QED BY <1>12, <2>1, <2>2, <2>3, <2>4, <2>5, <2>6 DEF Crash
<1>13. ASSUME NEW q \in Queues, NEW t \in Tasks, RecoverWrite(q, t)
       PROVE IInv'
  <2>1. ClientShape'
    BY <1>13 DEF RecoverWrite, ClientShape
  <2>2. OneFile'
    BY <1>13 DEF RecoverWrite, OneFile, InRoot, InHeld
  <2>3. NothingLost'
    <3>3. held[q][t] # NoFile /\ held[q][t] \in Content
      BY <1>13 DEF RecoverWrite
    <3>1. [held[q][t] EXCEPT !.lock = NoLock] \in Content
      BY <3>3 DEF Content
    <3>4. [held[q][t] EXCEPT !.lock = NoLock] # NoFile
      BY <3>1, MarkerAssumption DEF Content
    <3>5. held' = [held EXCEPT ![q][t] = [held[q][t] EXCEPT !.lock = NoLock]]
      BY <1>13 DEF RecoverWrite
    <3>2. \A p \in Queues, u \in Tasks :
             (held'[p][u] = NoFile) <=> (held[p][u] = NoFile)
      BY <3>3, <3>4, <3>5
    <3> QED
      BY <1>13, <3>2 DEF RecoverWrite, NothingLost, InRoot, InHeld
  <2>4. ExclusiveClaim'
    BY <1>13 DEF RecoverWrite, ClientShape, ExclusiveClaim
  <2>5. NoneStranded'
    BY <1>13 DEF RecoverWrite, NoneStranded
  <2>6. UnclaimedIsUnlocked'
    BY <1>13 DEF RecoverWrite, UnclaimedIsUnlocked
  <2> QED BY <1>13, <2>1, <2>2, <2>3, <2>4, <2>5, <2>6 DEF RecoverWrite
<1>14. ASSUME NEW q \in Queues, NEW t \in Tasks, RecoverRename(q, t)
       PROVE IInv'
  <2>1. ClientShape'
    BY <1>14 DEF RecoverRename, ClientShape
  <2>2. OneFile'
    BY <1>14 DEF RecoverRename, OneFile, InRoot, InHeld
  <2>3. NothingLost'
    BY <1>14 DEF RecoverRename, NothingLost, InRoot, InHeld
  <2>4. ExclusiveClaim'
    BY <1>14 DEF RecoverRename, ClientShape, ExclusiveClaim
  <2>5. NoneStranded'
    BY <1>14 DEF RecoverRename, NoneStranded
  <2>6. UnclaimedIsUnlocked'
    BY <1>14 DEF RecoverRename, UnclaimedIsUnlocked
  <2> QED BY <1>14, <2>1, <2>2, <2>3, <2>4, <2>5, <2>6 DEF RecoverRename
<1>15. ASSUME NEW q \in Queues, NEW t \in Tasks, RecoverCorrupt(q, t)
       PROVE IInv'
  <2>1. ClientShape'
    BY <1>15 DEF RecoverCorrupt, ClientShape
  <2>2. OneFile'
    BY <1>15 DEF RecoverCorrupt, OneFile, InRoot, InHeld
  <2>3. NothingLost'
    BY <1>15, MarkerAssumption DEF RecoverCorrupt, NothingLost, InRoot,
       InHeld
  <2>4. ExclusiveClaim'
    BY <1>15 DEF RecoverCorrupt, ClientShape, ExclusiveClaim
  <2>5. NoneStranded'
    BY <1>15 DEF RecoverCorrupt, NoneStranded
  <2>6. UnclaimedIsUnlocked'
    BY <1>15 DEF RecoverCorrupt, UnclaimedIsUnlocked
  <2> QED BY <1>15, <2>1, <2>2, <2>3, <2>4, <2>5, <2>6 DEF RecoverCorrupt
<1>16. ASSUME Start PROVE IInv'
  <2>1. ClientShape'
    BY <1>16 DEF Start, ClientShape
  <2>2. OneFile'
    BY <1>16 DEF Start, OneFile, InRoot, InHeld
  <2>3. NothingLost'
    BY <1>16 DEF Start, NothingLost, InRoot, InHeld
  <2>4. ExclusiveClaim'
    BY <1>16 DEF Start, ExclusiveClaim
  <2>5. NoneStranded'
    BY <1>16 DEF Start, NoneStranded
  <2>6. UnclaimedIsUnlocked'
    BY <1>16 DEF Start, UnclaimedIsUnlocked
  <2> QED BY <1>16, <2>1, <2>2, <2>3, <2>4, <2>5, <2>6 DEF Start
<1>17. CASE UNCHANGED vars
  BY <1>17 DEF vars, ClientShape, OneFile, NothingLost, ExclusiveClaim,
     NoneStranded, UnclaimedIsUnlocked, InRoot, InHeld
<1>18. ASSUME NEW t \in Tasks, SubmitOpen(t) PROVE IInv'
  <2>1. ClientShape'
    BY <1>18 DEF SubmitOpen, ClientShape
  <2>2. OneFile'
    BY <1>18 DEF SubmitOpen, OneFile, NothingLost, InRoot, InHeld
  <2>3. NothingLost'
    BY <1>18, QueueAssumption, MarkerAssumption DEF SubmitOpen, NothingLost,
       InRoot, InHeld
  <2>4. ExclusiveClaim'
    BY <1>18 DEF SubmitOpen, ExclusiveClaim
  <2>5. NoneStranded'
    BY <1>18 DEF SubmitOpen, NoneStranded
  <2>6. UnclaimedIsUnlocked'
    BY <1>18 DEF SubmitOpen, UnclaimedIsUnlocked
  <2> QED BY <1>18, <2>1, <2>2, <2>3, <2>4, <2>5, <2>6 DEF SubmitOpen
<1>19. ASSUME NEW t \in Tasks, SubmitWrite(t) PROVE IInv'
  <2>7. /\ File(0, NoLock) # NoFile
        /\ File(0, NoLock).lock = NoLock
    BY FileIsContent
  <2>8. /\ \A q \in Queues, u \in Tasks :
             root'[q][u] = IF u = t /\ root[q][t] # NoFile THEN File(0, NoLock)
                           ELSE root[q][u]
        /\ held' = held
    BY <1>19 DEF SubmitWrite
  <2>9. \A q \in Queues, u \in Tasks :
            (root'[q][u] = NoFile) <=> (root[q][u] = NoFile)
    BY <2>7, <2>8
  <2>1. ClientShape'
    BY <1>19 DEF SubmitWrite, ClientShape
  <2>2. OneFile'
    BY <2>8, <2>9 DEF OneFile, InRoot, InHeld
  <2>3. NothingLost'
    BY <1>19, <2>8, <2>9 DEF SubmitWrite, NothingLost, InRoot, InHeld
  <2>4. ExclusiveClaim'
    BY <1>19 DEF SubmitWrite, ExclusiveClaim
  <2>5. NoneStranded'
    BY <1>19 DEF SubmitWrite, NoneStranded
  <2>6. UnclaimedIsUnlocked'
    BY <2>7, <2>8, SMTT(30) DEF UnclaimedIsUnlocked
  <2> QED BY <1>19, <2>1, <2>2, <2>3, <2>4, <2>5, <2>6 DEF SubmitWrite
<1>20. ASSUME NEW t \in Tasks, SubmitDies(t) PROVE IInv'
  BY <1>20 DEF SubmitDies, ClientShape, OneFile, NothingLost, ExclusiveClaim,
     NoneStranded, UnclaimedIsUnlocked, InRoot, InHeld
<1> QED
  BY <1>1, <1>2, <1>3, <1>4, <1>5, <1>6, <1>7, <1>8, <1>9, <1>10, <1>11,
     <1>12, <1>13, <1>14, <1>15, <1>16, <1>17, <1>18, <1>19, <1>20 DEF Next,
     Client, Restart

-----------------------------------------------------------------------------
(* The inductive invariant holds in every reachable state.                 *)
LEMMA Invariant == Spec => []IInv
<1>1. Init => IInv
  <2> SUFFICES ASSUME Init PROVE IInv
    OBVIOUS
  <2> USE DEF Init, Idle, Listed, Renamed, Working, Written, Sweeping
  <2>1. TypeOK /\ gone \subseteq born
    BY DEF TypeOK
  <2>2. ClientShape
    BY DEF ClientShape
  <2>3. OneFile /\ NothingLost /\ ExclusiveClaim
    BY DEF OneFile, NothingLost, ExclusiveClaim, InRoot, InHeld, Holding
  <2>4. NoneStranded
    <3>1. \A q \in Queues, t \in Tasks : held[q][t] = NoFile
      OBVIOUS
    <3> QED
      BY <3>1, QueueAssumption DEF NoneStranded
  <2>5. UnclaimedIsUnlocked
    BY DEF UnclaimedIsUnlocked
  <2> QED
    BY <2>1, <2>2, <2>3, <2>4, <2>5 DEF IInv
<1>2. Spec => []TypeOK
  BY TypeCorrect
<1> QED
  BY <1>1, <1>2, Step, PTL DEF Spec

(* However the clients, the threads and the crashes interleave, a task     *)
(* never exists in two queues, nor both in a queue and in its .processing/ *)
(* - what transfer() owes the port.                                        *)
THEOREM OneFileHolds == Spec => []OneFile
BY Invariant, PTL DEF IInv

(* A task that was put and not deleted is on disk, and a deleted one is    *)
(* not: no race, crash or recovery makes a task vanish or come back.       *)
THEOREM NothingLostHolds == Spec => []NothingLost
BY Invariant, PTL DEF IInv

(* Both: from its put to its deletion a task is exactly one file.          *)
THEOREM OneFileEachHolds == Spec => []OneFileEach
BY Invariant, PTL DEF IInv, OneFileEach

(* The rename in claim() is a lease: no two clients ever work on one task. *)
THEOREM ExclusiveClaimHolds == Spec => []ExclusiveClaim
BY Invariant, PTL DEF IInv

(* While the harness runs, a readable file in the .processing/ of a queue  *)
(* that recover() walks has a live client that will finish with it.        *)
THEOREM NoneStrandedHolds == Spec => []NoneStranded
BY Invariant, PTL DEF IInv

(* A readable task that lies in a queue is never locked by a former claim. *)
THEOREM UnclaimedIsUnlockedHolds == Spec => []UnclaimedIsUnlocked
BY Invariant, PTL DEF IInv

-----------------------------------------------------------------------------
(* The directory of files implements the port.                             *)

(* Client a works on task t.                                               *)
Claims(a, t) == Holding(a) /\ task[a] = t
Located(t, q) == InRoot(t, q) \/ InHeld(t, q)

(* One file and one client make the mapped variables what they should be.  *)
Views ==
    \A t \in Tasks :
        /\ \A q \in Queues : Located(t, q) => HomeOf(t) = q
        /\ (\A q \in Queues : ~Located(t, q)) => HomeOf(t) = Nowhere
        /\ \A a \in Actors : Claims(a, t) => HolderOf(t) = a
        /\ (\A a \in Actors : ~Claims(a, t)) =>
              HolderOf(t) = IF \E q \in Queues : InHeld(t, q) THEN Orphaned ELSE Unclaimed

LEMMA Mapped == IInv => Views
<1> SUFFICES ASSUME IInv, NEW t \in Tasks
             PROVE  /\ \A q \in Queues : Located(t, q) => HomeOf(t) = q
                    /\ (\A q \in Queues : ~Located(t, q)) => HomeOf(t) = Nowhere
                    /\ \A a \in Actors : Claims(a, t) => HolderOf(t) = a
                    /\ (\A a \in Actors : ~Claims(a, t)) =>
                          HolderOf(t) = IF \E q \in Queues : InHeld(t, q)
                                        THEN Orphaned ELSE Unclaimed
  BY DEF Views
<1>1. ASSUME NEW q \in Queues, Located(t, q) PROVE HomeOf(t) = q
  <2>1. \A p \in Queues : Located(t, p) => p = q
    BY <1>1 DEF IInv, OneFile, Located
  <2>2. HomeOf(t) = CHOOSE p \in Queues : InRoot(t, p) \/ InHeld(t, p)
    BY <1>1 DEF HomeOf, Located
  <2> QED
    BY <1>1, <2>1, <2>2 DEF Located
<1>2. ASSUME \A q \in Queues : ~Located(t, q) PROVE HomeOf(t) = Nowhere
  BY <1>2 DEF HomeOf, Located
<1>3. ASSUME NEW a \in Actors, Claims(a, t) PROVE HolderOf(t) = a
  <2>1. \A b \in Actors : Claims(b, t) => b = a
    BY <1>3 DEF IInv, ExclusiveClaim, Claims
  <2>2. HolderOf(t) = CHOOSE b \in Actors : Holding(b) /\ task[b] = t
    BY <1>3 DEF HolderOf, Claims
  <2> QED
    BY <1>3, <2>1, <2>2 DEF Claims
<1>4. ASSUME \A a \in Actors : ~Claims(a, t)
      PROVE  HolderOf(t) = IF \E q \in Queues : InHeld(t, q) THEN Orphaned ELSE Unclaimed
  BY <1>4 DEF HolderOf, Claims
<1> QED
  BY <1>1, <1>2, <1>3, <1>4

LEMMA MappedNext == IInv' => Views'
BY Mapped, PTL

(* What a client works on is in a .processing/, and nowhere else.          *)
LEMMA ClaimIsHeld ==
    ASSUME IInv, NEW a \in Actors, Holding(a)
    PROVE  /\ task[a] \in Tasks /\ queue[a] \in Queues
           /\ InHeld(task[a], queue[a])
           /\ \A q \in Queues : ~InRoot(task[a], q)
           /\ \A q \in Queues : InHeld(task[a], q) => q = queue[a]
BY DEF IInv, TypeOK, ExclusiveClaim, OneFile, InHeld, InRoot, Holding,
       Idle, Renamed, Working, Written

(* While the process is down nobody works on anything.                     *)
LEMMA NobodyHolds ==
    ASSUME IInv, ~up
    PROVE  \A a \in Actors : ~Holding(a)
BY DEF IInv, ClientShape, Holding, Idle, Renamed, Working, Written

(* A task whose file and client stay is seen where it was.                 *)
Same(t) ==
    /\ \A q \in Queues : (InRoot(t, q)' <=> InRoot(t, q)) /\ (InHeld(t, q)' <=> InHeld(t, q))
    /\ \A a \in Actors : Claims(a, t)' <=> Claims(a, t)

LEMMA Unseen ==
    ASSUME IInv, IInv', NEW t \in Tasks, Same(t)
    PROVE  HomeOf(t)' = HomeOf(t) /\ HolderOf(t)' = HolderOf(t)
<1>1. Views /\ Views'
  BY Mapped, MappedNext
<1>2. \A q \in Queues : Located(t, q)' <=> Located(t, q)
  BY DEF Same, Located
<1>3. HomeOf(t)' = HomeOf(t)
  <2>1. CASE \E q \in Queues : Located(t, q)
    BY <1>1, <1>2, <2>1 DEF Views
  <2>2. CASE ~\E q \in Queues : Located(t, q)
    BY <1>1, <1>2, <2>2 DEF Views
  <2> QED
    BY <2>1, <2>2
<1>4. HolderOf(t)' = HolderOf(t)
  <2>1. CASE \E a \in Actors : Claims(a, t)
    BY <1>1, <2>1 DEF Views, Same
  <2>2. CASE ~\E a \in Actors : Claims(a, t)
    BY <1>1, <2>2 DEF Views, Same
  <2> QED
    BY <2>1, <2>2
<1> QED
  BY <1>3, <1>4

HomeMap == [t \in Tasks |-> HomeOf(t)]
HolderMap == [t \in Tasks |-> HolderOf(t)]

(* A step that touches one task is seen at that task alone.                *)
LEMMA SeenAtOne ==
    ASSUME IInv, IInv', NEW t \in Tasks, \A u \in Tasks \ {t} : Same(u)
    PROVE  /\ HomeMap' = [HomeMap EXCEPT ![t] = HomeOf(t)']
           /\ HolderMap' = [HolderMap EXCEPT ![t] = HolderOf(t)']
<1>1. \A u \in Tasks \ {t} : HomeOf(u)' = HomeOf(u) /\ HolderOf(u)' = HolderOf(u)
  BY Unseen
<1> QED
  BY <1>1 DEF HomeMap, HolderMap

LEMMA SeenNowhere ==
    ASSUME IInv, IInv', \A t \in Tasks : Same(t)
    PROVE  HomeMap' = HomeMap /\ HolderMap' = HolderMap
<1>1. \A t \in Tasks : HomeOf(t)' = HomeOf(t) /\ HolderOf(t)' = HolderOf(t)
  BY Unseen
<1> QED
  BY <1>1 DEF HomeMap, HolderMap

(* Files that stay where they are, with clients that work on what they     *)
(* worked on.                                                              *)
LEMMA FilesStay ==
    ASSUME \A q \in Queues, t \in Tasks :
              /\ root'[q][t] = NoFile <=> root[q][t] = NoFile
              /\ held'[q][t] = NoFile <=> held[q][t] = NoFile,
           \A a \in Actors : Holding(a)' <=> Holding(a),
           \A a \in Actors : Holding(a) => task'[a] = task[a]
    PROVE  \A t \in Tasks : Same(t)
BY DEF Same, InRoot, InHeld, Claims

(* A task put into the inbox, whole or still empty.                        *)
LEMMA PutIsPut ==
    ASSUME IInv, IInv', NEW t \in Tasks, t \notin born, NEW f, f # NoFile,
           root' = [root EXCEPT ![Inbox][t] = f], UNCHANGED <<held, pc, task>>
    PROVE  Port!Put(t, Inbox)
<1>0. Inbox \in Queues
  BY QueueAssumption
<1>1. \A q \in Queues : ~InRoot(t, q) /\ ~InHeld(t, q)
  BY DEF IInv, NothingLost
<1>2. \A a \in Actors : ~Claims(a, t)
  BY <1>1, ClaimIsHeld DEF Claims
<1>3. /\ \A q \in Queues, u \in Tasks : root'[q][u] = IF q = Inbox /\ u = t THEN f ELSE root[q][u]
      /\ held' = held
  BY <1>0 DEF IInv, TypeOK
<1>4. \A a, u : Claims(a, u)' <=> Claims(a, u)
  BY DEF Claims, Holding
<1>5. \A u \in Tasks \ {t} : Same(u)
  BY <1>3, <1>4 DEF Same, InRoot, InHeld
<1>6. InRoot(t, Inbox)' /\ \A q \in Queues : ~InHeld(t, q)'
  BY <1>0, <1>1, <1>3 DEF InRoot, InHeld
<1>7. Views /\ Views'
  BY Mapped, MappedNext
<1>8. HomeOf(t) = Nowhere /\ HomeOf(t)' = Inbox
  BY <1>0, <1>1, <1>6, <1>7 DEF Views, Located
<1>9. HolderOf(t) = Unclaimed /\ HolderOf(t)' = Unclaimed
  BY <1>1, <1>2, <1>4, <1>6, <1>7 DEF Views
<1>10. HolderMap' = HolderMap /\ HomeMap' = [HomeMap EXCEPT ![t] = Inbox] /\ HomeMap[t] = Nowhere
  <2>1. HolderMap' = [HolderMap EXCEPT ![t] = HolderOf(t)']
        /\ HomeMap' = [HomeMap EXCEPT ![t] = HomeOf(t)']
    BY <1>5, SeenAtOne
  <2> QED
    BY <1>8, <1>9, <2>1 DEF HomeMap, HolderMap
<1> QED
  BY <1>10 DEF Port!Put, HomeMap, HolderMap

(* The rename of claim() is the port's claim.                              *)
LEMMA RenameIsClaim ==
    ASSUME IInv, IInv', NEW a \in Actors, ClaimRename(a)
    PROVE  Port!Claim(a, task[a])
<1>1. PICK t \in Tasks, q \in Queues : t = task[a] /\ q = queue[a]
  BY DEF IInv, TypeOK, ClaimRename, Listed, Idle
<1>2. /\ pc[a] = Listed /\ root[q][t] # NoFile
      /\ root' = [root EXCEPT ![q][t] = NoFile]
      /\ held' = [held EXCEPT ![q][t] = root[q][t]]
      /\ pc' = [pc EXCEPT ![a] = Renamed] /\ task' = task
  BY <1>1 DEF ClaimRename, Goto
<1>3. /\ \A p \in Queues, u \in Tasks : root'[p][u] = IF p = q /\ u = t THEN NoFile ELSE root[p][u]
      /\ \A p \in Queues, u \in Tasks : held'[p][u] = IF p = q /\ u = t THEN root[q][t] ELSE held[p][u]
  BY <1>1, <1>2 DEF IInv, TypeOK
<1>4. pc'[a] = Renamed /\ \A b \in Actors \ {a} : pc'[b] = pc[b]
  BY <1>2 DEF IInv, TypeOK
<1>5. ~Holding(a) /\ Holding(a)' /\ \A b \in Actors \ {a} : Holding(b)' <=> Holding(b)
  BY <1>2, <1>4 DEF Holding, Listed, Renamed, Working, Written
<1>6. InRoot(t, q) /\ \A p \in Queues : ~InHeld(t, p)
  BY <1>1, <1>2 DEF IInv, OneFile, InRoot, InHeld
<1>7. \A b \in Actors : ~Claims(b, t)
  BY <1>6, ClaimIsHeld DEF Claims
<1>8. Claims(a, t)'
  BY <1>1, <1>2, <1>5 DEF Claims
<1>9. \A u \in Tasks \ {t} : Same(u)
  BY <1>1, <1>2, <1>3, <1>5 DEF Same, InRoot, InHeld, Claims
<1>10. InHeld(t, q)'
  BY <1>1, <1>2, <1>3 DEF InHeld
<1>11. Views /\ Views'
  BY Mapped, MappedNext
<1>12. HomeOf(t) = q /\ HomeOf(t)' = q /\ HolderOf(t) = Unclaimed /\ HolderOf(t)' = a
  BY <1>1, <1>6, <1>7, <1>8, <1>10, <1>11 DEF Views, Located
<1>13. HomeMap' = HomeMap /\ HolderMap' = [HolderMap EXCEPT ![t] = a]
       /\ HomeMap[t] = q /\ HolderMap[t] = Unclaimed
  <2>1. HolderMap' = [HolderMap EXCEPT ![t] = HolderOf(t)']
        /\ HomeMap' = [HomeMap EXCEPT ![t] = HomeOf(t)']
    BY <1>1, <1>9, SeenAtOne
  <2> QED
    BY <1>1, <1>12, <2>1 DEF HomeMap, HolderMap
<1>14. q # Nowhere
  BY <1>1, PortAssumption
<1> QED
  BY <1>1, <1>13, <1>14 DEF Port!Claim, HomeMap, HolderMap

(* A client is done with its task: it lies in another queue, or nowhere.   *)
LEMMA ReleaseIsSeen ==
    ASSUME IInv, IInv', NEW a \in Actors, NEW t \in Tasks, t = task[a], Holding(a),
           pc' = [pc EXCEPT ![a] = Idle], task' = [task EXCEPT ![a] = NoTask],
           held' = [held EXCEPT ![queue[a]][t] = NoFile],
           \A q \in Queues, u \in Tasks \ {t} : root'[q][u] = root[q][u]
    PROVE  /\ HolderMap[t] = a
           /\ HolderMap' = [HolderMap EXCEPT ![t] = Unclaimed]
           /\ HomeMap' = [HomeMap EXCEPT ![t] = HomeOf(t)']
<1>1. PICK q \in Queues : q = queue[a]
  BY ClaimIsHeld
<1>2. \A p \in Queues, u \in Tasks :
         held'[p][u] = IF p = q /\ u = t THEN NoFile ELSE held[p][u]
  BY <1>1 DEF IInv, TypeOK
<1>3. ~Holding(a)' /\ \A b \in Actors \ {a} : (Holding(b)' <=> Holding(b)) /\ task'[b] = task[b]
  BY DEF IInv, TypeOK, Holding, Idle, Renamed, Working, Written
<1>4. \A b \in Actors \ {a} : ~Claims(b, t)
  BY DEF IInv, ExclusiveClaim, Claims
<1>5. \A b \in Actors : ~Claims(b, t)'
  BY <1>3, <1>4 DEF Claims
<1>6. \A p \in Queues : ~InHeld(t, p)'
  BY <1>1, <1>2, ClaimIsHeld DEF InHeld
<1>7. \A u \in Tasks \ {t} : Same(u)
  BY <1>2, <1>3 DEF Same, InRoot, InHeld, Claims
<1>8. Views /\ Views'
  BY Mapped, MappedNext
<1>9. HolderOf(t) = a /\ HolderOf(t)' = Unclaimed
  BY <1>5, <1>6, <1>8 DEF Views, Claims
<1>10. HolderMap' = [HolderMap EXCEPT ![t] = HolderOf(t)']
       /\ HomeMap' = [HomeMap EXCEPT ![t] = HomeOf(t)']
  BY <1>7, SeenAtOne
<1> QED
  BY <1>9, <1>10 DEF HolderMap

LEMMA RenameIsTransfer ==
    ASSUME IInv, IInv', NEW a \in Actors, NEW q \in Queues, TransferRename(a, q)
    PROVE  task[a] \in Tasks /\ Port!Transfer(a, task[a], q)
<1>1. Holding(a)
  BY DEF TransferRename, Holding
<1>2. PICK t \in Tasks : t = task[a]
  BY <1>1, ClaimIsHeld
<1>3. /\ root' = [root EXCEPT ![q][t] = held[queue[a]][t]]
      /\ held' = [held EXCEPT ![queue[a]][t] = NoFile]
      /\ pc' = [pc EXCEPT ![a] = Idle] /\ task' = [task EXCEPT ![a] = NoTask]
  BY <1>2 DEF TransferRename, Finish, Begin
<1>4. \A p \in Queues, u \in Tasks :
         root'[p][u] = IF p = q /\ u = t THEN held[queue[a]][t] ELSE root[p][u]
  BY <1>3 DEF IInv, TypeOK
<1>5. held[queue[a]][t] # NoFile
  BY <1>1, <1>2, ClaimIsHeld DEF InHeld
<1>6. InRoot(t, q)'
  BY <1>4, <1>5 DEF InRoot
<1>7. HomeOf(t)' = q
  BY <1>6, MappedNext DEF Views, Located
<1>8. /\ HolderMap[t] = a /\ HolderMap' = [HolderMap EXCEPT ![t] = Unclaimed]
      /\ HomeMap' = [HomeMap EXCEPT ![t] = q]
  <2>1. \A p \in Queues, u \in Tasks \ {t} : root'[p][u] = root[p][u]
    BY <1>4
  <2>2. /\ held' = [held EXCEPT ![queue[a]][t] = NoFile]
        /\ pc' = [pc EXCEPT ![a] = Idle] /\ task' = [task EXCEPT ![a] = NoTask]
    BY <1>3
  <2>3. /\ HolderMap[t] = a /\ HolderMap' = [HolderMap EXCEPT ![t] = Unclaimed]
        /\ HomeMap' = [HomeMap EXCEPT ![t] = HomeOf(t)']
    BY <1>1, <1>2, <2>1, <2>2, ReleaseIsSeen
  <2> QED
    BY <1>7, <2>3
<1> QED
  BY <1>2, <1>8 DEF Port!Transfer, HomeMap, HolderMap

LEMMA DiscardIsDiscard ==
    ASSUME IInv, IInv', NEW a \in Actors, Discard(a)
    PROVE  task[a] \in Tasks /\ Port!Discard(a, task[a])
<1>1. Holding(a)
  BY DEF Discard, Holding
<1>2. PICK t \in Tasks : t = task[a]
  BY <1>1, ClaimIsHeld
<1>3. /\ root' = root
      /\ held' = [held EXCEPT ![queue[a]][t] = NoFile]
      /\ pc' = [pc EXCEPT ![a] = Idle] /\ task' = [task EXCEPT ![a] = NoTask]
      /\ gone' = gone \cup {t}
  BY <1>2 DEF Discard, Finish, Begin
<1>4. \A q \in Queues : ~Located(t, q)'
  BY <1>2, <1>3 DEF IInv, NothingLost, Located
<1>5. HomeOf(t)' = Nowhere
  BY <1>4, MappedNext DEF Views
<1>6. /\ HolderMap[t] = a /\ HolderMap' = [HolderMap EXCEPT ![t] = Unclaimed]
      /\ HomeMap' = [HomeMap EXCEPT ![t] = Nowhere]
  BY <1>1, <1>2, <1>3, <1>5, ReleaseIsSeen
<1> QED
  BY <1>2, <1>6 DEF Port!Discard, HomeMap, HolderMap

(* A file nobody works on is moved into a queue's directory.               *)
LEMMA MoveIsSeen ==
    ASSUME IInv, IInv', NEW t \in Tasks, NEW p \in Queues, NEW q \in Queues,
           Located(t, p), \A a \in Actors : ~Claims(a, t), InRoot(t, q)',
           \A r \in Queues, u \in Tasks \ {t} :
              root'[r][u] = root[r][u] /\ held'[r][u] = held[r][u],
           \A a \in Actors : Holding(a)' <=> Holding(a),
           \A a \in Actors : Holding(a) => task'[a] = task[a]
    PROVE  /\ HomeMap[t] = p /\ HomeMap' = [HomeMap EXCEPT ![t] = q]
           /\ HolderMap[t] = IF \E r \in Queues : InHeld(t, r) THEN Orphaned ELSE Unclaimed
           /\ HolderMap' = [HolderMap EXCEPT ![t] = Unclaimed]
<1>1. \A u \in Tasks \ {t} : Same(u)
  BY DEF Same, InRoot, InHeld, Claims
<1>2. Views /\ Views'
  BY Mapped, MappedNext
<1>3. \A r \in Queues : ~InHeld(t, r)'
  BY DEF IInv, OneFile
<1>4. \A a \in Actors : ~Claims(a, t)'
  BY DEF Claims
<1>5. /\ HomeOf(t) = p /\ HomeOf(t)' = q /\ HolderOf(t)' = Unclaimed
      /\ HolderOf(t) = IF \E r \in Queues : InHeld(t, r) THEN Orphaned ELSE Unclaimed
  BY <1>2, <1>3, <1>4 DEF Views, Located
<1>6. HolderMap' = [HolderMap EXCEPT ![t] = HolderOf(t)']
      /\ HomeMap' = [HomeMap EXCEPT ![t] = HomeOf(t)']
  BY <1>1, SeenAtOne
<1> QED
  BY <1>5, <1>6 DEF HomeMap, HolderMap

LEMMA SweepIsSweep ==
    ASSUME IInv, IInv', NEW a \in Actors, Quarantine(a),
           root[queue[a]][task[a]] # NoFile
    PROVE  task[a] \in Tasks /\ Port!SweepAway(task[a])
<1>1. PICK t \in Tasks, q \in Guarded : t = task[a] /\ q = queue[a]
  BY DEF IInv, TypeOK, ClientShape, Quarantine, Sweeping, Idle
<1>2. q \in Queues /\ Failed \in Queues /\ q # Failed
  BY QueueAssumption
<1>3. /\ pc[a] = Sweeping /\ held' = held
      /\ root' = [root EXCEPT ![q][t] = NoFile, ![Failed][t] = root[q][t]]
      /\ pc' = [pc EXCEPT ![a] = Idle] /\ task' = [task EXCEPT ![a] = NoTask]
  BY <1>1 DEF Quarantine, Finish, Begin
<1>4. \A r \in Queues, u \in Tasks :
         root'[r][u] = IF u = t /\ r = Failed THEN root[q][t]
                       ELSE IF u = t /\ r = q THEN NoFile ELSE root[r][u]
  <2>1. root = [r \in Queues |-> [u \in Tasks |-> root[r][u]]]
    BY DEF IInv, TypeOK
  <2>2. TAKE r \in Queues, u \in Tasks
  <2> QED
    BY <1>2, <1>3, <2>1
<1>5. /\ \A b \in Actors : Holding(b)' <=> Holding(b)
      /\ \A b \in Actors : Holding(b) => task'[b] = task[b]
  BY <1>3 DEF IInv, TypeOK, Holding, Sweeping, Idle, Renamed, Working, Written
<1>6. Located(t, q) /\ InRoot(t, Failed)' /\ \A r \in Queues : ~InHeld(t, r)
  BY <1>1, <1>2, <1>4 DEF IInv, OneFile, Located, InRoot, InHeld
<1>7. \A b \in Actors : ~Claims(b, t)
  BY <1>6, ClaimIsHeld DEF Claims
<1>8. \A r \in Queues, u \in Tasks \ {t} : root'[r][u] = root[r][u] /\ held'[r][u] = held[r][u]
  <2>1. held' = held
    BY <1>3
  <2> QED
    BY <1>4, <2>1
<1>9. /\ HomeMap[t] = q /\ HomeMap' = [HomeMap EXCEPT ![t] = Failed]
      /\ HolderMap[t] = Unclaimed /\ HolderMap' = [HolderMap EXCEPT ![t] = Unclaimed]
  BY <1>2, <1>5, <1>6, <1>7, <1>8, MoveIsSeen
<1> QED
  BY <1>1, <1>9 DEF Port!SweepAway, HomeMap, HolderMap

LEMMA RecoveryIsSeen ==
    ASSUME IInv, IInv', NEW t \in Tasks, NEW p \in Queues, NEW q \in Queues, NEW f,
           ~up, held[p][t] # NoFile, f # NoFile,
           root' = [root EXCEPT ![q][t] = f], held' = [held EXCEPT ![p][t] = NoFile],
           UNCHANGED <<pc, task>>
    PROVE  /\ HomeMap[t] = p /\ HomeMap' = [HomeMap EXCEPT ![t] = q]
           /\ HolderMap[t] = Orphaned /\ HolderMap' = [HolderMap EXCEPT ![t] = Unclaimed]
<1>1. /\ \A r \in Queues, u \in Tasks : root'[r][u] = IF r = q /\ u = t THEN f ELSE root[r][u]
      /\ \A r \in Queues, u \in Tasks : held'[r][u] = IF r = p /\ u = t THEN NoFile ELSE held[r][u]
  BY DEF IInv, TypeOK
<1>2. InHeld(t, p) /\ Located(t, p) /\ InRoot(t, q)'
  BY <1>1 DEF Located, InRoot, InHeld
<1>3. \A a \in Actors : ~Holding(a) /\ ~Claims(a, t) /\ (Holding(a)' <=> Holding(a))
  BY NobodyHolds DEF Claims, Holding
<1>4. \A r \in Queues, u \in Tasks \ {t} : root'[r][u] = root[r][u] /\ held'[r][u] = held[r][u]
  BY <1>1
<1> QED
  BY <1>2, <1>3, <1>4, MoveIsSeen

LEMMA CrashIsCrash ==
    ASSUME IInv, IInv', Crash
    PROVE  Port!Crash
<1>1. UNCHANGED <<root, held>> /\ \A a \in Actors : pc'[a] = Idle
  BY DEF Crash
<1>2. \A a \in Actors : ~Holding(a)'
  BY <1>1 DEF Holding, Idle, Renamed, Working, Written
<1>3. \A t \in Tasks, q \in Queues : (InHeld(t, q)' <=> InHeld(t, q))
                                     /\ (Located(t, q)' <=> Located(t, q))
  BY <1>1 DEF InHeld, InRoot, Located
<1>4. Views /\ Views'
  BY Mapped, MappedNext
<1>5. ASSUME NEW t \in Tasks
      PROVE  /\ HomeOf(t)' = HomeOf(t)
             /\ HolderOf(t)' = IF HolderOf(t) \in Actors THEN Orphaned ELSE HolderOf(t)
  <2>1. HomeOf(t)' = HomeOf(t)
    <3>1. CASE \E q \in Queues : Located(t, q)
      BY <1>3, <1>4, <3>1 DEF Views
    <3>2. CASE ~\E q \in Queues : Located(t, q)
      BY <1>3, <1>4, <3>2 DEF Views
    <3> QED
      BY <3>1, <3>2
  <2>2. HolderOf(t)' = IF \E q \in Queues : InHeld(t, q) THEN Orphaned ELSE Unclaimed
    BY <1>2, <1>3, <1>4 DEF Views, Claims
  <2>3. CASE \E a \in Actors : Claims(a, t)
    <3>1. PICK a \in Actors : Claims(a, t)
      BY <2>3
    <3>2. HolderOf(t) = a /\ InHeld(t, queue[a]) /\ queue[a] \in Queues
      BY <1>4, <3>1, ClaimIsHeld DEF Views, Claims
    <3> QED
      BY <2>1, <2>2, <3>2
  <2>4. CASE ~\E a \in Actors : Claims(a, t)
    BY <1>4, <2>1, <2>2, <2>4, PortAssumption DEF Views
  <2> QED
    BY <2>3, <2>4
<1>6. /\ HomeMap' = HomeMap
      /\ HolderMap' = [t \in Tasks |-> IF HolderMap[t] \in Actors THEN Orphaned ELSE HolderMap[t]]
  BY <1>5 DEF HomeMap, HolderMap
<1> QED
  BY <1>6 DEF Port!Crash, HomeMap, HolderMap

LEMMA PortStep == IInv /\ IInv' /\ [Next]_vars => [Port!Next]_(Port!vars)
<1> SUFFICES ASSUME IInv, IInv', [Next]_vars PROVE [Port!Next]_(Port!vars)
  OBVIOUS
<1>0. ASSUME \A t \in Tasks : Same(t) PROVE UNCHANGED Port!vars
  <2>1. HomeMap' = HomeMap /\ HolderMap' = HolderMap
    BY <1>0, SeenNowhere
  <2> QED
    BY <2>1 DEF Port!vars, HomeMap, HolderMap
<1>1. ASSUME NEW t \in Tasks, Put(t) \/ SubmitOpen(t) PROVE Port!Next
  <2>1. PICK f : /\ f # NoFile /\ root' = [root EXCEPT ![Inbox][t] = f]
                 /\ t \notin born /\ UNCHANGED <<held, pc, task>>
    BY <1>1, FileIsContent, MarkerAssumption DEF Put, SubmitOpen, clients
  <2>2. Port!Put(t, Inbox) /\ Inbox \in Queues
    BY <2>1, PutIsPut, QueueAssumption
  <2> QED
    BY <2>2 DEF Port!Next
<1>2. ASSUME NEW t \in Tasks, SubmitWrite(t) \/ SubmitDies(t) PROVE \A u \in Tasks : Same(u)
  <2>1. /\ held' = held /\ UNCHANGED <<pc, task>>
        /\ \A q \in Queues, u \in Tasks : root'[q][u] = NoFile <=> root[q][u] = NoFile
    <3>1. File(0, NoLock) # NoFile
      BY FileIsContent
    <3> QED
      BY <1>2, <3>1 DEF SubmitWrite, SubmitDies, clients, IInv, TypeOK
  <2>2. \A a \in Actors : Holding(a)' <=> Holding(a)
    BY <2>1 DEF Holding
  <2> QED
    BY <2>1, <2>2, FilesStay
<1>3. ASSUME NEW a \in Actors,
             \/ \E q \in Queues, t \in Tasks : List(a, q, t) \/ ListCorrupt(a, q, t)
             \/ ClaimLost(a)
             \/ Quarantine(a) /\ root[queue[a]][task[a]] = NoFile
      PROVE  \A u \in Tasks : Same(u)
  <2>1. PICK stage, t : /\ stage \in {Idle, Listed, Sweeping}
                        /\ pc[a] \in {Idle, Listed, Sweeping}
                        /\ UNCHANGED <<root, held>>
                        /\ pc' = [pc EXCEPT ![a] = stage] /\ task' = [task EXCEPT ![a] = t]
    BY <1>3 DEF List, ListCorrupt, ClaimLost, Quarantine, Finish, Begin
  <2>2. /\ ~Holding(a) /\ ~Holding(a)'
        /\ \A b \in Actors \ {a} : (Holding(b)' <=> Holding(b)) /\ task'[b] = task[b]
    BY <2>1 DEF IInv, TypeOK, Holding, Idle, Listed, Sweeping, Renamed, Working, Written
  <2> QED
    BY <2>1, <2>2, FilesStay
<1>4. ASSUME NEW a \in Actors, ClaimWrite(a) \/ TransferWrite(a)
      PROVE  \A u \in Tasks : Same(u)
  <2>1. Holding(a)
    BY <1>4 DEF ClaimWrite, TransferWrite, Holding
  <2>2. PICK t \in Tasks, q \in Queues : /\ t = task[a] /\ q = queue[a] /\ held[q][t] # NoFile
    BY <2>1, ClaimIsHeld DEF InHeld
  <2>3. PICK f, stage : /\ f # NoFile /\ held' = [held EXCEPT ![q][t] = f]
                        /\ stage \in {Working, Written} /\ root' = root
                        /\ pc' = [pc EXCEPT ![a] = stage] /\ task' = [task EXCEPT ![a] = t]
    <3>1. rev[a] \in Nat /\ rev[a] + 1 \in Nat /\ [task EXCEPT ![a] = t] = task
      BY <2>2 DEF IInv, TypeOK
    <3>2. CASE ClaimWrite(a)
      <4>1. File(rev[a], a) # NoFile
        BY <3>1, FileIsContent
      <4> QED
        BY <2>2, <3>1, <3>2, <4>1 DEF ClaimWrite, Goto
    <3>3. CASE TransferWrite(a)
      <4>1. File(rev[a] + 1, NoLock) # NoFile
        BY <3>1, FileIsContent
      <4> QED
        BY <2>2, <3>3, <4>1 DEF TransferWrite, Begin
    <3> QED
      BY <1>4, <3>2, <3>3
  <2>4. \A p \in Queues, u \in Tasks : held'[p][u] = NoFile <=> held[p][u] = NoFile
    BY <2>2, <2>3 DEF IInv, TypeOK
  <2>5. \A b \in Actors : (Holding(b)' <=> Holding(b)) /\ task'[b] = task[b]
    BY <2>1, <2>2, <2>3 DEF IInv, TypeOK, Holding
  <2> QED
    BY <2>3, <2>4, <2>5, FilesStay
<1>5. ASSUME NEW q \in Queues, NEW t \in Tasks, Damage(q, t) \/ RecoverWrite(q, t)
      PROVE  \A u \in Tasks : Same(u)
  <2>1. UNCHANGED <<pc, task>> /\ \A a \in Actors : Holding(a)' <=> Holding(a)
    BY <1>5 DEF Damage, RecoverWrite, clients, Holding
  <2>2. CASE Damage(q, t)
    <3>1. \A p \in Queues, u \in Tasks :
             /\ root'[p][u] = NoFile <=> root[p][u] = NoFile
             /\ held'[p][u] = NoFile <=> held[p][u] = NoFile
      <4>1. CASE root[q][t] # NoFile /\ held' = held /\ root' = [root EXCEPT ![q][t] = Corrupt]
        BY <4>1, MarkerAssumption DEF IInv, TypeOK
      <4>2. CASE held[q][t] # NoFile /\ root' = root /\ held' = [held EXCEPT ![q][t] = Corrupt]
        BY <4>2, MarkerAssumption DEF IInv, TypeOK
      <4> QED
        BY <2>2, <4>1, <4>2 DEF Damage
    <3> QED
      BY <2>1, <3>1, FilesStay
  <2>3. CASE RecoverWrite(q, t)
    <3>1. held[q][t] \in Content /\ held[q][t] # NoFile
      BY <2>3 DEF RecoverWrite, IInv, TypeOK
    <3>2. PICK f : f = [held[q][t] EXCEPT !.lock = NoLock]
      OBVIOUS
    <3>3. f \in Content
      BY <3>1, <3>2 DEF Content
    <3>4. f # NoFile
      BY <3>3, MarkerAssumption DEF Content
    <3>5. held' = [held EXCEPT ![q][t] = f] /\ root' = root
      BY <2>3, <3>2 DEF RecoverWrite
    <3>6. \A p \in Queues, u \in Tasks : held'[p][u] = NoFile <=> held[p][u] = NoFile
      BY <3>1, <3>4, <3>5 DEF IInv, TypeOK
    <3> QED
      BY <2>1, <3>5, <3>6, FilesStay
  <2> QED
    BY <1>5, <2>2, <2>3
<1>6. ASSUME NEW a \in Actors, ClaimRename(a) PROVE Port!Next
  <2>1. task[a] \in Tasks
    BY <1>6 DEF IInv, TypeOK, ClaimRename, Listed, Idle
  <2> QED
    BY <1>6, <2>1, RenameIsClaim DEF Port!Next
<1>7. ASSUME NEW a \in Actors, NEW q \in Queues, TransferRename(a, q) PROVE Port!Next
  BY <1>7, RenameIsTransfer DEF Port!Next
<1>8. ASSUME NEW a \in Actors, Discard(a) PROVE Port!Next
  BY <1>8, DiscardIsDiscard DEF Port!Next
<1>9. ASSUME NEW a \in Actors, Quarantine(a), root[queue[a]][task[a]] # NoFile
      PROVE  Port!Next
  BY <1>9, SweepIsSweep DEF Port!Next
<1>10. CASE Crash
  BY <1>10, CrashIsCrash DEF Port!Next
<1>11. ASSUME NEW q \in Queues, NEW t \in Tasks, RecoverRename(q, t) PROVE Port!Next
  <2>1. PICK f : /\ f = held[q][t] /\ f # NoFile /\ ~up /\ UNCHANGED <<pc, task>>
                 /\ root' = [root EXCEPT ![q][t] = f] /\ held' = [held EXCEPT ![q][t] = NoFile]
    BY <1>11 DEF RecoverRename, clients
  <2>2. /\ HomeMap[t] = q /\ HomeMap' = [HomeMap EXCEPT ![t] = q]
        /\ HolderMap[t] = Orphaned /\ HolderMap' = [HolderMap EXCEPT ![t] = Unclaimed]
    BY <2>1, RecoveryIsSeen
  <2>3. HomeMap' = HomeMap
    BY <2>2 DEF HomeMap
  <2>4. Port!Recover(t)
    BY <2>2, <2>3 DEF Port!Recover, HomeMap, HolderMap
  <2> QED
    BY <2>4 DEF Port!Next
<1>12. ASSUME NEW q \in Queues, NEW t \in Tasks, RecoverCorrupt(q, t) PROVE Port!Next
  <2>1. /\ held[q][t] # NoFile /\ Corrupt # NoFile /\ ~up /\ q \in Guarded
        /\ UNCHANGED <<pc, task>> /\ Failed \in Queues
        /\ root' = [root EXCEPT ![Failed][t] = Corrupt]
        /\ held' = [held EXCEPT ![q][t] = NoFile]
    BY <1>12, MarkerAssumption, QueueAssumption DEF RecoverCorrupt, clients
  <2>2. /\ HomeMap[t] = q /\ HomeMap' = [HomeMap EXCEPT ![t] = Failed]
        /\ HolderMap[t] = Orphaned /\ HolderMap' = [HolderMap EXCEPT ![t] = Unclaimed]
    BY <2>1, RecoveryIsSeen
  <2>3. Port!SweepAway(t)
    BY <2>1, <2>2 DEF Port!SweepAway, HomeMap, HolderMap
  <2> QED
    BY <2>3 DEF Port!Next
<1>13. CASE Start \/ UNCHANGED vars
  <2>1. UNCHANGED <<root, held, pc, task>>
    BY <1>13 DEF Start, vars, clients
  <2>2. \A a \in Actors : Holding(a)' <=> Holding(a)
    BY <2>1 DEF Holding
  <2> QED
    BY <1>0, <2>1, <2>2, FilesStay
<1> QED
  BY <1>0, <1>1, <1>2, <1>3, <1>4, <1>5, <1>6, <1>7, <1>8, <1>9, <1>10, <1>11,
     <1>12, <1>13 DEF Next, Client, Restart

(* Every file operation of drivers/fs_queue.py is one of the operations    *)
(* the port promises (ports/queue.py), or none of them can tell: over its  *)
(* two renames and its writes, and over crashes and recovery, a queue of   *)
(* files behaves as TaskQueue says.                                        *)
THEOREM ImplementsPortHolds == Spec => ImplementsPort
<1>1. Init => Port!Init
  <2> SUFFICES ASSUME Init PROVE Port!Init
    OBVIOUS
  <2>1. \A t \in Tasks, q \in Queues : ~InRoot(t, q) /\ ~InHeld(t, q)
    BY DEF Init, InRoot, InHeld
  <2>2. \A a \in Actors : ~Holding(a)
    BY DEF Init, Holding, Idle, Renamed, Working, Written
  <2>3. \A t \in Tasks : HomeOf(t) = Nowhere /\ HolderOf(t) = Unclaimed
    BY <2>1, <2>2 DEF HomeOf, HolderOf
  <2> QED
    BY <2>3 DEF Port!Init
<1>2. IInv /\ IInv' /\ [Next]_vars => [Port!Next]_(Port!vars)
  BY PortStep
<1> QED
  BY <1>1, <1>2, Invariant, PTL DEF Spec, ImplementsPort, Port!Spec
=============================================================================
