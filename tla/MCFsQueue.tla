----------------------------- MODULE MCFsQueue -----------------------------
(* A small instance of FsQueue: two tasks, two clients, and one queue of   *)
(* each kind - guarded and recovered (inbox), recovered only (failed) and  *)
(* neither (healed).                                                       *)
EXTENDS FsQueue, TLC

CONSTANTS t1, t2, loop, api, inbox, failed, healed

MCTasks == {t1, t2}
MCActors == {loop, api}
MCQueues == {inbox, failed, healed}
MCGuarded == {inbox}
MCRecovered == {inbox, failed}

Symmetry == Permutations(MCTasks) \cup Permutations(MCActors)
=============================================================================
