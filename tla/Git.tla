-------------------------------- MODULE Git --------------------------------
(***************************************************************************)
(* What the workspace needs of git.  Every change has a number; a commit   *)
(* is the changes of its history and those of them that its tree still     *)
(* has.  The two differ once a commit was made from a working tree that    *)
(* had fallen behind its parent: git records the tree as it stands, so     *)
(* what the parent brought in is gone, without a conflict.                 *)
(***************************************************************************)
EXTENDS Naturals

Commit(changes) == [hist |-> changes, tree |-> changes]

IsAncestor(c, d) == c.hist \subseteq d.hist

\* The three-way merge: a change that either side has dropped is dropped.
MergedTree(tree, head, other) ==
    {n \in tree \cup other.tree :
        /\ n \in head.hist => n \in tree
        /\ n \in other.hist => n \in other.tree}

\* A merge commit `n' made by GitHub, which has no working tree.
MergeCommit(head, other, n) ==
    [hist |-> head.hist \cup other.hist \cup {n},
     tree |-> MergedTree(head.tree, head, other)]

\* A working tree: the changes in its files, and the commit (its history) whose
\* merge into it is not concluded.  HEAD is the branch, shared by all of them.
NoTree == [files |-> {}, merging |-> {}, exists |-> FALSE]
Clean(commit) == [files |-> commit.tree, merging |-> {}, exists |-> TRUE]

\* git merge --no-commit, of a base that the branch does not yet contain.
Merging(work, head, base) ==
    [work EXCEPT !.files = MergedTree(@, head, base), !.merging = base.hist]

\* git commit of the files as they stand, with the changes in `new'.
Committed(work, head, new, n) ==
    [hist |-> head.hist \cup work.merging \cup {n},
     tree |-> work.files \cup new]

\* commit() makes none when what is staged is what HEAD already has.
NothingStaged(work, head, new) == work.files \cup new = head.tree
=============================================================================
