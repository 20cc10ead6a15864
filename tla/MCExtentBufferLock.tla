-------------------------- MODULE MCExtentBufferLock --------------------------
(***************************************************************************)
(* Instances of the extent buffer locks for TLC: a file tree of three      *)
(* levels and a leaf of the extent tree, with a log tree whose blocks can  *)
(* be taken for one of them.                                               *)
(***************************************************************************)
EXTENDS ExtentBufferLock, TLC

CONSTANTS t1, t2, leaf, node, root, extLeaf, fsTree, extTree, logTree

TwoThreads  == {t1, t2}
TwoTrees    == {leaf, node, root, extLeaf}
ThreeTrees  == {fsTree, extTree, logTree}
OneLogTree  == {logTree}
OneRecycled == {leaf}

\* Levels and owners that look right, are impossible, or are exempt.
SomeGarbage == {<<1, extTree>>, <<2, fsTree>>, <<3, fsTree>>, <<2, logTree>>}

LevelOf == [b \in Buffers |-> CASE b \in {leaf, extLeaf} -> 0 [] b = node -> 1 [] b = root -> 2]
OwnerOf == [b \in Buffers |-> IF b = extLeaf THEN extTree ELSE fsTree]

\* Threads are interchangeable; only used for invariants.
Symmetry == Permutations(Threads)
=============================================================================
