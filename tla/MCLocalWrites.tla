---------------------------- MODULE MCLocalWrites ----------------------------
(* A small instance of LocalWrites. *)
EXTENDS LocalWrites, TLC

MCParent == [d \in {"snapshots", "out", "sub"} |-> IF d = "sub" THEN "out" ELSE "home"]

At(dir, name) == [dir |-> dir, name |-> name]

\* A skill of two files, one of them in a subdirectory, a dump into the reserved
\* directory and one of two tables whose names fold to one path.
MCRequests ==
    {[root |-> "out", items |-> <<At("sub", "a"), At("out", "a")>>],
     [root |-> "snapshots", items |-> <<At("snapshots", "a")>>],
     [root |-> "out", items |-> <<At("out", "a"), At("out", "a")>>]}

Empty == [path \in Paths |-> Missing]
MCInitial == {Empty, [Empty EXCEPT ![At("out", "a")] = OldFile]}

Symmetry == Permutations(Savers)
=============================================================================
