--------------------------- MODULE MCStatusCache ---------------------------
(***************************************************************************)
(* Two threads over two targets that share a directory; see the README for *)
(* the bounds.                                                             *)
(***************************************************************************)
EXTENDS StatusCache, TLC

CONSTANTS c1, c2, t1, t2, d1

TwoCallers == {c1, c2}
TwoTargets == {t1, t2}
OneDirectory == {d1}
SharedDirectory == [t \in TwoTargets |-> d1]

\* All of these are only compared for equality, and both targets stand for
\* the same directory.
Interchangeable ==
    Permutations(TwoCallers) \cup Permutations(TwoTargets) \cup Permutations(Contracts)
        \cup Permutations(Epochs) \cup Permutations(Policies) \cup Permutations(Inodes)
=============================================================================
