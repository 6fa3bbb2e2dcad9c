----------------------------- MODULE MCLockset -----------------------------
(***************************************************************************)
(* Instance of Lockset for TLC.                                            *)
(***************************************************************************)
EXTENDS Lockset, TLC

\* RecordMem, and regions of up to three operations on two locks.
MCRegions ==
    LET ops(n) == [1..n -> [op : {"acquire", "release"}, lock : Locks]]
    IN  {<<>>} \cup ops(1) \cup ops(2)
        \cup {r \in ops(3) : Cardinality({r[i].lock : i \in 1..3}) = 1}

LocksetSymmetry == Permutations(Locks) \cup Permutations(Threads \ {MainThread})
=============================================================================
