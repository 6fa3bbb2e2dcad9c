----------------------------- MODULE MCHistory -----------------------------
(***************************************************************************)
(* Instance of AccessHistory for TLC.                                      *)
(***************************************************************************)
EXTENDS AccessHistory, MCPrograms

\* Many steps without locks, which fill the pairs and replace what they keep; nested
\* roots, after which a task goes on in its old step; a lock.
PairPrograms == ProgramsOf(5, FALSE, {{}}, 4) \cup ProgramsOf(4, TRUE, {{}}, 4)
LockPrograms == ProgramsOf(4, TRUE, SUBSET {"m1"}, 3)
MCAllPrograms == PairPrograms \cup LockPrograms

\* The trees of these programs meet what TreesObeyLaws (AccessHistory_proofs) asks.
ASSUME LawfulTrees ==
    \A x \in Executed(5, FALSE) \cup Executed(4, TRUE) :
       /\ WellFormed(x.tree) /\ TaskStepsSerial(x.tree)
       /\ RunInOrder(x.tree, x.strands)

SmallPrograms == ProgramsOf(3, FALSE, SUBSET {"m1"}, 3)

OnlyNull == {0}
AnyTask == {0, 3, 6}
=============================================================================
