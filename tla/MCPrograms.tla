---------------------------- MODULE MCPrograms ----------------------------
(***************************************************************************)
(* The programs the detector models are checked with: the DPSTs of all     *)
(* programs with n tasks in which every spawning task waits.  The shape of *)
(* a DPST does not depend on the schedule, so each program is run depth    *)
(* first: a spawned task runs to its end at once.  Its strands are         *)
(* recorded as TDebugTask does.                                            *)
(***************************************************************************)
EXTENDS Dpst, SequencesExt

\* A program under execution: its tree, the steps of its strands, and the stack of
\* open tasks and phases.
Start == LET r == RootTree(HeadTree, 1, 1) IN
         [g |-> r.tree, strands |-> <<r.tree[r.node].cur_step>>, id |-> 1,
          stack |-> <<[node |-> r.node, phase |-> FALSE]>>]

Under(p) == p.stack[Len(p.stack)]

OpenTask(p, t, before, extra) ==
    [g |-> t.tree, strands |-> p.strands \o before \o <<t.tree[t.node].cur_step>>,
     id |-> p.id + 1, stack |-> p.stack \o extra \o <<[node |-> t.node, phase |-> FALSE]>>]

\* The spawning task goes on in a new step.
SpawnOf(p) ==
    LET t == SpawnTree(p.g, Under(p).node, p.id + 1) IN
    OpenTask(p, t, <<t.tree[t.phase].cur_step>>,
             IF t.phase = Under(p).node THEN <<>>
             ELSE <<[node |-> t.phase, phase |-> TRUE]>>)

RootOf(p) == OpenTask(p, RootTree(p.g, Under(p).node, p.id + 1), <<>>, <<>>)

\* The end of a spawned task, or of a root: the task that waited for it goes on in the
\* step it was in.
ReturnOf(p) ==
    LET s == Front(p.stack)
        under == s[Len(s)]
    IN  [p EXCEPT !.stack = s,
                  !.strands = IF under.phase THEN @ ELSE Append(@, p.g[under.node].cur_step)]

WaitOf(p) ==
    LET s == Front(p.stack)
        g == AddStep(p.g, s[Len(s)].node)
    IN  [p EXCEPT !.stack = s, !.g = g, !.strands = Append(@, g[s[Len(s)].node].cur_step)]

\* n is the number of tasks, `roots' whether tasks also call spawn_root_and_wait.
Continuations(p, n, roots) ==
       (IF p.id < n THEN {SpawnOf(p)} ELSE {})
  \cup (IF p.id < n /\ roots /\ ~Under(p).phase THEN {RootOf(p)} ELSE {})
  \cup (IF Under(p).phase THEN {WaitOf(p)} ELSE {})
  \cup (IF ~Under(p).phase /\ Len(p.stack) > 1 THEN {ReturnOf(p)} ELSE {})

Complete(p, n) == p.id = n /\ Len(p.stack) = 1

RECURSIVE Finish(_, _, _)
Finish(P, n, roots) ==
    LET done == {p \in P : Complete(p, n)}
        more == UNION {Continuations(p, n, roots) : p \in P \ done}
    IN  {[tree |-> p.g, strands |-> p.strands] : p \in done}
        \cup IF more = {} THEN {} ELSE Finish(more, n, roots)

\* The programs that have run, their trees, and what the detector models take of them;
\* they access an address at most `bound' times.
Executed(n, roots) == Finish({Start}, n, roots)

TreesOf(n, roots) == {x.tree : x \in Executed(n, roots)}

ProgramsOf(n, roots, locksets, bound) ==
    {Answers(x.tree) @@ [strands |-> x.strands, locksets |-> locksets, bound |-> bound] :
        x \in Executed(n, roots)}
=============================================================================
