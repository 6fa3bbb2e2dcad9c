------------------------------- MODULE Dpst -------------------------------
(***************************************************************************)
(* The tree of AFTaskGraph.cpp as a value: a sequence of AFTask nodes in   *)
(* order of allocation, the ways a Capture call extends it, and the two    *)
(* queries on it, LCA and parallel.                                        *)
(*                                                                         *)
(* Every internal node is a FINISH (its subtree ends before the next       *)
(* sibling starts) or an ASYNC (its subtree runs beside what follows it);  *)
(* every leaf is a STEP, a stretch of one task without task operation.     *)
(***************************************************************************)
EXTENDS Integers, Sequences

NodeType == {"NO_TYPE", "ASYNC", "FINISH", "STEP"}

AFTask ==
    [taskId : Nat, parent : Nat, cur_step : Nat, type : NodeType, depth : Nat,
     seq_num : Nat, num_children : Nat, young_ns_child : NodeType,
     sp_root_n_wt_flag : BOOLEAN]

\* A fresh node as initialize_task leaves it, with its place filled in.
NewNode(type, id, parent, depth, seq) ==
    [taskId |-> id, parent |-> parent, cur_step |-> 0, type |-> type,
     depth |-> depth, seq_num |-> seq, num_children |-> 0,
     young_ns_child |-> "NO_TYPE", sp_root_n_wt_flag |-> FALSE]

\* Mutants of Adopt: the counter runs down; it is not advanced; the step is not
\* recorded; a non-step child ends the step of its parent.
AdoptDown(node, type, child) == [node EXCEPT !.num_children = @ - 1]
AdoptNoCount(node, type, child) ==
    [node EXCEPT !.young_ns_child = IF type = "STEP" THEN @ ELSE type,
                 !.cur_step = IF type = "STEP" THEN child ELSE @]
AdoptNoStep(node, type, child) ==
    [node EXCEPT !.num_children = @ + 1,
                 !.young_ns_child = IF type = "STEP" THEN @ ELSE type]
AdoptEndsStep(node, type, child) ==
    [node EXCEPT !.num_children = @ + 1,
                 !.young_ns_child = IF type = "STEP" THEN @ ELSE type,
                 !.cur_step = IF type = "STEP" THEN child ELSE 0]

\* The bookkeeping of a parent whose child number `child' is being added.
Adopt(node, type, child) ==
    [node EXCEPT
       !.num_children = @ + 1,
       !.young_ns_child = IF type = "STEP" THEN @ ELSE type,
       !.cur_step = IF type = "STEP" THEN child ELSE @]

\* Mutant of AddChild: the depth of the parent is copied.
AddChildSameDepth(g, p, type, id) ==
    Append([g EXCEPT ![p] = Adopt(@, type, Len(g) + 1)],
           NewNode(type, id, p, g[p].depth, g[p].num_children))

\* Every creation in the Capture* calls follows this pattern: allocate, link to
\* the parent, take the parent's next sequence number; a STEP becomes the
\* parent's current step, another node becomes its youngest non-step child.
AddChild(g, p, type, id) ==
    Append([g EXCEPT ![p] = Adopt(@, type, Len(g) + 1)],
           NewNode(type, id, p, g[p].depth + 1, g[p].num_children))

AddStep(g, p) == AddChild(g, p, "STEP", g[p].taskId)

\* The tree the constructor of AFTaskGraph starts with: the FINISH of the program.
HeadTree == <<NewNode("FINISH", 0, 0, 0, 0)>>

\* Mutant of checkForStep: every spawn opens a phase.
checkForStepNever(node) == FALSE

checkForStep(node) == node.young_ns_child = "ASYNC"

\* spawn() below node `top': the ASYNC of the child goes into the FINISH of the
\* current spawn phase, which is opened when the youngest non-step child of `top'
\* is no ASYNC.  The child and the spawning task each continue in a new step.
SpawnTree(g, top, id) ==
    LET opened == checkForStep(g[top])
        phase == IF opened THEN top ELSE Len(g) + 1
        g0 == IF opened THEN g ELSE AddChild(g, top, "FINISH", g[top].taskId)
        g1 == AddChild(g0, phase, "ASYNC", id)
    IN  [tree |-> AddStep(AddStep(g1, Len(g1)), phase),
         phase |-> phase, node |-> Len(g1)]

FlagRoot(g, n) == [g EXCEPT ![n].sp_root_n_wt_flag = TRUE]

\* Mutant of RootTree: the step is handed out instead of the FINISH.
RootTreeStep(g, top, id) ==
    LET g1 == FlagRoot(AddChild(g, top, "FINISH", id), Len(g) + 1)
    IN  [tree |-> AddStep(g1, Len(g1)), node |-> Len(g1) + 1]

\* spawn_root_and_wait() below node `top': a FINISH of the root's own with a step;
\* the waiting task gets no new step.
RootTree(g, top, id) ==
    LET g1 == FlagRoot(AddChild(g, top, "FINISH", id), Len(g) + 1)
    IN  [tree |-> AddStep(g1, Len(g1)), node |-> Len(g1)]

-----------------------------------------------------------------------------
\* Where the climb of LCA() and parallel() stands: on two nodes, and where each of
\* them came from (0: it has not moved).
Walk(g) == [cur : 1..Len(g), rem : 1..Len(g), prevCur : 0..Len(g), prevRem : 0..Len(g)]

CurUp(g, w) == [w EXCEPT !.cur = g[@].parent, !.prevCur = w.cur]
RemUp(g, w) == [w EXCEPT !.rem = g[@].parent, !.prevRem = w.rem]

\* The deeper node moves up until the depths agree, then both move.
MoveUp(g, w) ==
    IF g[w.cur].depth > g[w.rem].depth THEN CurUp(g, w)
    ELSE IF g[w.rem].depth > g[w.cur].depth THEN RemUp(g, w)
    ELSE RemUp(g, CurUp(g, w))

\* The climb, until the two nodes meet.
Climb(g, a, b) ==
    LET up[w \in Walk(g)] == IF w.cur = w.rem THEN w ELSE up[MoveUp(g, w)]
    IN  up[[cur |-> a, rem |-> b, prevCur |-> 0, prevRem |-> 0]]

LCA(g, a, b) == Climb(g, a, b).cur

\* The left one of the two branches below the LCA decides.
parallel(g, a, b) ==
    LET m == Climb(g, a, b)
        left == IF g[m.prevRem].seq_num < g[m.prevCur].seq_num
                THEN m.prevRem ELSE m.prevCur
    IN  g[left].type = "ASYNC"

StepsOf(g) == {n \in 1..Len(g) : g[n].type = "STEP"}

\* The two branches below the LCA exist and have distinct sequence numbers: what
\* the assertions of parallel() ask of its arguments.
WellFormedQuery(g, a, b) ==
    LET m == Climb(g, a, b) IN
    /\ m.prevCur # 0 /\ m.prevRem # 0
    /\ g[m.prevCur].seq_num # g[m.prevRem].seq_num

\* What every tree built from HeadTree satisfies.  Parents are allocated before
\* their children, are no steps, and depth counts the edges to the root, so that
\* the climb ends.
ParentsFirst(g) ==
    /\ g # <<>>
    /\ g[1].parent = 0 /\ g[1].depth = 0
    /\ \A n \in 2..Len(g) :
          /\ g[n].parent \in 1..(n - 1)
          /\ g[n].depth = g[g[n].parent].depth + 1
          /\ g[g[n].parent].type # "STEP"

\* Sequence numbers order the children of a node without ties, in the order of
\* their creation.
SiblingsInOrder(g) ==
    /\ \A n \in 2..Len(g) : g[n].seq_num < g[g[n].parent].num_children
    /\ \A m, n \in 2..Len(g) :
          g[m].parent = g[n].parent /\ m < n => g[m].seq_num < g[n].seq_num

\* cur_step is the youngest STEP child, or 0 when there is none.
StepsCurrent(g) ==
    \A n \in 1..Len(g) :
       /\ g[n].cur_step # 0 =>
             /\ g[n].cur_step \in 2..Len(g)
             /\ g[g[n].cur_step].parent = n
             /\ g[g[n].cur_step].type = "STEP"
       /\ \A m \in 2..Len(g) :
             g[m].parent = n /\ g[m].type = "STEP" => m <= g[n].cur_step

WellFormed(g) ==
    g \in Seq(AFTask) /\ ParentsFirst(g) /\ SiblingsInOrder(g) /\ StepsCurrent(g)

\* n is a node of g that may have children.
Internal(g, n) == n \in 1..Len(g) /\ g[n].type # "STEP"

\* h extends g: no node is removed, moved, retyped or renumbered, and a node that
\* has a step keeps having one.
Extends(h, g) ==
    /\ Len(g) <= Len(h)
    /\ \A n \in 1..Len(g) :
          /\ h[n].taskId = g[n].taskId
          /\ h[n].parent = g[n].parent
          /\ h[n].type = g[n].type
          /\ h[n].depth = g[n].depth
          /\ h[n].seq_num = g[n].seq_num
          /\ g[n].cur_step # 0 => h[n].cur_step # 0

-----------------------------------------------------------------------------
\* FINISH f may run inside step s of the same parent: from s to f there are only roots,
\* which the task of s starts and waits for without a step of its own in between.
RunsWithin(g, f, s) ==
    /\ g[s].type = "STEP" /\ s < f /\ g[s].parent = g[f].parent
    /\ \A m \in (s + 1)..f :
          g[m].parent = g[s].parent => g[m].type = "FINISH" /\ g[m].sp_root_n_wt_flag

IsBelow(g, f, n) == LCA(g, n, f) = f

\* The steps st[1], st[2], ... run in this order, a step as often as it occurs.  A step
\* follows the steps to its left, those it is parallel to, and those of a root it
\* waits for; and it does not go on before that root is done.
RunInOrder(g, st) ==
    /\ \A i, j \in DOMAIN st :
          i < j => \/ st[i] = st[j]
                   \/ parallel(g, st[i], st[j])
                   \/ Climb(g, st[i], st[j]).prevCur < Climb(g, st[i], st[j]).prevRem
                   \/ \E f \in 1..Len(g) : RunsWithin(g, f, st[j]) /\ IsBelow(g, f, st[i])
    /\ \A m \in DOMAIN st : \A f \in 1..Len(g) :
          RunsWithin(g, f, st[m]) =>
             ~ \E i, k \in DOMAIN st : /\ i < m /\ m < k
                                       /\ IsBelow(g, f, st[i]) /\ IsBelow(g, f, st[k])

\* areParallel answers for two steps of one task without asking the tree.
TaskStepsSerial(g) ==
    \A a, b \in StepsOf(g) :
       a # b /\ g[a].taskId = g[b].taskId => ~parallel(g, a, b)

\* All that the detector learns about a finished tree: its steps, the answers of
\* areParallel (steps of one task are serial) and the depths of LCA.
Answers(g) ==
    LET steps == StepsOf(g) IN
    [steps |-> steps,
     par |-> {ab \in steps \X steps : /\ g[ab[1]].taskId # g[ab[2]].taskId
                                      /\ parallel(g, ab[1], ab[2])},
     lcaDepth |-> [ab \in steps \X steps |-> g[LCA(g, ab[1], ab[2])].depth]]
=============================================================================
