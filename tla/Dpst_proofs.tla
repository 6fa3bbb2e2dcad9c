---------------------------- MODULE Dpst_proofs ----------------------------
(***************************************************************************)
(* Lemmas about the operations that extend a DPST, then what LCA() and     *)
(* parallel() compute on a well-formed DPST of any size.                   *)
(*                                                                         *)
(* The walk is a recursive function, so that it must first be shown to     *)
(* exist (ClimbStep); what it returns follows by induction on the sum of   *)
(* the two nodes it stands on.  Inductions take the least counterexample.  *)
(*                                                                         *)
(* Last, what a tree of disciplined programs tells of tasks: where their   *)
(* nodes are, which of them run beside each other, and what of this stays  *)
(* when the tree grows at one node.                                        *)
(***************************************************************************)
EXTENDS Dpst, WellFoundedInduction, TLAPS

\* The value of AddChild, node by node.
LEMMA AddChildNodes ==
    ASSUME NEW g \in Seq(AFTask), NEW p \in 1..Len(g), NEW type, NEW id
    PROVE  LET h == AddChild(g, p, type, id) IN
           /\ Len(h) = Len(g) + 1
           /\ \A n \in 1..Len(g) :
                 h[n] = IF n = p THEN Adopt(g[p], type, Len(g) + 1) ELSE g[n]
           /\ h[Len(g) + 1] =
                 NewNode(type, id, p, g[p].depth + 1, g[p].num_children)
BY DEF AddChild

\* What adding a child changes in the fields of the other nodes.
LEMMA AdoptFields ==
    ASSUME NEW node \in AFTask, NEW type \in NodeType, NEW child \in Nat
    PROVE  LET a == Adopt(node, type, child) IN
           /\ a \in AFTask
           /\ a.taskId = node.taskId /\ a.parent = node.parent
           /\ a.type = node.type /\ a.depth = node.depth
           /\ a.seq_num = node.seq_num
           /\ a.num_children = node.num_children + 1
           /\ a.cur_step = IF type = "STEP" THEN child ELSE node.cur_step
<1>1. node.num_children + 1 \in Nat /\ node.young_ns_child \in NodeType
      /\ node.cur_step \in Nat
  BY DEF AFTask
<1> DEFINE young == IF type = "STEP" THEN node.young_ns_child ELSE type
           step  == IF type = "STEP" THEN child ELSE node.cur_step
<1>2. young \in NodeType /\ step \in Nat
  BY <1>1
<1>3. Adopt(node, type, child) =
        [node EXCEPT !.num_children = @ + 1, !.young_ns_child = young, !.cur_step = step]
  BY DEF Adopt
<1> HIDE DEF young, step
<1>4. Adopt(node, type, child) \in AFTask
  BY <1>1, <1>2, <1>3 DEF AFTask
<1>5. /\ Adopt(node, type, child).taskId = node.taskId
      /\ Adopt(node, type, child).parent = node.parent
      /\ Adopt(node, type, child).type = node.type
      /\ Adopt(node, type, child).depth = node.depth
      /\ Adopt(node, type, child).seq_num = node.seq_num
      /\ Adopt(node, type, child).num_children = node.num_children + 1
      /\ Adopt(node, type, child).cur_step = step
  BY <1>3 DEF AFTask
<1> QED
  BY <1>4, <1>5 DEF step

-----------------------------------------------------------------------------
\* The nodes of a tree are nodes.
LEMMA NodeInTree ==
    ASSUME NEW g, WellFormed(g), NEW n \in 1..Len(g)
    PROVE  /\ Len(g) \in Nat
           /\ g[n] \in AFTask
           /\ g[n].taskId \in Nat
<1>1. g \in Seq(AFTask)
  BY DEF WellFormed
<1>2. Len(g) \in Nat /\ g[n] \in AFTask
  BY <1>1
<1> QED
  BY <1>2 DEF AFTask

\* The tree the constructor builds is well formed.
LEMMA HeadTreeWellFormed == WellFormed(HeadTree)
<1> DEFINE head == NewNode("FINISH", 0, 0, 0, 0)
<1>1. /\ head \in AFTask
      /\ head.parent = 0 /\ head.depth = 0 /\ head.cur_step = 0
  <2>1. "FINISH" \in NodeType
    BY DEF NodeType
  <2>3. head \in AFTask
    BY <2>1 DEF AFTask, NewNode, NodeType
  <2>4. head.parent = 0 /\ head.depth = 0 /\ head.cur_step = 0
    BY DEF NewNode
  <2> QED
    BY <2>3, <2>4
<1> HIDE DEF head
<1>2. HeadTree = <<head>>
  BY DEF HeadTree, head
<1>3. HeadTree \in Seq(AFTask) /\ Len(HeadTree) = 1 /\ HeadTree[1] = head
  BY <1>1, <1>2
<1>4. ParentsFirst(HeadTree)
  BY <1>1, <1>2, <1>3 DEF ParentsFirst
<1>5. SiblingsInOrder(HeadTree)
  BY <1>3 DEF SiblingsInOrder
<1>6. StepsCurrent(HeadTree)
  BY <1>1, <1>3 DEF StepsCurrent
<1> QED
  BY <1>3, <1>4, <1>5, <1>6 DEF WellFormed

\* Adding a child below an internal node keeps a tree well formed and extends it.
LEMMA AddChildWellFormed ==
    ASSUME NEW g, WellFormed(g), NEW p \in 1..Len(g), g[p].type # "STEP",
           NEW type \in NodeType, NEW id \in Nat
    PROVE  LET h == AddChild(g, p, type, id) IN
           /\ WellFormed(h)
           /\ Extends(h, g)
           /\ Len(h) = Len(g) + 1
           /\ h[Len(h)].type = type /\ h[Len(h)].taskId = id
           /\ h[Len(h)].parent = p
           /\ type = "STEP" => h[p].cur_step # 0
<1> DEFINE h == AddChild(g, p, type, id)
           k == Len(g) + 1
<1>0. g \in Seq(AFTask) /\ Len(g) \in Nat /\ k \in Nat
  BY DEF WellFormed
<1>1. \A n \in 1..Len(g) : g[n] \in AFTask
  BY <1>0
<1>2. /\ g[p].depth \in Nat /\ g[p].num_children \in Nat
  BY <1>1 DEF AFTask
<1>3. /\ Len(h) = k
      /\ \A n \in 1..Len(g) : h[n] = IF n = p THEN Adopt(g[p], type, k) ELSE g[n]
      /\ h[k] = NewNode(type, id, p, g[p].depth + 1, g[p].num_children)
  BY <1>0, AddChildNodes
<1>4. /\ h[k] \in AFTask
      /\ h[k].taskId = id /\ h[k].parent = p /\ h[k].type = type
      /\ h[k].depth = g[p].depth + 1 /\ h[k].seq_num = g[p].num_children
      /\ h[k].num_children = 0 /\ h[k].cur_step = 0
  <2>1. p \in Nat /\ g[p].depth + 1 \in Nat
    BY <1>0, <1>2
  <2> DEFINE new == NewNode(type, id, p, g[p].depth + 1, g[p].num_children)
  <2>2. /\ new \in AFTask
        /\ new.taskId = id /\ new.parent = p /\ new.type = type
        /\ new.depth = g[p].depth + 1 /\ new.seq_num = g[p].num_children
        /\ new.num_children = 0 /\ new.cur_step = 0
    BY <1>2, <2>1 DEF NewNode, AFTask, NodeType
  <2>3. h[k] = new
    BY <1>3
  <2> HIDE DEF new, h
  <2> QED
    BY <2>2, <2>3
<1>5. \A n \in 1..Len(g) :
         /\ h[n] \in AFTask
         /\ h[n].taskId = g[n].taskId /\ h[n].parent = g[n].parent
         /\ h[n].type = g[n].type /\ h[n].depth = g[n].depth
         /\ h[n].seq_num = g[n].seq_num
         /\ h[n].num_children = IF n = p THEN g[n].num_children + 1 ELSE g[n].num_children
         /\ h[n].cur_step = IF n = p /\ type = "STEP" THEN k ELSE g[n].cur_step
  BY <1>0, <1>1, <1>3, AdoptFields
<1>6. h \in Seq(AFTask)
  <2>1. h = Append([g EXCEPT ![p] = Adopt(@, type, k)],
                   NewNode(type, id, p, g[p].depth + 1, g[p].num_children))
    BY DEF AddChild
  <2>2. Adopt(g[p], type, k) \in AFTask
    BY <1>0, <1>1, AdoptFields
  <2>4. [g EXCEPT ![p] = Adopt(@, type, k)] \in Seq(AFTask)
    BY <1>0, <2>2
  <2>3. NewNode(type, id, p, g[p].depth + 1, g[p].num_children) \in AFTask
    BY <1>3, <1>4
  <2> QED
    BY <2>1, <2>3, <2>4
<1> HIDE DEF h
<1>7. ParentsFirst(h)
  <2>1. h # <<>>
    BY <1>0, <1>3
  <2>2. h[1].parent = 0 /\ h[1].depth = 0
    BY <1>0, <1>5 DEF WellFormed, ParentsFirst
  <2>3. ASSUME NEW n \in 2..Len(h)
        PROVE  /\ h[n].parent \in 1..(n - 1)
               /\ h[n].depth = h[h[n].parent].depth + 1
               /\ h[h[n].parent].type # "STEP"
    <3>1. CASE n = k
      BY <3>1, <1>0, <1>4, <1>5
    <3>2. CASE n \in 2..Len(g)
      <4>1. /\ g[n].parent \in 1..(n - 1)
            /\ g[n].depth = g[g[n].parent].depth + 1
            /\ g[g[n].parent].type # "STEP"
        BY <3>2 DEF WellFormed, ParentsFirst
      <4>2. g[n].parent \in 1..Len(g) /\ n \in 1..Len(g)
        BY <3>2, <4>1, <1>0
      <4> QED
        BY <4>1, <4>2, <1>5
    <3> QED
      BY <3>1, <3>2, <1>0, <1>3
  <2> QED
    BY <2>1, <2>2, <2>3 DEF ParentsFirst
<1>8. \A n \in 2..Len(g) : g[n].parent \in 1..Len(g) /\ g[n].seq_num \in Nat
  <2> SUFFICES ASSUME NEW n \in 2..Len(g)
               PROVE  g[n].parent \in 1..Len(g) /\ g[n].seq_num \in Nat
    OBVIOUS
  <2>1. n \in 1..Len(g) /\ g[n].parent \in 1..(n - 1)
    BY <1>0 DEF WellFormed, ParentsFirst
  <2>2. g[n].seq_num \in Nat
    BY <2>1, <1>1 DEF AFTask
  <2> QED
    BY <1>0, <2>1, <2>2
<1>9. SiblingsInOrder(h)
  <2>1. ASSUME NEW n \in 2..Len(h)
        PROVE  h[n].seq_num < h[h[n].parent].num_children
    <3>1. CASE n = k
      BY <3>1, <1>0, <1>2, <1>4, <1>5
    <3>2. CASE n \in 2..Len(g)
      <4>1. g[n].seq_num < g[g[n].parent].num_children
        BY <3>2 DEF WellFormed, SiblingsInOrder
      <4>2. g[g[n].parent].num_children \in Nat
        BY <3>2, <1>1, <1>8 DEF AFTask
      <4> QED
        <5>1. n \in 1..Len(g) /\ h[n].seq_num = g[n].seq_num
          BY <3>2, <1>0, <1>5
        <5>2. h[n].parent = g[n].parent /\ h[n].parent \in 1..Len(g)
          BY <3>2, <5>1, <1>5, <1>8
        <5>3. \/ h[h[n].parent].num_children = g[g[n].parent].num_children
              \/ h[h[n].parent].num_children = g[g[n].parent].num_children + 1
          BY <5>2, <1>5
        <5>4. g[n].seq_num \in Nat
          BY <3>2, <1>8
        <5> QED
          BY <4>1, <4>2, <5>1, <5>3, <5>4
    <3> QED
      BY <3>1, <3>2, <1>0, <1>3
  <2>2. ASSUME NEW m \in 2..Len(h), NEW n \in 2..Len(h),
               h[m].parent = h[n].parent, m < n
        PROVE  h[m].seq_num < h[n].seq_num
    <3>0. m \in 2..Len(g)
      BY <2>2, <1>0, <1>3
    <3>1. CASE n = k
      <4>1. g[m].parent = p
        BY <3>0, <3>1, <2>2, <1>0, <1>4, <1>5
      <4>2. g[m].seq_num < g[p].num_children
        BY <3>0, <4>1 DEF WellFormed, SiblingsInOrder
      <4> QED
        BY <3>0, <3>1, <4>2, <1>0, <1>4, <1>5
    <3>2. CASE n \in 2..Len(g)
      BY <3>0, <3>2, <2>2, <1>0, <1>5 DEF WellFormed, SiblingsInOrder
    <3> QED
      BY <3>1, <3>2, <1>0, <1>3
  <2> QED
    BY <2>1, <2>2 DEF SiblingsInOrder
<1>10. StepsCurrent(h)
  <2> SUFFICES ASSUME NEW n \in 1..Len(h)
               PROVE  /\ h[n].cur_step # 0 =>
                           /\ h[n].cur_step \in 2..Len(h)
                           /\ h[h[n].cur_step].parent = n
                           /\ h[h[n].cur_step].type = "STEP"
                      /\ \A m \in 2..Len(h) :
                           h[m].parent = n /\ h[m].type = "STEP" => m <= h[n].cur_step
    BY DEF StepsCurrent
  <2>1. CASE n = k
    BY <2>1, <1>0, <1>3, <1>4, <1>5, <1>8
  <2>2. CASE n \in 1..Len(g)
    <3>1. /\ g[n].cur_step # 0 =>
               /\ g[n].cur_step \in 2..Len(g)
               /\ g[g[n].cur_step].parent = n
               /\ g[g[n].cur_step].type = "STEP"
          /\ \A m \in 2..Len(g) :
               g[m].parent = n /\ g[m].type = "STEP" => m <= g[n].cur_step
      BY <2>2 DEF WellFormed, StepsCurrent
    <3>2. g[n].cur_step \in Nat
      BY <2>2, <1>1 DEF AFTask
    <3>3. CASE n = p /\ type = "STEP"
      BY <3>3, <2>2, <1>0, <1>3, <1>4, <1>5
    <3>4. CASE ~(n = p /\ type = "STEP")
      <4>1. h[n].cur_step = g[n].cur_step
        BY <3>4, <2>2, <1>5
      <4>2. ASSUME NEW m \in 2..Len(h), h[m].parent = n, h[m].type = "STEP"
            PROVE  m \in 2..Len(g) /\ g[m].parent = n /\ g[m].type = "STEP"
        <5>1. m # k
          BY <4>2, <3>4, <1>4
        <5>2. m \in 2..Len(g) /\ m \in 1..Len(g)
          BY <5>1, <1>0, <1>3
        <5> QED
          BY <4>2, <5>2, <1>5
      <4> QED
        BY <4>1, <4>2, <3>1, <1>0, <1>3, <1>5
    <3> QED
      BY <3>3, <3>4
  <2> QED
    BY <2>1, <2>2, <1>0, <1>3
<1>11. Extends(h, g)
  BY <1>0, <1>3, <1>5 DEF Extends
<1> QED
  BY <1>0, <1>3, <1>4, <1>5, <1>6, <1>7, <1>9, <1>10, <1>11 DEF WellFormed, h

-----------------------------------------------------------------------------
\* Growing twice is growing.
LEMMA ExtendsTransitive ==
    ASSUME NEW g, NEW h, NEW k, WellFormed(g), WellFormed(h), WellFormed(k),
           Extends(h, g), Extends(k, h)
    PROVE  Extends(k, g)
<1>1. Len(g) \in Nat /\ Len(h) \in Nat /\ Len(k) \in Nat
  BY DEF WellFormed
<1> QED
  BY <1>1 DEF Extends

\* A step added below an internal node: what its parent and the other internal
\* nodes are in the new tree.
LEMMA AddStepWellFormed ==
    ASSUME NEW g, WellFormed(g), NEW p \in 1..Len(g), g[p].type # "STEP"
    PROVE  /\ WellFormed(AddStep(g, p))
           /\ Extends(AddStep(g, p), g)
           /\ Len(AddStep(g, p)) = Len(g) + 1
           /\ AddStep(g, p)[p].cur_step # 0
<1>1. g[p].taskId \in Nat
  BY NodeInTree
<1>2. "STEP" \in NodeType
  BY DEF NodeType
<1> QED
  BY <1>1, <1>2, AddChildWellFormed DEF AddStep

\* The tree after a spawn: well formed, an extension of the old one, and both the
\* phase that stays open and the node of the child are internal nodes, the
\* child's with a step to run in.
LEMMA SpawnTreeWellFormed ==
    ASSUME NEW g, WellFormed(g), NEW top \in 1..Len(g), g[top].type # "STEP",
           NEW id \in Nat
    PROVE  LET s == SpawnTree(g, top, id) IN
           /\ WellFormed(s.tree)
           /\ Extends(s.tree, g)
           /\ s.phase \in 1..Len(s.tree) /\ s.tree[s.phase].type # "STEP"
           /\ s.node \in 1..Len(s.tree) /\ s.tree[s.node].type # "STEP"
           /\ s.tree[s.node].cur_step # 0
<1> DEFINE opened == checkForStep(g[top])
           phase == IF opened THEN top ELSE Len(g) + 1
           g0 == IF opened THEN g ELSE AddChild(g, top, "FINISH", g[top].taskId)
           g1 == AddChild(g0, phase, "ASYNC", id)
           g2 == AddStep(g1, Len(g1))
           g3 == AddStep(g2, phase)
<1>0. /\ Len(g) \in Nat
      /\ g[top].taskId \in Nat
      /\ {"FINISH", "ASYNC", "STEP"} \subseteq NodeType
      /\ "FINISH" # "STEP" /\ "ASYNC" # "STEP"
  BY NodeInTree DEF NodeType
<1>1. /\ WellFormed(g0) /\ Extends(g0, g)
      /\ phase \in 1..Len(g0) /\ g0[phase].type # "STEP"
  <2>1. CASE opened
    BY <2>1, <1>0 DEF Extends
  <2>2. CASE ~opened
    BY <2>2, <1>0, AddChildWellFormed
  <2> QED
    BY <2>1, <2>2
<1> HIDE DEF g0, phase, opened
<1>2. /\ WellFormed(g1) /\ Extends(g1, g0)
      /\ Len(g1) = Len(g0) + 1 /\ g1[Len(g1)].type = "ASYNC"
  BY <1>0, <1>1, AddChildWellFormed
<1> HIDE DEF g1
<1>3. Len(g0) \in Nat /\ Len(g1) \in 1..Len(g1)
  BY <1>1, <1>2 DEF WellFormed
<1>4. /\ WellFormed(g2) /\ Extends(g2, g1) /\ Len(g2) = Len(g1) + 1
      /\ g2[Len(g1)].cur_step # 0
  BY <1>0, <1>2, <1>3, AddStepWellFormed
<1> HIDE DEF g2
<1>5. phase \in 1..Len(g2) /\ g2[phase].type # "STEP"
  BY <1>1, <1>2, <1>3, <1>4 DEF Extends
<1>6. WellFormed(g3) /\ Extends(g3, g2) /\ Len(g3) = Len(g2) + 1
  BY <1>4, <1>5, AddStepWellFormed
<1> HIDE DEF g3
<1>7. Extends(g3, g)
  BY <1>1, <1>2, <1>4, <1>6, ExtendsTransitive
<1>8. /\ phase \in 1..Len(g3) /\ g3[phase].type # "STEP"
      /\ Len(g1) \in 1..Len(g3) /\ g3[Len(g1)].type # "STEP"
      /\ g3[Len(g1)].cur_step # 0
  BY <1>0, <1>2, <1>3, <1>4, <1>5, <1>6 DEF Extends
<1>9. SpawnTree(g, top, id) = [tree |-> g3, phase |-> phase, node |-> Len(g1)]
  BY DEF SpawnTree, g3, g2, g1, g0, phase, opened
<1> QED
  BY <1>6, <1>7, <1>8, <1>9

\* Setting the flag of a root changes nothing these properties look at.
LEMMA FlagRootWellFormed ==
    ASSUME NEW g, WellFormed(g), NEW p \in 1..Len(g)
    PROVE  /\ WellFormed(FlagRoot(g, p))
           /\ Extends(FlagRoot(g, p), g)
           /\ Len(FlagRoot(g, p)) = Len(g)
<1> DEFINE h == FlagRoot(g, p)
           node == [g[p] EXCEPT !.sp_root_n_wt_flag = TRUE]
<1>1. g \in Seq(AFTask) /\ Len(g) \in Nat /\ \A n \in 1..Len(g) : g[n] \in AFTask
  BY NodeInTree DEF WellFormed
<1>2. h = [g EXCEPT ![p] = node]
  BY DEF FlagRoot
<1>3. /\ node \in AFTask
      /\ node.taskId = g[p].taskId /\ node.parent = g[p].parent
      /\ node.type = g[p].type /\ node.depth = g[p].depth
      /\ node.seq_num = g[p].seq_num
      /\ node.num_children = g[p].num_children
      /\ node.cur_step = g[p].cur_step
  <2>1. node \in AFTask
    BY <1>1, Zenon DEF AFTask
  <2> QED
    BY <1>1, <2>1, Zenon DEF AFTask
<1> HIDE DEF h, node
<1>4. /\ h \in Seq(AFTask) /\ Len(h) = Len(g)
      /\ \A n \in 1..Len(g) : n # p => h[n] = g[n]
      /\ h[p] = node
  BY <1>1, <1>2, <1>3
<1>5. \A n \in 1..Len(g) :
         /\ h[n].taskId = g[n].taskId /\ h[n].parent = g[n].parent
         /\ h[n].type = g[n].type /\ h[n].depth = g[n].depth
         /\ h[n].seq_num = g[n].seq_num
         /\ h[n].num_children = g[n].num_children
         /\ h[n].cur_step = g[n].cur_step
  BY <1>3, <1>4
<1>6. \A n \in 2..Len(g) : g[n].parent \in 1..Len(g) /\ n \in 1..Len(g)
  BY <1>1 DEF WellFormed, ParentsFirst
<1>7. ParentsFirst(h)
  <2>1. h # <<>> /\ 1 \in 1..Len(g)
    BY <1>1, <1>4
  <2>2. h[1].parent = 0 /\ h[1].depth = 0
    BY <2>1, <1>5 DEF WellFormed, ParentsFirst
  <2>3. ASSUME NEW n \in 2..Len(g)
        PROVE  /\ h[n].parent \in 1..(n - 1)
               /\ h[n].depth = h[h[n].parent].depth + 1
               /\ h[h[n].parent].type # "STEP"
    <3>1. /\ g[n].parent \in 1..(n - 1)
          /\ g[n].depth = g[g[n].parent].depth + 1
          /\ g[g[n].parent].type # "STEP"
      BY DEF WellFormed, ParentsFirst
    <3> QED
      BY <3>1, <1>5, <1>6
  <2> QED
    BY <2>1, <2>2, <2>3, <1>4 DEF ParentsFirst
<1>8. SiblingsInOrder(h)
  <2>1. ASSUME NEW n \in 2..Len(g)
        PROVE  h[n].seq_num < h[h[n].parent].num_children
    <3>1. g[n].seq_num < g[g[n].parent].num_children
      BY DEF WellFormed, SiblingsInOrder
    <3> QED
      BY <3>1, <1>5, <1>6
  <2>2. ASSUME NEW m \in 2..Len(g), NEW n \in 2..Len(g),
               h[m].parent = h[n].parent, m < n
        PROVE  h[m].seq_num < h[n].seq_num
    <3>1. g[m].parent = g[n].parent
      BY <2>2, <1>5, <1>6
    <3>2. g[m].seq_num < g[n].seq_num
      BY <2>2, <3>1 DEF WellFormed, SiblingsInOrder
    <3> QED
      BY <3>2, <1>5, <1>6
  <2> QED
    BY <2>1, <2>2, <1>4 DEF SiblingsInOrder
<1>9. StepsCurrent(h)
  <2>1. \A n \in 1..Len(g) : g[n].cur_step \in 2..Len(g) => g[n].cur_step \in 1..Len(g)
    BY <1>1
  <2> QED
    BY <2>1, <1>4, <1>5, <1>6 DEF WellFormed, StepsCurrent
<1>10. Extends(h, g)
  BY <1>1, <1>4, <1>5 DEF Extends
<1> QED
  BY <1>4, <1>7, <1>8, <1>9, <1>10 DEF WellFormed, h

\* The tree after a root is started.
LEMMA RootTreeWellFormed ==
    ASSUME NEW g, WellFormed(g), NEW top \in 1..Len(g), g[top].type # "STEP",
           NEW id \in Nat
    PROVE  LET r == RootTree(g, top, id) IN
           /\ WellFormed(r.tree)
           /\ Extends(r.tree, g)
           /\ r.node \in 1..Len(r.tree) /\ r.tree[r.node].type # "STEP"
           /\ r.tree[r.node].cur_step # 0
<1> DEFINE g0 == AddChild(g, top, "FINISH", id)
           g1 == FlagRoot(g0, Len(g) + 1)
           g2 == AddStep(g1, Len(g1))
<1>0. "FINISH" \in NodeType /\ "FINISH" # "STEP" /\ Len(g) \in Nat
  BY DEF NodeType, WellFormed
<1>1. /\ WellFormed(g0) /\ Extends(g0, g)
      /\ Len(g0) = Len(g) + 1 /\ g0[Len(g0)].type = "FINISH"
  BY <1>0, AddChildWellFormed
<1> HIDE DEF g0
<1>2. Len(g) + 1 \in 1..Len(g0)
  BY <1>0, <1>1
<1>3. WellFormed(g1) /\ Extends(g1, g0) /\ Len(g1) = Len(g) + 1
  BY <1>1, <1>2, FlagRootWellFormed
<1> HIDE DEF g1
<1>4. Len(g1) \in 1..Len(g1) /\ g1[Len(g1)].type # "STEP"
  BY <1>0, <1>1, <1>2, <1>3 DEF Extends
<1>5. /\ WellFormed(g2) /\ Extends(g2, g1) /\ Len(g2) = Len(g1) + 1
      /\ g2[Len(g1)].cur_step # 0
  BY <1>3, <1>4, AddStepWellFormed
<1> HIDE DEF g2
<1>6. Extends(g2, g)
  BY <1>1, <1>3, <1>5, ExtendsTransitive
<1>7. Len(g1) \in 1..Len(g2) /\ g2[Len(g1)].type # "STEP"
  BY <1>0, <1>3, <1>4, <1>5 DEF Extends
<1>8. RootTree(g, top, id) = [tree |-> g2, node |-> Len(g1)]
  BY DEF RootTree, g2, g1, g0
<1> QED
  BY <1>5, <1>6, <1>7, <1>8

-----------------------------------------------------------------------------
(* The walk to the lowest common ancestor *)

\* The least number of a set.
LEMMA NatMin ==
    ASSUME NEW T \in SUBSET Nat, T # {}
    PROVE  \E m \in T : \A n \in T : m <= n
<1> DEFINE R == OpToRel(<, Nat)
<1>1. IsWellFoundedOn(R, Nat)
  BY NatLessThanWellFounded
<1>2. \A x, y \in Nat : x < y => <<x, y>> \in R
  BY DEF OpToRel
<1> HIDE DEF R
<1>3. PICK m \in T : \A y \in T : ~ (<<y, m>> \in R)
  BY <1>1, WFMin, Zenon
<1>4. \A n \in T : ~(n < m)
  BY <1>2, <1>3, Zenon
<1> QED
  BY <1>4

Nodes(g) == 1..Len(g)

\* The fields of the nodes that the walk looks at.
LEMMA TreeNodes ==
    ASSUME NEW g, WellFormed(g)
    PROVE  /\ Len(g) \in Nat /\ 1 \in Nodes(g)
           /\ g[1].parent = 0 /\ g[1].depth = 0
           /\ \A n \in Nodes(g) :
                 /\ n \in Nat /\ g[n].depth \in Nat /\ g[n].seq_num \in Nat
                 /\ n # 1 => /\ g[n].parent \in Nodes(g)
                             /\ g[n].parent < n
                             /\ g[n].depth = g[g[n].parent].depth + 1
                             /\ g[g[n].parent].type # "STEP"
           /\ \A m, n \in Nodes(g) :
                 /\ m # 1 /\ n # 1 /\ g[m].parent = g[n].parent /\ m < n
                 => g[m].seq_num < g[n].seq_num
<1>1. g \in Seq(AFTask) /\ Len(g) \in Nat /\ g # <<>>
  BY DEF WellFormed, ParentsFirst
<1>2. Len(g) >= 1
  BY <1>1
<1>3. \A n \in 1..Len(g) : g[n] \in AFTask
  BY <1>1
<1>4. \A n \in 1..Len(g) : g[n].depth \in Nat /\ g[n].seq_num \in Nat
  BY <1>3 DEF AFTask
<1>5. \A n \in 1..Len(g) : n # 1 => n \in 2..Len(g)
  BY <1>1
<1> QED
  BY <1>1, <1>2, <1>4, <1>5 DEF WellFormed, ParentsFirst, SiblingsInOrder, Nodes

-----------------------------------------------------------------------------
(* The walk is defined by its steps *)

ClimbFcn(g) ==
    LET up[w \in Walk(g)] == IF w.cur = w.rem THEN w ELSE up[MoveUp(g, w)] IN up

Start(a, b) == [cur |-> a, rem |-> b, prevCur |-> 0, prevRem |-> 0]

\* The walk in terms of its function.
LEMMA ClimbIsFcn == \A g, a, b : Climb(g, a, b) = ClimbFcn(g)[Start(a, b)]
BY DEF Climb, ClimbFcn, Start

\* One step of the walk, its continuation being f.
Step(g, f, w) == IF w.cur = w.rem THEN w ELSE f[MoveUp(g, w)]

\* f walks correctly from nodes whose sum is at most n.
Walks(g, f, n) == \A w \in Walk(g) : w.cur + w.rem <= n => f[w] = Step(g, f, w)

\* Where a walk leads when one of its nodes moves up.
LEMMA UpFields ==
    ASSUME NEW g, WellFormed(g), NEW w \in Walk(g)
    PROVE  /\ w.cur # 1 => LET u == CurUp(g, w) IN
                 /\ u \in Walk(g)
                 /\ u.cur = g[w.cur].parent /\ u.prevCur = w.cur
                 /\ u.rem = w.rem /\ u.prevRem = w.prevRem
           /\ w.rem # 1 => LET u == RemUp(g, w) IN
                 /\ u \in Walk(g)
                 /\ u.cur = w.cur /\ u.prevCur = w.prevCur
                 /\ u.rem = g[w.rem].parent /\ u.prevRem = w.rem
<1>1. \A n \in 1..Len(g) : n # 1 => g[n].parent \in 1..Len(g)
  BY TreeNodes DEF Nodes
<1>2. 1..Len(g) \subseteq 0..Len(g)
  BY TreeNodes
<1> QED
  BY <1>1, <1>2 DEF Walk, CurUp, RemUp

\* The three ways the walk moves up.
LEMMA MoveUpCases ==
    ASSUME NEW g, WellFormed(g), NEW w \in Walk(g), w.cur # w.rem
    PROVE  LET m == MoveUp(g, w) IN
           /\ m \in Walk(g)
           /\ m.cur + m.rem < w.cur + w.rem
           /\ \/ /\ g[w.cur].depth > g[w.rem].depth /\ w.cur # 1
                 /\ m.cur = g[w.cur].parent /\ m.prevCur = w.cur
                 /\ m.rem = w.rem /\ m.prevRem = w.prevRem
              \/ /\ g[w.rem].depth > g[w.cur].depth /\ w.rem # 1
                 /\ m.cur = w.cur /\ m.prevCur = w.prevCur
                 /\ m.rem = g[w.rem].parent /\ m.prevRem = w.rem
              \/ /\ g[w.cur].depth = g[w.rem].depth /\ w.cur # 1 /\ w.rem # 1
                 /\ m.cur = g[w.cur].parent /\ m.prevCur = w.cur
                 /\ m.rem = g[w.rem].parent /\ m.prevRem = w.rem
<1> DEFINE c == w.cur
           r == w.rem
           m == MoveUp(g, w)
<1>1. c \in Nodes(g) /\ r \in Nodes(g)
  BY DEF Walk, Nodes
<1>2. /\ c \in Nat /\ r \in Nat /\ g[c].depth \in Nat /\ g[r].depth \in Nat
      /\ c # 1 => g[c].parent \in Nat /\ g[c].parent < c
      /\ r # 1 => g[r].parent \in Nat /\ g[r].parent < r
      /\ c # 1 => g[c].depth # 0
      /\ r # 1 => g[r].depth # 0
      /\ g[1].depth = 0
  <2>1. \A n \in Nodes(g) : n # 1 => /\ g[n].parent \in Nodes(g) /\ g[n].parent < n
                                     /\ g[n].depth = g[g[n].parent].depth + 1
    BY TreeNodes
  <2>2. \A n \in Nodes(g) : n \in Nat /\ g[n].depth \in Nat
    BY TreeNodes
  <2>3. \A n \in Nodes(g) : n # 1 => g[n].depth # 0 /\ g[n].parent \in Nat
    BY <2>1, <2>2
  <2>4. g[1].depth = 0
    BY TreeNodes
  <2> QED
    BY <1>1, <2>1, <2>2, <2>3, <2>4
<1>3. CASE g[c].depth > g[r].depth
  <2>1. m = CurUp(g, w) /\ c # 1
    BY <1>2, <1>3 DEF MoveUp
  <2>2. /\ m \in Walk(g)
        /\ m.cur = g[c].parent /\ m.prevCur = c /\ m.rem = r /\ m.prevRem = w.prevRem
    BY <2>1, UpFields
  <2> QED
    BY <2>1, <2>2, <1>2, <1>3
<1>4. CASE g[r].depth > g[c].depth
  <2>1. m = RemUp(g, w) /\ r # 1
    BY <1>2, <1>4 DEF MoveUp
  <2>2. /\ m \in Walk(g)
        /\ m.cur = c /\ m.prevCur = w.prevCur /\ m.rem = g[r].parent /\ m.prevRem = r
    BY <2>1, UpFields
  <2> QED
    BY <2>1, <2>2, <1>2, <1>4
<1>5. CASE g[c].depth = g[r].depth
  <2>1. c # 1 /\ r # 1
    BY <1>1, <1>2, <1>5, TreeNodes
  <2>2. m = RemUp(g, CurUp(g, w))
    BY <1>2, <1>5 DEF MoveUp
  <2> DEFINE u == CurUp(g, w)
  <2>3. /\ u \in Walk(g)
        /\ u.cur = g[c].parent /\ u.prevCur = c /\ u.rem = r /\ u.prevRem = w.prevRem
    BY <2>1, UpFields
  <2> HIDE DEF u
  <2>4. /\ RemUp(g, u) \in Walk(g)
        /\ RemUp(g, u).cur = u.cur /\ RemUp(g, u).prevCur = u.prevCur
        /\ RemUp(g, u).rem = g[r].parent /\ RemUp(g, u).prevRem = r
    BY <2>1, <2>3, UpFields
  <2>5. m = RemUp(g, u)
    BY <2>2 DEF u
  <2> QED
    BY <2>1, <2>3, <2>4, <2>5, <1>2, <1>5
<1> QED
  BY <1>2, <1>3, <1>4, <1>5

\* Functions that walk correctly further and further exist.
LEMMA WalkExists ==
    ASSUME NEW g, WellFormed(g)
    PROVE  \A n \in Nat : \E f : Walks(g, f, n)
<1> DEFINE Bad == {n \in Nat : ~ \E f : Walks(g, f, n)}
<1> SUFFICES ASSUME Bad # {}
             PROVE  FALSE
  OBVIOUS
<1>1. PICK n \in Bad : \A k \in Bad : n <= k
  <2> HIDE DEF Bad
  <2>1. Bad \in SUBSET Nat
    BY DEF Bad
  <2> QED
    BY <2>1, NatMin
<1>2. n \in Nat /\ \A w \in Walk(g) : w.cur \in Nat /\ w.rem \in Nat /\ w.cur > 0
  BY DEF Walk
<1>3. n # 0
  <2>1. \A w \in Walk(g) : ~(w.cur + w.rem <= 0)
    BY <1>2
  <2>2. Walks(g, <<>>, 0)
    BY <2>1 DEF Walks
  <2> QED
    BY <2>2
<1>4. PICK f : Walks(g, f, n - 1)
  BY <1>1, <1>2, <1>3
<1> DEFINE h == [w \in Walk(g) |-> Step(g, f, w)]
<1>5. \A w \in Walk(g) : h[w] = Step(g, f, w)
  OBVIOUS
<1> HIDE DEF h
<1>6. \A w \in Walk(g) : w.cur + w.rem < n => h[w] = f[w]
  <2>1. \A w \in Walk(g) : w.cur + w.rem < n => w.cur + w.rem <= n - 1
    BY <1>2
  <2> QED
    BY <1>4, <1>5, <2>1 DEF Walks
<1>7. ASSUME NEW w \in Walk(g), w.cur + w.rem <= n
      PROVE  h[w] = Step(g, h, w)
  <2>1. CASE w.cur = w.rem
    BY <1>5, <2>1 DEF Step
  <2>2. CASE w.cur # w.rem
    <3>1. /\ MoveUp(g, w) \in Walk(g)
          /\ MoveUp(g, w).cur + MoveUp(g, w).rem < n
      <4>1. /\ MoveUp(g, w) \in Walk(g)
            /\ MoveUp(g, w).cur + MoveUp(g, w).rem < w.cur + w.rem
        BY <2>2, MoveUpCases
      <4> QED
        BY <1>2, <1>7, <4>1
    <3> QED
      BY <1>5, <1>6, <2>2, <3>1 DEF Step
  <2> QED
    BY <2>1, <2>2
<1>8. Walks(g, h, n)
  BY <1>7 DEF Walks
<1> QED
  BY <1>8

\* The recursive function exists, and takes the steps of its definition.
LEMMA ClimbStep ==
    ASSUME NEW g, WellFormed(g), NEW w \in Walk(g)
    PROVE  ClimbFcn(g)[w] = IF w.cur = w.rem THEN w ELSE ClimbFcn(g)[MoveUp(g, w)]
<1> DEFINE Body(f) == [v \in Walk(g) |-> IF v.cur = v.rem THEN v ELSE f[MoveUp(g, v)]]
<1>1. Len(g) \in Nat /\ \A v \in Walk(g) : v.cur + v.rem <= 2 * Len(g)
  BY TreeNodes DEF Walk
<1>2. PICK f : Walks(g, f, 2 * Len(g))
  <2>1. 2 * Len(g) \in Nat
    BY <1>1
  <2> QED
    BY <2>1, WalkExists
<1>3. \A v \in Walk(g) : f[v] = IF v.cur = v.rem THEN v ELSE f[MoveUp(g, v)]
  BY <1>1, <1>2 DEF Walks, Step
<1> DEFINE h == Body(f)
<1>4. \A v \in Walk(g) : h[v] = f[v]
  BY <1>3
<1>5. \A v \in Walk(g) : v.cur # v.rem => h[MoveUp(g, v)] = f[MoveUp(g, v)]
  <2> HIDE DEF h
  <2> QED
    BY <1>4, MoveUpCases
<1>6. Body(h) = h
  BY <1>5
<1>7. ClimbFcn(g) = CHOOSE up : up = Body(up)
  BY DEF ClimbFcn
<1>8. ClimbFcn(g) = Body(ClimbFcn(g))
  <2> HIDE DEF Body, h
  <2> QED
    BY <1>6, <1>7
<1> QED
  BY <1>8

-----------------------------------------------------------------------------
(* Ancestors *)

UpClosed(g, S) == \A x \in S : x # 1 => g[x].parent \in S

\* The nodes above n, and n: the least set with n that holds the parents of its nodes.
Anc(g, n) ==
    {a \in Nodes(g) : \A S \in SUBSET Nodes(g) : n \in S /\ UpClosed(g, S) => a \in S}

\* The parent of a node is an earlier node.
LEMMA Parents ==
    ASSUME NEW g, WellFormed(g), NEW n \in Nodes(g), n # 1
    PROVE  /\ g[n].parent \in Nodes(g) /\ g[n].parent < n
           /\ n \in Nat /\ g[n].parent \in Nat
           /\ g[n].depth \in Nat /\ g[g[n].parent].depth \in Nat
           /\ g[n].depth = g[g[n].parent].depth + 1
BY TreeNodes

\* A node, and what is above its parent, is above it.
LEMMA AncBasics ==
    ASSUME NEW g, WellFormed(g), NEW n \in Nodes(g)
    PROVE  /\ Anc(g, n) \subseteq Nodes(g)
           /\ n \in Anc(g, n)
           /\ UpClosed(g, Anc(g, n))
           /\ n # 1 => Anc(g, g[n].parent) \subseteq Anc(g, n)
<1>1. Anc(g, n) \subseteq Nodes(g) /\ n \in Anc(g, n)
  BY DEF Anc
<1>2. UpClosed(g, Anc(g, n))
  BY Parents DEF Anc, UpClosed
<1>3. n # 1 => Anc(g, g[n].parent) \subseteq Anc(g, n)
  BY DEF Anc, UpClosed
<1> QED
  BY <1>1, <1>2, <1>3

\* A set with n that is closed under parents holds the ancestors of n.
LEMMA AncLeast ==
    ASSUME NEW g, NEW n, NEW S \in SUBSET Nodes(g), n \in S, UpClosed(g, S)
    PROVE  Anc(g, n) \subseteq S
BY DEF Anc

\* Above a node: itself and what is above its parent.
LEMMA AncSplit ==
    ASSUME NEW g, WellFormed(g), NEW n \in Nodes(g)
    PROVE  Anc(g, n) = IF n = 1 THEN {1} ELSE {n} \cup Anc(g, g[n].parent)
<1>1. CASE n = 1
  <2>1. {1} \in SUBSET Nodes(g) /\ UpClosed(g, {1})
    BY <1>1 DEF UpClosed
  <2> QED
    BY <1>1, <2>1, AncLeast, AncBasics
<1>2. CASE n # 1
  <2> DEFINE S == {n} \cup Anc(g, g[n].parent)
  <2>1. g[n].parent \in Nodes(g)
    BY <1>2, Parents
  <2>2. /\ S \in SUBSET Nodes(g) /\ n \in S
        /\ g[n].parent \in Anc(g, g[n].parent)
        /\ UpClosed(g, Anc(g, g[n].parent))
    BY <2>1, AncBasics
  <2>3. UpClosed(g, S)
    BY <2>2 DEF UpClosed
  <2>4. Anc(g, n) \subseteq S
    BY <2>2, <2>3, AncLeast
  <2> QED
    BY <1>2, <2>4, AncBasics
<1> QED
  BY <1>1, <1>2

\* Ancestors of ancestors are ancestors.
LEMMA AncTransitive ==
    ASSUME NEW g, WellFormed(g), NEW n \in Nodes(g), NEW a \in Anc(g, n)
    PROVE  Anc(g, a) \subseteq Anc(g, n)
BY AncBasics, AncLeast

\* A proper ancestor was allocated before and is less deep.
LEMMA AncOrder ==
    ASSUME NEW g, WellFormed(g), NEW n \in Nodes(g), NEW a \in Anc(g, n)
    PROVE  /\ a \in Nat /\ n \in Nat /\ a <= n
           /\ g[a].depth \in Nat /\ g[n].depth \in Nat
           /\ a # n => g[a].depth < g[n].depth
<1> DEFINE S == {x \in Nodes(g) : x <= n /\ (x # n => g[x].depth < g[n].depth)}
<1>1. \A x \in Nodes(g) : x \in Nat /\ g[x].depth \in Nat
  BY TreeNodes
<1>2. UpClosed(g, S)
  <2> SUFFICES ASSUME NEW x \in S, x # 1
               PROVE  g[x].parent \in S
    BY DEF UpClosed
  <2>1. /\ g[x].parent \in Nodes(g) /\ g[x].parent < x
        /\ g[x].depth = g[g[x].parent].depth + 1
    BY Parents
  <2> QED
    BY <1>1, <2>1
<1>3. n \in S
  BY <1>1
<1>4. Anc(g, n) \subseteq S
  BY <1>2, <1>3, AncLeast
<1> QED
  BY <1>1, <1>4

\* Two ancestors of a node lie one above the other.
LEMMA AncChain ==
    ASSUME NEW g, WellFormed(g), NEW n \in Nodes(g), NEW a \in Anc(g, n),
           NEW b \in Anc(g, n)
    PROVE  a \in Anc(g, b) \/ b \in Anc(g, a)
<1> DEFINE S == {x \in Nodes(g) : a \in Anc(g, x) \/ x \in Anc(g, a)}
<1>1. a \in Nodes(g)
  BY AncBasics
<1>2. UpClosed(g, S)
  <2> SUFFICES ASSUME NEW x \in S, x # 1
               PROVE  g[x].parent \in S
    BY DEF UpClosed
  <2>1. g[x].parent \in Nodes(g)
    BY Parents
  <2>2. CASE x \in Anc(g, a)
    BY <1>1, <2>1, <2>2, AncBasics DEF UpClosed
  <2>3. CASE a \in Anc(g, x) /\ a # x
    BY <2>1, <2>3, AncSplit
  <2>4. CASE a = x
    BY <1>1, <2>1, <2>4, AncBasics DEF UpClosed
  <2> QED
    BY <2>2, <2>3, <2>4
<1>3. n \in S
  OBVIOUS
<1>4. Anc(g, n) \subseteq S
  BY <1>2, <1>3, AncLeast
<1> QED
  BY <1>4

\* The root is above every node.
LEMMA AncRoot ==
    ASSUME NEW g, WellFormed(g), NEW n \in Nodes(g)
    PROVE  1 \in Anc(g, n)
<1>1. Anc(g, n) \in SUBSET Nat /\ Anc(g, n) # {}
  BY AncBasics, TreeNodes
<1>2. PICK m \in Anc(g, n) : \A x \in Anc(g, n) : m <= x
  BY <1>1, NatMin
<1>3. m \in Nodes(g)
  BY AncBasics
<1>4. m # 1 => g[m].parent \in Anc(g, n) /\ g[m].parent < m
  BY <1>3, AncBasics, Parents DEF UpClosed
<1>5. m # 1 => g[m].parent \in Nat /\ m \in Nat
  BY <1>3, Parents
<1> QED
  BY <1>2, <1>4, <1>5

-----------------------------------------------------------------------------
(* Branches *)

\* The child of l that is x or above x.
Branch(g, l, x) == CHOOSE c \in Anc(g, x) : c # 1 /\ g[c].parent = l

\* It exists below every proper ancestor, and there is only one.
LEMMA BranchUnique ==
    ASSUME NEW g, WellFormed(g), NEW x \in Nodes(g), NEW l \in Anc(g, x),
           NEW c \in Anc(g, x), c # 1, g[c].parent = l,
           NEW d \in Anc(g, x), d # 1, g[d].parent = l
    PROVE  c = d
<1>1. c \in Nodes(g) /\ d \in Nodes(g) /\ l \in Nodes(g)
  BY AncBasics
<1>2. ASSUME NEW y \in Nodes(g), NEW z \in Nodes(g), y # 1, z # 1, g[y].parent = l,
             g[z].parent = l, y \in Anc(g, z), y # z
      PROVE  FALSE
  <2>1. y \in Anc(g, l)
    BY <1>2, AncSplit
  <2>2. y <= l /\ y \in Nat /\ l \in Nat
    BY <1>1, <2>1, AncOrder
  <2>3. l < y
    BY <1>2, Parents
  <2> QED
    BY <2>2, <2>3
<1>3. c \in Anc(g, d) \/ d \in Anc(g, c)
  BY AncChain
<1> QED
  BY <1>1, <1>2, <1>3

\* A proper descendant of l is below a child of l.
LEMMA BranchExists ==
    ASSUME NEW g, WellFormed(g), NEW x \in Nodes(g), NEW l \in Anc(g, x), l # x
    PROVE  \E c \in Anc(g, x) : c # 1 /\ g[c].parent = l
<1> DEFINE S == {y \in Anc(g, x) : l \in Anc(g, y) /\ y # l}
<1>1. Anc(g, x) \subseteq Nodes(g) /\ Nodes(g) \subseteq Nat
  BY AncBasics, TreeNodes
<1>2. S \in SUBSET Nat /\ S # {}
  BY <1>1, AncBasics
<1>3. PICK c \in S : \A y \in S : c <= y
  <2> HIDE DEF S
  <2> QED
    BY <1>2, NatMin
<1>4. c \in Nodes(g) /\ c \in Anc(g, x) /\ l \in Anc(g, c) /\ c # l
  BY <1>1, <1>3
<1>5. c # 1 /\ l \in Anc(g, g[c].parent)
  BY <1>4, AncSplit
<1>6. g[c].parent \in Anc(g, x) /\ g[c].parent < c /\ g[c].parent \in Nat /\ c \in Nat
  BY <1>4, <1>5, AncBasics, Parents DEF UpClosed
<1>7. ~(g[c].parent \in S)
  BY <1>3, <1>6
<1> QED
  BY <1>4, <1>5, <1>6, <1>7

\* The branch of l that x is in is that child.
LEMMA BranchFacts ==
    ASSUME NEW g, WellFormed(g), NEW x \in Nodes(g), NEW l \in Anc(g, x), l # x
    PROVE  LET c == Branch(g, l, x) IN
           /\ c \in Nodes(g) /\ c \in Anc(g, x) /\ c # 1
           /\ g[c].parent = l /\ l < c
           /\ l \in Anc(g, c)
<1> DEFINE c == Branch(g, l, x)
<1>1. c \in Anc(g, x) /\ c # 1 /\ g[c].parent = l
  BY BranchExists DEF Branch
<1> HIDE DEF c
<1>2. c \in Nodes(g) /\ l \in Nodes(g)
  BY <1>1, AncBasics
<1>3. l < c /\ l \in Anc(g, c)
  BY <1>1, <1>2, Parents, AncSplit, AncBasics
<1> QED
  BY <1>1, <1>2, <1>3 DEF c

\* The branch towards x is the only child of l above x.
LEMMA BranchIs ==
    ASSUME NEW g, WellFormed(g), NEW x \in Nodes(g), NEW c \in Anc(g, x), c # 1
    PROVE  Branch(g, g[c].parent, x) = c
<1> DEFINE l == g[c].parent
<1>1. c \in Nodes(g) /\ l \in Anc(g, x)
  BY AncBasics DEF UpClosed
<1>2. Branch(g, l, x) \in Anc(g, x) /\ Branch(g, l, x) # 1 /\ g[Branch(g, l, x)].parent = l
  BY DEF Branch
<1> QED
  BY <1>1, <1>2, BranchUnique

-----------------------------------------------------------------------------
(* What the walk finds *)

Common(g, a, b) == Anc(g, a) \cap Anc(g, b)

\* The nodes it came from are the children it left below the nodes it stands on.
Tracked(g, w) ==
    /\ w.prevCur # 0 => w.prevCur # 1 /\ g[w.prevCur].parent = w.cur
    /\ w.prevRem # 0 => w.prevRem # 1 /\ g[w.prevRem].parent = w.rem

\* m is where the walk from w should end: on the common ancestor below all others,
\* with the children of it that lead to the nodes of w, where it moved at all.
EndOf(g, w, m) ==
    /\ m \in Walk(g)
    /\ m.cur = m.rem
    /\ m.cur \in Common(g, w.cur, w.rem)
    /\ Common(g, w.cur, w.rem) \subseteq Anc(g, m.cur)
    /\ m.prevCur = IF w.cur = m.cur THEN w.prevCur ELSE Branch(g, m.cur, w.cur)
    /\ m.prevRem = IF w.rem = m.cur THEN w.prevRem ELSE Branch(g, m.cur, w.rem)

\* A step of the walk leaves the common ancestors as they are.
LEMMA CommonKept ==
    ASSUME NEW g, WellFormed(g), NEW c \in Nodes(g), NEW r \in Nodes(g), c # r,
           g[c].depth >= g[r].depth
    PROVE  /\ c # 1
           /\ ~(c \in Anc(g, r))
           /\ Common(g, c, r) = Common(g, g[c].parent, r)
<1>1. ~(c \in Anc(g, r))
  BY AncOrder
<1>2. c # 1
  BY <1>1, AncRoot
<1> QED
  BY <1>1, <1>2, AncSplit DEF Common

\* The end of the walk from m, one step after w, is the end of the walk from w.
LEMMA EndKept ==
    ASSUME NEW g, WellFormed(g), NEW w \in Walk(g), w.cur # w.rem, Tracked(g, w),
           NEW e, EndOf(g, MoveUp(g, w), e)
    PROVE  EndOf(g, w, e)
<1> DEFINE m == MoveUp(g, w)
           c == w.cur
           r == w.rem
<1>1. /\ m \in Walk(g)
      /\ \/ /\ g[c].depth > g[r].depth /\ c # 1
            /\ m.cur = g[c].parent /\ m.prevCur = c
            /\ m.rem = r /\ m.prevRem = w.prevRem
         \/ /\ g[r].depth > g[c].depth /\ r # 1
            /\ m.cur = c /\ m.prevCur = w.prevCur
            /\ m.rem = g[r].parent /\ m.prevRem = r
         \/ /\ g[c].depth = g[r].depth /\ c # 1 /\ r # 1
            /\ m.cur = g[c].parent /\ m.prevCur = c
            /\ m.rem = g[r].parent /\ m.prevRem = r
  BY MoveUpCases
<1>2. /\ c \in Nodes(g) /\ r \in Nodes(g) /\ m.cur \in Nodes(g) /\ m.rem \in Nodes(g)
      /\ g[c].depth \in Nat /\ g[r].depth \in Nat
  BY <1>1, TreeNodes DEF Walk, Nodes
<1> HIDE DEF m, c, r
<1>3. /\ e \in Walk(g) /\ e.cur = e.rem
      /\ e.cur \in Common(g, m.cur, m.rem)
      /\ Common(g, m.cur, m.rem) \subseteq Anc(g, e.cur)
      /\ e.prevCur = IF m.cur = e.cur THEN m.prevCur ELSE Branch(g, e.cur, m.cur)
      /\ e.prevRem = IF m.rem = e.cur THEN m.prevRem ELSE Branch(g, e.cur, m.rem)
  BY DEF EndOf, m
\* A node that moves up: the end is above its parent, and the child of the end that
\* leads to the parent leads to the node.
<1>4. ASSUME NEW n \in Nodes(g), n # 1, e.cur \in Anc(g, g[n].parent)
      PROVE  /\ n # e.cur
             /\ g[n].parent = e.cur => n = Branch(g, e.cur, n)
             /\ g[n].parent # e.cur => Branch(g, e.cur, g[n].parent) = Branch(g, e.cur, n)
  <2>1. g[n].parent \in Nodes(g) /\ g[n].parent < n /\ n \in Nat /\ g[n].parent \in Nat
    BY <1>4, Parents
  <2>2. n # e.cur
    BY <1>4, <2>1, AncOrder
  <2>3. g[n].parent = e.cur => n = Branch(g, e.cur, n)
    BY <1>4, AncBasics, BranchIs
  <2>4. ASSUME g[n].parent # e.cur
        PROVE  Branch(g, e.cur, g[n].parent) = Branch(g, e.cur, n)
    <3> DEFINE b == Branch(g, e.cur, g[n].parent)
    <3>1. b \in Anc(g, g[n].parent) /\ b # 1 /\ g[b].parent = e.cur
      BY <1>4, <2>1, <2>4, BranchFacts
    <3>2. b \in Anc(g, n)
      BY <1>4, <3>1, AncBasics
    <3> HIDE DEF b
    <3>3. Branch(g, e.cur, n) = b
      BY <3>1, <3>2, BranchIs
    <3> QED
      BY <3>3 DEF b
  <2> QED
    BY <2>2, <2>3, <2>4
<1>5. w.cur = c /\ w.rem = r /\ c # r
  BY DEF c, r
<1>6. CASE /\ g[c].depth > g[r].depth /\ c # 1
           /\ m.cur = g[c].parent /\ m.prevCur = c
           /\ m.rem = r /\ m.prevRem = w.prevRem
  <2>1. Common(g, c, r) = Common(g, m.cur, m.rem)
    BY <1>2, <1>5, <1>6, CommonKept
  <2>2. e.cur \in Anc(g, g[c].parent)
    BY <1>3, <1>6 DEF Common
  <2>3. e.prevCur = Branch(g, e.cur, c) /\ c # e.cur
    BY <1>2, <1>3, <1>4, <1>6, <2>2
  <2> QED
    BY <1>3, <1>5, <1>6, <2>1, <2>3 DEF EndOf
<1>7. CASE /\ g[r].depth > g[c].depth /\ r # 1
           /\ m.cur = c /\ m.prevCur = w.prevCur
           /\ m.rem = g[r].parent /\ m.prevRem = r
  <2>1. Common(g, r, c) = Common(g, m.rem, m.cur)
    BY <1>2, <1>5, <1>7, CommonKept
  <2>2. e.cur \in Anc(g, g[r].parent)
    BY <1>3, <1>7 DEF Common
  <2>3. e.prevRem = Branch(g, e.cur, r) /\ r # e.cur
    BY <1>2, <1>3, <1>4, <1>7, <2>2
  <2>4. Common(g, c, r) = Common(g, m.cur, m.rem)
    BY <2>1 DEF Common
  <2> QED
    BY <1>3, <1>5, <1>7, <2>4, <2>3 DEF EndOf
<1>8. CASE /\ g[c].depth = g[r].depth /\ c # 1 /\ r # 1
           /\ m.cur = g[c].parent /\ m.prevCur = c
           /\ m.rem = g[r].parent /\ m.prevRem = r
  <2>1. ~(c \in Anc(g, r)) /\ ~(r \in Anc(g, c))
    BY <1>2, <1>5, <1>8, CommonKept
  <2>2. Common(g, c, r) = Common(g, m.cur, m.rem)
    BY <1>2, <1>8, <2>1, AncSplit DEF Common
  <2>3. e.cur \in Anc(g, g[c].parent) /\ e.cur \in Anc(g, g[r].parent)
    BY <1>3, <1>8 DEF Common
  <2>4. e.prevCur = Branch(g, e.cur, c) /\ c # e.cur
    BY <1>2, <1>3, <1>4, <1>8, <2>3
  <2>5. e.prevRem = Branch(g, e.cur, r) /\ r # e.cur
    BY <1>2, <1>3, <1>4, <1>8, <2>3
  <2> QED
    BY <1>3, <1>5, <2>2, <2>4, <2>5 DEF EndOf
<1> QED
  BY <1>1, <1>6, <1>7, <1>8

\* The walk ends where it should, by induction on the sum of its two nodes.
LEMMA WalkEnds ==
    ASSUME NEW g, WellFormed(g), NEW v \in Walk(g), Tracked(g, v)
    PROVE  EndOf(g, v, ClimbFcn(g)[v])
<1> DEFINE f == ClimbFcn(g)
           Bad == {n \in Nat : \E w \in Walk(g) :
                     w.cur + w.rem = n /\ Tracked(g, w) /\ ~EndOf(g, w, f[w])}
<1>1. \A w \in Walk(g) : /\ w.cur \in Nodes(g) /\ w.rem \in Nodes(g)
                         /\ w.cur \in Nat /\ w.rem \in Nat /\ w.cur + w.rem \in Nat
  BY TreeNodes DEF Walk, Nodes
<1> SUFFICES ASSUME Bad # {}
             PROVE  FALSE
  BY <1>1
<1> HIDE DEF f
<1>2. PICK n \in Bad : \A k \in Bad : n <= k
  <2> HIDE DEF Bad
  <2>1. Bad \in SUBSET Nat
    BY DEF Bad
  <2> QED
    BY <2>1, NatMin
<1>3. PICK w \in Walk(g) : w.cur + w.rem = n /\ Tracked(g, w) /\ ~EndOf(g, w, f[w])
  BY <1>2
<1>4. f[w] = IF w.cur = w.rem THEN w ELSE f[MoveUp(g, w)]
  BY ClimbStep DEF f
<1>5. CASE w.cur = w.rem
  <2>1. f[w] = w
    BY <1>4, <1>5
  <2>2. EndOf(g, w, w)
    BY <1>1, <1>5, AncBasics DEF EndOf, Common
  <2> QED
    BY <1>3, <2>1, <2>2
<1>6. CASE w.cur # w.rem
  <2> DEFINE m == MoveUp(g, w)
  <2>1. /\ m \in Walk(g) /\ m.cur + m.rem < w.cur + w.rem
        /\ Tracked(g, m)
    BY <1>3, <1>6, MoveUpCases DEF Tracked
  <2>2. EndOf(g, m, f[m])
    <3> HIDE DEF m
    <3>1. m.cur + m.rem \in Nat /\ ~(m.cur + m.rem \in Bad)
      BY <1>1, <1>2, <1>3, <2>1
    <3> QED
      BY <2>1, <3>1
  <2>3. EndOf(g, w, f[m])
    BY <1>3, <1>6, <2>2, EndKept
  <2> QED
    BY <1>3, <1>4, <1>6, <2>3
<1> QED
  BY <1>5, <1>6

\* What LCA() and parallel() climb to: the common ancestor below all others, and its
\* children on the way to the two nodes (0: the node is the ancestor itself).
LEMMA ClimbResult ==
    ASSUME NEW g, WellFormed(g), NEW a \in Nodes(g), NEW b \in Nodes(g)
    PROVE  LET m == Climb(g, a, b)
               l == LCA(g, a, b) IN
           /\ l \in Nodes(g) /\ l \in Anc(g, a) /\ l \in Anc(g, b)
           /\ Common(g, a, b) \subseteq Anc(g, l)
           /\ m.prevCur = IF a = l THEN 0 ELSE Branch(g, l, a)
           /\ m.prevRem = IF b = l THEN 0 ELSE Branch(g, l, b)
<1> DEFINE s == Start(a, b)
           m == ClimbFcn(g)[s]
<1>1. /\ s \in Walk(g) /\ Tracked(g, s)
      /\ s.cur = a /\ s.rem = b /\ s.prevCur = 0 /\ s.prevRem = 0
  BY TreeNodes DEF Walk, Start, Nodes, Tracked
<1>2. EndOf(g, s, m)
  BY <1>1, WalkEnds
<1>3. Climb(g, a, b) = m /\ LCA(g, a, b) = m.cur
  BY ClimbIsFcn DEF LCA
<1> HIDE DEF m, s
<1> QED
  BY <1>1, <1>2, <1>3, AncBasics DEF EndOf, Common

-----------------------------------------------------------------------------
(* Queries about two steps *)

\* A step is above no other node.
LEMMA StepsAreLeaves ==
    ASSUME NEW g, WellFormed(g), NEW a \in StepsOf(g), NEW x \in Nodes(g), a \in Anc(g, x)
    PROVE  a = x
<1>1. a \in Nodes(g) /\ g[a].type = "STEP"
  BY DEF StepsOf, Nodes
<1>2. ASSUME a # x
      PROVE  FALSE
  <2> DEFINE c == Branch(g, a, x)
  <2>1. c \in Nodes(g) /\ c # 1 /\ g[c].parent = a
    BY <1>2, BranchFacts
  <2> HIDE DEF c
  <2>2. g[g[c].parent].type # "STEP"
    BY <2>1, TreeNodes
  <2> QED
    BY <1>1, <2>1, <2>2
<1> QED
  BY <1>2

\* Two distinct steps lie on two branches below their LCA, and on one branch below
\* any other common ancestor.
LEMMA StepsPart ==
    ASSUME NEW g, WellFormed(g), NEW a \in StepsOf(g), NEW b \in StepsOf(g), a # b
    PROVE  LET l == LCA(g, a, b) IN
           /\ l \in Nodes(g) /\ l \in Anc(g, a) /\ l \in Anc(g, b)
           /\ a # l /\ b # l
           /\ Branch(g, l, a) # Branch(g, l, b)
           /\ Climb(g, a, b).prevCur = Branch(g, l, a)
           /\ Climb(g, a, b).prevRem = Branch(g, l, b)
           /\ \A k \in Common(g, a, b) : k # l => Branch(g, k, a) = Branch(g, k, b)
<1> DEFINE l == LCA(g, a, b)
<1>1. a \in Nodes(g) /\ b \in Nodes(g)
  BY DEF StepsOf, Nodes
<1>2. /\ l \in Nodes(g) /\ l \in Anc(g, a) /\ l \in Anc(g, b)
      /\ Common(g, a, b) \subseteq Anc(g, l)
      /\ Climb(g, a, b).prevCur = IF a = l THEN 0 ELSE Branch(g, l, a)
      /\ Climb(g, a, b).prevRem = IF b = l THEN 0 ELSE Branch(g, l, b)
  BY <1>1, ClimbResult
<1> HIDE DEF l
<1>3. a # l /\ b # l
  BY <1>1, <1>2, StepsAreLeaves
<1>4. Branch(g, l, a) # Branch(g, l, b)
  <2> SUFFICES ASSUME Branch(g, l, a) = Branch(g, l, b)
               PROVE  FALSE
    OBVIOUS
  <2> DEFINE c == Branch(g, l, a)
  <2>1. c \in Nodes(g) /\ c \in Anc(g, a) /\ c \in Anc(g, b) /\ l < c
    BY <1>1, <1>2, <1>3, BranchFacts
  <2> HIDE DEF c
  <2>2. c \in Anc(g, l)
    BY <1>2, <2>1 DEF Common
  <2> QED
    BY <1>2, <2>1, <2>2, AncOrder
<1>5. ASSUME NEW k \in Common(g, a, b), k # l
      PROVE  Branch(g, k, a) = Branch(g, k, b)
  <2> DEFINE c == Branch(g, k, l)
  <2>1. k \in Anc(g, l)
    BY <1>2, <1>5
  <2>2. c \in Anc(g, l) /\ c # 1 /\ g[c].parent = k
    BY <1>2, <1>5, <2>1, BranchFacts
  <2>3. c \in Anc(g, a) /\ c \in Anc(g, b)
    BY <1>1, <1>2, <2>2, AncTransitive
  <2> HIDE DEF c
  <2> QED
    BY <1>1, <2>2, <2>3, BranchIs
<1> QED
  BY <1>2, <1>3, <1>4, <1>5 DEF l

\* Steps on two branches below a node have this node as their LCA.
LEMMA PartedHere ==
    ASSUME NEW g, WellFormed(g), NEW a \in StepsOf(g), NEW b \in StepsOf(g),
           NEW k \in Common(g, a, b), Branch(g, k, a) # Branch(g, k, b)
    PROVE  a # b /\ LCA(g, a, b) = k
BY StepsPart

\* Sequence numbers order two branches as the nodes are numbered.
LEMMA BranchOrder ==
    ASSUME NEW g, WellFormed(g), NEW m \in Nodes(g), NEW n \in Nodes(g),
           m # 1, n # 1, m # n, g[m].parent = g[n].parent
    PROVE  /\ m \in Nat /\ n \in Nat
           /\ g[m].seq_num \in Nat /\ g[n].seq_num \in Nat
           /\ g[m].seq_num < g[n].seq_num <=> m < n
<1>1. /\ m \in Nat /\ n \in Nat /\ g[m].seq_num \in Nat /\ g[n].seq_num \in Nat
      /\ m < n => g[m].seq_num < g[n].seq_num
      /\ n < m => g[n].seq_num < g[m].seq_num
  BY TreeNodes
<1> QED
  BY <1>1

\* The left branch decides: parallel() in terms of the branches.
LEMMA ParallelIs ==
    ASSUME NEW g, WellFormed(g), NEW a \in StepsOf(g), NEW b \in StepsOf(g), a # b
    PROVE  LET l == LCA(g, a, b)
               x == Branch(g, l, a)
               y == Branch(g, l, b)
           IN  parallel(g, a, b) <=> g[IF x < y THEN x ELSE y].type = "ASYNC"
<1> DEFINE l == LCA(g, a, b)
           x == Branch(g, l, a)
           y == Branch(g, l, b)
<1>1. a \in Nodes(g) /\ b \in Nodes(g)
  BY DEF StepsOf, Nodes
<1>2. /\ l \in Anc(g, a) /\ l \in Anc(g, b) /\ a # l /\ b # l
      /\ x # y
      /\ Climb(g, a, b).prevCur = x /\ Climb(g, a, b).prevRem = y
  BY StepsPart
<1>3. x \in Nodes(g) /\ x # 1 /\ g[x].parent = l
  BY <1>1, <1>2, BranchFacts
<1>4. y \in Nodes(g) /\ y # 1 /\ g[y].parent = l
  BY <1>1, <1>2, BranchFacts
<1> HIDE DEF x, y, l
<1>5. /\ x \in Nat /\ y \in Nat
      /\ g[y].seq_num < g[x].seq_num <=> y < x
  BY <1>2, <1>3, <1>4, BranchOrder
<1>6. (IF g[y].seq_num < g[x].seq_num THEN y ELSE x) = IF x < y THEN x ELSE y
  BY <1>2, <1>5
<1> QED
  BY <1>2, <1>6 DEF parallel, x, y, l

\* Neither query depends on the order of its arguments.
LEMMA LcaSymmetric ==
    ASSUME NEW g, WellFormed(g), NEW a \in Nodes(g), NEW b \in Nodes(g)
    PROVE  LCA(g, a, b) = LCA(g, b, a)
<1>1. /\ LCA(g, a, b) \in Nodes(g) /\ LCA(g, b, a) \in Nodes(g)
      /\ LCA(g, a, b) \in Anc(g, LCA(g, b, a))
      /\ LCA(g, b, a) \in Anc(g, LCA(g, a, b))
  BY ClimbResult DEF Common
<1> QED
  BY <1>1, AncOrder

\* parallel() does not depend on the order of its arguments.
LEMMA ParallelSymmetric ==
    ASSUME NEW g, WellFormed(g), NEW a \in StepsOf(g), NEW b \in StepsOf(g), a # b
    PROVE  parallel(g, a, b) = parallel(g, b, a)
<1> DEFINE l == LCA(g, a, b)
           x == Branch(g, l, a)
           y == Branch(g, l, b)
<1>1. a \in Nodes(g) /\ b \in Nodes(g) /\ l = LCA(g, b, a)
  BY LcaSymmetric DEF StepsOf, Nodes
<1>2. /\ parallel(g, a, b) <=> g[IF x < y THEN x ELSE y].type = "ASYNC"
      /\ parallel(g, b, a) <=> g[IF y < x THEN y ELSE x].type = "ASYNC"
  BY <1>1, ParallelIs
<1>3. l \in Anc(g, a) /\ l \in Anc(g, b) /\ a # l /\ b # l /\ x # y
  BY StepsPart
<1>4. x \in Nodes(g) /\ y \in Nodes(g)
  BY <1>1, <1>3, BranchFacts
<1>5. x \in Nat /\ y \in Nat
  BY <1>4, TreeNodes
<1> HIDE DEF x, y, l
<1>6. (IF x < y THEN x ELSE y) = IF y < x THEN y ELSE x
  BY <1>3, <1>5
<1>7. parallel(g, a, b) \in BOOLEAN /\ parallel(g, b, a) \in BOOLEAN
  BY DEF parallel
<1> QED
  BY <1>2, <1>6, <1>7

\* Every query about two distinct steps of a well-formed tree is answered, and
\* answered alike whichever of them comes first.
THEOREM StepQueries ==
    ASSUME NEW g, WellFormed(g), NEW a \in StepsOf(g), NEW b \in StepsOf(g), a # b
    PROVE  /\ WellFormedQuery(g, a, b)
           /\ parallel(g, a, b) = parallel(g, b, a)
           /\ LCA(g, a, b) = LCA(g, b, a)
           /\ LCA(g, a, b) \in Nat
<1> DEFINE l == LCA(g, a, b)
           x == Branch(g, l, a)
           y == Branch(g, l, b)
<1>1. a \in Nodes(g) /\ b \in Nodes(g)
  BY DEF StepsOf, Nodes
<1>2. /\ l \in Nodes(g) /\ l \in Anc(g, a) /\ l \in Anc(g, b) /\ a # l /\ b # l
      /\ x # y
      /\ Climb(g, a, b).prevCur = x /\ Climb(g, a, b).prevRem = y
  BY StepsPart
<1>3. /\ x \in Nodes(g) /\ x # 1 /\ g[x].parent = l
      /\ y \in Nodes(g) /\ y # 1 /\ g[y].parent = l
  BY <1>1, <1>2, BranchFacts
<1> HIDE DEF x, y, l
<1>4. /\ x \in Nat /\ y \in Nat /\ x # 0 /\ y # 0 /\ l \in Nat
      /\ g[x].seq_num # g[y].seq_num
  <2>1. x \in Nat /\ y \in Nat /\ g[x].seq_num \in Nat /\ g[y].seq_num \in Nat
        /\ (g[x].seq_num < g[y].seq_num <=> x < y)
        /\ (g[y].seq_num < g[x].seq_num <=> y < x)
    BY <1>2, <1>3, BranchOrder
  <2>2. x # 0 /\ y # 0 /\ l \in Nat
    BY <1>2, <1>3, TreeNodes DEF Nodes
  <2> QED
    BY <1>2, <2>1, <2>2
<1>5. WellFormedQuery(g, a, b)
  BY <1>2, <1>4 DEF WellFormedQuery
<1> QED
  BY <1>1, <1>4, <1>5, ParallelSymmetric, LcaSymmetric DEF l

\* A tree that grows keeps the ancestors of its nodes and the branches to them.
LEMMA GrowthKeepsAnc ==
    ASSUME NEW g, WellFormed(g), NEW h, WellFormed(h), Extends(h, g), NEW n \in Nodes(g)
    PROVE  /\ Anc(h, n) = Anc(g, n)
           /\ \A l : Branch(h, l, n) = Branch(g, l, n)
<1>1. /\ Nodes(g) \subseteq Nodes(h)
      /\ \A x \in Nodes(g) : h[x].parent = g[x].parent
  BY TreeNodes DEF Nodes, Extends
<1>2. Anc(g, n) \subseteq Nodes(g) /\ n \in Anc(g, n) /\ UpClosed(g, Anc(g, n))
  BY AncBasics
<1>3. Anc(h, n) \subseteq Anc(g, n)
  <2>1. Anc(g, n) \in SUBSET Nodes(h) /\ UpClosed(h, Anc(g, n))
    BY <1>1, <1>2 DEF UpClosed
  <2> QED
    BY <1>2, <2>1, AncLeast
<1>4. Anc(g, n) \subseteq Anc(h, n)
  <2>1. n \in Anc(h, n) /\ UpClosed(h, Anc(h, n))
    BY <1>1, AncBasics
  <2>2. Anc(h, n) \in SUBSET Nodes(g) /\ UpClosed(g, Anc(h, n))
    BY <1>1, <1>2, <1>3, <2>1 DEF UpClosed
  <2> QED
    BY <2>1, <2>2, AncLeast
<1>5. Anc(h, n) = Anc(g, n) /\ \A c \in Anc(g, n) : h[c].parent = g[c].parent
  BY <1>1, <1>2, <1>3, <1>4
<1>6. ASSUME NEW l
      PROVE  Branch(h, l, n) = Branch(g, l, n)
  <2>1. \A c : (c \in Anc(h, n) /\ c # 1 /\ h[c].parent = l)
               <=> (c \in Anc(g, n) /\ c # 1 /\ g[c].parent = l)
    BY <1>5
  <2> QED
    BY <2>1, Zenon DEF Branch
<1> QED
  BY <1>5, <1>6

\* What the tree answers about two steps never depends on what is added later.
THEOREM GrowthKeepsQueries ==
    ASSUME NEW g, WellFormed(g), NEW h, WellFormed(h), Extends(h, g),
           NEW a \in StepsOf(g), NEW b \in StepsOf(g), a # b
    PROVE  /\ a \in StepsOf(h) /\ b \in StepsOf(h)
           /\ LCA(h, a, b) = LCA(g, a, b)
           /\ parallel(h, a, b) = parallel(g, a, b)
<1> DEFINE l == LCA(g, a, b)
           k == LCA(h, a, b)
<1>1. /\ Nodes(g) \subseteq Nodes(h)
      /\ \A x \in Nodes(g) : h[x].type = g[x].type
  BY TreeNodes DEF Nodes, Extends
<1>2. a \in Nodes(g) /\ b \in Nodes(g) /\ a \in StepsOf(h) /\ b \in StepsOf(h)
  BY <1>1 DEF StepsOf, Nodes
<1>3. Anc(h, a) = Anc(g, a) /\ Anc(h, b) = Anc(g, b)
  BY <1>2, GrowthKeepsAnc
<1>4. /\ l \in Nodes(g) /\ l \in Anc(g, a) /\ l \in Anc(g, b)
      /\ Common(g, a, b) \subseteq Anc(g, l)
      /\ k \in Nodes(h) /\ k \in Anc(h, a) /\ k \in Anc(h, b)
      /\ Common(h, a, b) \subseteq Anc(h, k)
  BY <1>1, <1>2, ClimbResult
<1> HIDE DEF l, k
<1>5. k = l
  <2>1. k \in Anc(g, l) /\ l \in Anc(h, k)
    BY <1>3, <1>4 DEF Common
  <2>2. k <= l /\ l <= k /\ k \in Nat /\ l \in Nat
    BY <1>4, <2>1, AncOrder
  <2> QED
    BY <2>2
<1> DEFINE x == Branch(g, l, a)
           y == Branch(g, l, b)
<1>6. Branch(h, l, a) = x /\ Branch(h, l, b) = y
  BY <1>2, GrowthKeepsAnc
<1>7. x \in Nodes(g) /\ y \in Nodes(g)
  <2>1. l \in Anc(g, a) /\ a # l /\ l \in Anc(g, b) /\ b # l
    BY StepsPart DEF l
  <2> QED
    BY <1>2, <2>1, BranchFacts
<1> HIDE DEF x, y
<1>8. /\ parallel(g, a, b) <=> g[IF x < y THEN x ELSE y].type = "ASYNC"
      /\ parallel(h, a, b) <=> h[IF x < y THEN x ELSE y].type = "ASYNC"
  <2>1. parallel(g, a, b) <=> g[IF x < y THEN x ELSE y].type = "ASYNC"
    BY ParallelIs DEF x, y, l
  <2>2. LCA(h, a, b) = l
    BY <1>5 DEF k
  <2>3. parallel(h, a, b) <=>
           h[IF Branch(h, l, a) < Branch(h, l, b)
             THEN Branch(h, l, a) ELSE Branch(h, l, b)].type = "ASYNC"
    BY <1>2, <2>2, ParallelIs
  <2> QED
    BY <1>6, <2>1, <2>3
<1>9. parallel(g, a, b) \in BOOLEAN /\ parallel(h, a, b) \in BOOLEAN
  BY DEF parallel
<1>10. parallel(h, a, b) = parallel(g, a, b)
  BY <1>1, <1>7, <1>8, <1>9
<1> QED
  BY <1>2, <1>5, <1>10 DEF k, l

-----------------------------------------------------------------------------
(* The order of the steps of a tree *)

Par(g, a, b) == a # b /\ parallel(g, a, b)

\* How two steps on different branches of a node are related: by the branches alone.
LEMMA BranchesRelate ==
    ASSUME NEW g, WellFormed(g), NEW a \in StepsOf(g), NEW b \in StepsOf(g),
           NEW k \in Common(g, a, b), Branch(g, k, a) # Branch(g, k, b)
    PROVE  LET A == Branch(g, k, a)
               B == Branch(g, k, b)
           IN  /\ a # b /\ A \in Nat /\ B \in Nat
               /\ Par(g, a, b) <=> g[IF A < B THEN A ELSE B].type = "ASYNC"
               /\ Climb(g, a, b).prevCur = A /\ Climb(g, a, b).prevRem = B
<1> DEFINE A == Branch(g, k, a)
           B == Branch(g, k, b)
<1>1. a # b /\ LCA(g, a, b) = k /\ LCA(g, b, a) = k
  <2>1. a # b /\ LCA(g, a, b) = k
    BY PartedHere
  <2>2. a \in Nodes(g) /\ b \in Nodes(g)
    BY DEF StepsOf, Nodes
  <2> QED
    BY <2>1, <2>2, LcaSymmetric
<1>2. /\ a \in Nodes(g) /\ b \in Nodes(g) /\ a \in Nat /\ b \in Nat
  BY TreeNodes DEF StepsOf, Nodes
<1>3. /\ k \in Anc(g, a) /\ k \in Anc(g, b) /\ a # k /\ b # k
      /\ Climb(g, a, b).prevCur = A /\ Climb(g, a, b).prevRem = B
      /\ Climb(g, b, a).prevCur = B /\ Climb(g, b, a).prevRem = A
  BY <1>1, StepsPart
<1>4. A \in Nat /\ B \in Nat /\ A # B
  BY <1>2, <1>3, BranchFacts, TreeNodes
<1>5. /\ parallel(g, a, b) <=> g[IF A < B THEN A ELSE B].type = "ASYNC"
      /\ parallel(g, a, b) = parallel(g, b, a)
  BY <1>1, ParallelIs, ParallelSymmetric
<1> HIDE DEF A, B
<1> QED
  BY <1>1, <1>3, <1>4, <1>5 DEF Par, A, B

\* Steps on one branch are related alike to a step on another.
LEMMA Alike ==
    ASSUME NEW g, WellFormed(g),
           NEW a \in StepsOf(g), NEW b \in StepsOf(g), NEW t \in StepsOf(g),
           NEW k, k \in Common(g, a, b), k \in Anc(g, t),
           Branch(g, k, a) = Branch(g, k, b), Branch(g, k, a) # Branch(g, k, t)
    PROVE  /\ Par(g, t, a) <=> Par(g, t, b)
           /\ Par(g, a, t) <=> Par(g, b, t)
<1>1. k \in Common(g, a, t) /\ k \in Common(g, b, t) /\ k \in Common(g, t, a) /\ k \in Common(g, t, b)
  BY DEF Common
<1> QED
  BY <1>1, BranchesRelate

\* So are the steps below a node to a step that is not below it.
LEMMA OutsideAlike ==
    ASSUME NEW g, WellFormed(g),
           NEW a \in StepsOf(g), NEW b \in StepsOf(g), NEW t \in StepsOf(g),
           NEW l, l \in Common(g, a, b), l \notin Anc(g, t)
    PROVE  /\ Par(g, t, a) <=> Par(g, t, b)
           /\ Par(g, a, t) <=> Par(g, b, t)
<1> DEFINE k == LCA(g, t, a)
<1>1. a \in Nodes(g) /\ b \in Nodes(g) /\ t \in Nodes(g) /\ l \in Nodes(g)
      /\ l \in Anc(g, a) /\ l \in Anc(g, b)
  BY AncBasics DEF StepsOf, Nodes, Common
<1>2. t # a
  BY <1>1
<1>3. /\ k \in Nodes(g) /\ k \in Anc(g, t) /\ k \in Anc(g, a)
      /\ Branch(g, k, t) # Branch(g, k, a)
  BY <1>2, StepsPart
<1> HIDE DEF k
<1>4. k # l /\ k \in Anc(g, l)
  <2>1. ~(l \in Anc(g, k))
    BY <1>1, <1>3, AncTransitive
  <2>2. k \in Anc(g, l)
    BY <1>1, <1>3, <2>1, AncChain
  <2> QED
    BY <1>1, <1>3, <2>2
<1> DEFINE c == Branch(g, k, l)
<1>5. c \in Anc(g, l) /\ c # 1 /\ g[c].parent = k
  BY <1>1, <1>4, BranchFacts
<1>6. c \in Anc(g, a) /\ c \in Anc(g, b) /\ k \in Anc(g, b)
  BY <1>1, <1>4, <1>5, AncTransitive
<1> HIDE DEF c
<1>7. Branch(g, k, a) = c /\ Branch(g, k, b) = c
  BY <1>1, <1>5, <1>6, BranchIs
<1> QED
  BY <1>3, <1>6, <1>7, Alike DEF Common

\* Parallelism is symmetric.
LEMMA ParSymmetric ==
    ASSUME NEW g, WellFormed(g), NEW a \in StepsOf(g), NEW b \in StepsOf(g)
    PROVE  Par(g, a, b) <=> Par(g, b, a)
BY ParallelSymmetric DEF Par

\* What the climb of LCA finds below a node are its descendants.
LEMMA BelowIs ==
    ASSUME NEW g, WellFormed(g), NEW f \in Nodes(g), NEW n \in Nodes(g)
    PROVE  IsBelow(g, f, n) <=> f \in Anc(g, n)
<1> DEFINE l == LCA(g, n, f)
<1>1. /\ l \in Nodes(g) /\ l \in Anc(g, n) /\ l \in Anc(g, f)
      /\ Common(g, n, f) \subseteq Anc(g, l)
  BY ClimbResult
<1>2. IsBelow(g, f, n) <=> l = f
  BY DEF IsBelow
<1> HIDE DEF l
<1>3. ASSUME f \in Anc(g, n)
      PROVE  l = f
  <2>1. f \in Anc(g, l)
    BY <1>1, <1>3, AncBasics DEF Common
  <2>2. f <= l /\ l <= f /\ f \in Nat /\ l \in Nat
    BY <1>1, <2>1, AncOrder
  <2> QED
    BY <2>2
<1> QED
  BY <1>1, <1>2, <1>3

\* Why step b may run after step a: see RunInOrder.
Follows(g, a, b) ==
    \/ a = b
    \/ Par(g, a, b)
    \/ \E k \in Common(g, a, b) : Branch(g, k, a) < Branch(g, k, b)
    \/ \E f \in Anc(g, a) : RunsWithin(g, f, b)

\* The steps s[q], q in Q, run in the order of Q.
Ordered(g, Q, s) ==
    /\ \A i, j \in Q : i < j => Follows(g, s[i], s[j])
    /\ \A i, m, k \in Q : i < m /\ m < k =>
          \A f \in Anc(g, s[i]) : f \in Anc(g, s[k]) => ~RunsWithin(g, f, s[m])

\* RunInOrder, said of ancestors and branches.
LEMMA OrderedIs ==
    ASSUME NEW g, WellFormed(g), NEW st, \A i \in DOMAIN st : st[i] \in StepsOf(g)
    PROVE  RunInOrder(g, st) <=> Ordered(g, DOMAIN st, st)
<1>1. \A i \in DOMAIN st : st[i] \in Nodes(g) /\ Anc(g, st[i]) \subseteq Nodes(g)
  BY AncBasics DEF StepsOf, Nodes
<1>2. ASSUME NEW i \in DOMAIN st, NEW j \in DOMAIN st
      PROVE  Follows(g, st[i], st[j]) <=>
             \/ st[i] = st[j]
             \/ parallel(g, st[i], st[j])
             \/ Climb(g, st[i], st[j]).prevCur < Climb(g, st[i], st[j]).prevRem
             \/ \E f \in 1..Len(g) : RunsWithin(g, f, st[j]) /\ IsBelow(g, f, st[i])
  <2> DEFINE a == st[i]
             b == st[j]
  <2>1. a \in StepsOf(g) /\ b \in StepsOf(g) /\ a \in Nodes(g) /\ Anc(g, a) \subseteq Nodes(g)
    BY <1>1
  <2> HIDE DEF a, b
  <2>2. (\E f \in Anc(g, a) : RunsWithin(g, f, b)) <=>
           \E f \in 1..Len(g) : RunsWithin(g, f, b) /\ IsBelow(g, f, a)
    BY <2>1, BelowIs DEF Nodes
  <2>3. a # b => ((\E k \in Common(g, a, b) : Branch(g, k, a) < Branch(g, k, b)) <=>
                     Climb(g, a, b).prevCur < Climb(g, a, b).prevRem)
    <3> SUFFICES ASSUME a # b
                 PROVE  (\E k \in Common(g, a, b) : Branch(g, k, a) < Branch(g, k, b)) <=>
                           Climb(g, a, b).prevCur < Climb(g, a, b).prevRem
      OBVIOUS
    <3> DEFINE l == LCA(g, a, b)
    <3>1. /\ l \in Nodes(g) /\ l \in Common(g, a, b) /\ a # l /\ b # l
          /\ Branch(g, l, a) \in Nat /\ Branch(g, l, b) \in Nat
          /\ Climb(g, a, b).prevCur = Branch(g, l, a)
          /\ Climb(g, a, b).prevRem = Branch(g, l, b)
          /\ \A k \in Common(g, a, b) : k # l => Branch(g, k, a) = Branch(g, k, b)
      <4>1. /\ l \in Nodes(g) /\ l \in Common(g, a, b) /\ a # l /\ b # l
            /\ Climb(g, a, b).prevCur = Branch(g, l, a)
            /\ Climb(g, a, b).prevRem = Branch(g, l, b)
            /\ \A k \in Common(g, a, b) : k # l => Branch(g, k, a) = Branch(g, k, b)
        BY <2>1, StepsPart DEF Common
      <4>2. a \in Nodes(g) /\ b \in Nodes(g) /\ l \in Anc(g, a) /\ l \in Anc(g, b)
        BY <2>1, <4>1 DEF StepsOf, Nodes, Common
      <4> HIDE DEF l
      <4>3. Branch(g, l, a) \in Nat /\ Branch(g, l, b) \in Nat
        BY <4>1, <4>2, BranchFacts, TreeNodes
      <4> QED
        BY <4>1, <4>3
    <3> HIDE DEF l
    <3>2. ASSUME NEW k \in Common(g, a, b), k # l
          PROVE  ~(Branch(g, k, a) < Branch(g, k, b))
      <4>1. Branch(g, k, a) = Branch(g, k, b) /\ k \in Anc(g, a)
        BY <3>1, <3>2 DEF Common
      <4>2. k # a
        <5>1. k = a => a \in Anc(g, b)
          BY DEF Common
        <5>2. b \in Nodes(g)
          BY <2>1 DEF StepsOf, Nodes
        <5> QED
          BY <2>1, <5>1, <5>2, StepsAreLeaves
      <4>3. Branch(g, k, a) \in Nat
        BY <2>1, <4>1, <4>2, BranchFacts, TreeNodes
      <4> QED
        BY <4>1, <4>3
    <3> QED
      BY <3>1, <3>2
  <2>4. a # b => (Par(g, a, b) <=> parallel(g, a, b))
    BY DEF Par
  <2>5. a = b \/ Follows(g, a, b) <=>
           \/ a = b
           \/ parallel(g, a, b)
           \/ Climb(g, a, b).prevCur < Climb(g, a, b).prevRem
           \/ \E f \in 1..Len(g) : RunsWithin(g, f, b) /\ IsBelow(g, f, a)
    BY <2>2, <2>3, <2>4 DEF Follows
  <2>6. a = b => Follows(g, a, b)
    BY DEF Follows
  <2> QED
    BY <2>5, <2>6 DEF a, b
<1>3. ASSUME NEW i \in DOMAIN st, NEW f \in 1..Len(g)
      PROVE  IsBelow(g, f, st[i]) <=> f \in Anc(g, st[i])
  BY <1>1, BelowIs DEF Nodes
<1>4. \A i \in DOMAIN st : \A f \in Anc(g, st[i]) : f \in 1..Len(g)
  BY <1>1 DEF Nodes
<1>5. (\A i, m, k \in DOMAIN st : i < m /\ m < k =>
          \A f \in Anc(g, st[i]) : f \in Anc(g, st[k]) => ~RunsWithin(g, f, st[m]))
      <=> \A m \in DOMAIN st : \A f \in 1..Len(g) :
             RunsWithin(g, f, st[m]) =>
                ~ \E i, k \in DOMAIN st : /\ i < m /\ m < k
                                          /\ IsBelow(g, f, st[i]) /\ IsBelow(g, f, st[k])
  BY <1>3, <1>4
<1> QED
  BY <1>2, <1>5 DEF RunInOrder, Ordered

\* Steps that are not all the same part below one node.
LEMMA PartingPlace ==
    ASSUME NEW g, WellFormed(g), NEW S \in SUBSET StepsOf(g), NEW a \in S, NEW b \in S, a # b
    PROVE  \E k \in Nodes(g) : /\ \A y \in S : k \in Anc(g, y) /\ k # y
                               /\ \E z \in S : Branch(g, k, a) # Branch(g, k, z)
<1> DEFINE tops == {LCA(g, a, y) : y \in S \ {a}}
<1>1. \A y \in S : y \in Nodes(g) /\ y \in StepsOf(g)
  BY DEF StepsOf, Nodes
<1>2. \A y \in S \ {a} :
         /\ LCA(g, a, y) \in Nodes(g) /\ LCA(g, a, y) \in Nat
         /\ LCA(g, a, y) \in Anc(g, a) /\ LCA(g, a, y) \in Anc(g, y)
         /\ Branch(g, LCA(g, a, y), a) # Branch(g, LCA(g, a, y), y)
         /\ a # LCA(g, a, y) /\ y # LCA(g, a, y)
  BY <1>1, StepsPart, TreeNodes
<1>3. PICK k \in tops : \A n \in tops : k <= n
  <2>1. tops \in SUBSET Nat /\ tops # {}
    BY <1>2
  <2> QED
    BY <2>1, NatMin
<1>4. PICK z \in S \ {a} : k = LCA(g, a, z)
  BY <1>3
<1>5. \A y \in S : k \in Anc(g, y) /\ k # y
  <2>1. k \in Anc(g, a) /\ k # a /\ k \in Nodes(g) /\ k \in Nat
    BY <1>2, <1>4
  <2>2. ASSUME NEW y \in S \ {a}
        PROVE  k \in Anc(g, y) /\ k # y
    <3> DEFINE m == LCA(g, a, y)
    <3>1. m \in tops /\ k <= m
      BY <1>3
    <3>2. m \in Nodes(g) /\ m \in Nat /\ m \in Anc(g, a) /\ m \in Anc(g, y) /\ y # m
      BY <1>2
    <3> HIDE DEF m, tops
    <3>3. k \in Anc(g, m)
      <4>1. k \in Anc(g, m) \/ m \in Anc(g, k)
        BY <1>1, <2>1, <3>2, AncChain
      <4>2. m \in Anc(g, k) => m <= k
        BY <2>1, AncOrder
      <4>3. m \in Anc(g, k) => m = k
        BY <2>1, <3>1, <3>2, <4>2
      <4> QED
        BY <2>1, <4>1, <4>3, AncBasics
    <3>4. k \in Anc(g, y)
      BY <1>1, <3>2, <3>3, AncTransitive
    <3>5. k <= m /\ m <= y /\ m # y /\ y \in Nat
      BY <1>1, <3>1, <3>2, AncOrder
    <3> QED
      BY <2>1, <3>2, <3>4, <3>5
  <2> QED
    BY <2>1, <2>2
<1>6. Branch(g, k, a) # Branch(g, k, z)
  BY <1>2, <1>4
<1>7. k \in Nodes(g)
  BY <1>2, <1>4
<1> HIDE DEF tops
<1> QED
  BY <1>4, <1>5, <1>6, <1>7

\* Two tasks of which one precedes the other are on branches that say so, unless the
\* first is in a root that the second started.
LEMMA FollowsIs ==
    ASSUME NEW g, WellFormed(g), NEW a \in StepsOf(g), NEW b \in StepsOf(g),
           Follows(g, a, b), ~Par(g, a, b),
           NEW k \in Common(g, a, b), Branch(g, k, a) # Branch(g, k, b)
    PROVE  LET A == Branch(g, k, a)
               B == Branch(g, k, b)
           IN  /\ g[A].type # "ASYNC"
               /\ A < B \/ (B = b /\ RunsWithin(g, A, B))
<1> DEFINE A == Branch(g, k, a)
           B == Branch(g, k, b)
<1>1. /\ a # b /\ A \in Nat /\ B \in Nat /\ A # B
      /\ Par(g, a, b) <=> g[IF A < B THEN A ELSE B].type = "ASYNC"
      /\ LCA(g, a, b) = k
  BY BranchesRelate, PartedHere
<1>2. /\ a \in Nodes(g) /\ b \in Nodes(g) /\ a \in Anc(g, a) /\ b \in Anc(g, b)
      /\ Anc(g, a) \subseteq Nodes(g) /\ UpClosed(g, Anc(g, a)) /\ UpClosed(g, Anc(g, b))
  BY AncBasics DEF StepsOf, Nodes
<1>3. CASE \E c \in Common(g, a, b) : Branch(g, c, a) < Branch(g, c, b)
  <2>1. PICK c \in Common(g, a, b) : Branch(g, c, a) < Branch(g, c, b)
    BY <1>3
  <2>2. c # k => Branch(g, c, a) = Branch(g, c, b)
    BY <1>1, StepsPart
  <2>3. c # k => Branch(g, c, a) \in Nat
    <3> SUFFICES ASSUME c # k PROVE Branch(g, c, a) \in Nat
      OBVIOUS
    <3>1. c \in Anc(g, a) /\ c \in Anc(g, b)
      BY DEF Common
    <3>2. c # a
      BY <1>1, <1>2, <3>1, StepsAreLeaves
    <3> QED
      BY <1>2, <3>1, <3>2, BranchFacts, TreeNodes
  <2>4. c = k
    BY <2>1, <2>2, <2>3
  <2>5. A < B
    BY <2>1, <2>4
  <2> HIDE DEF A, B
  <2> QED
    BY <1>1, <2>5 DEF A, B
<1>4. CASE \E f \in Anc(g, a) : RunsWithin(g, f, b)
  <2>1. PICK f \in Anc(g, a) : RunsWithin(g, f, b)
    BY <1>4
  <2>2. /\ f \in Nodes(g) /\ f \in Nat /\ b \in Nat /\ b < f /\ g[b].parent = g[f].parent
        /\ g[f].type = "FINISH"
    <3>1. f \in Nodes(g) /\ f \in Nat /\ b \in Nat
      BY <1>2, TreeNodes
    <3>2. b < f /\ g[b].parent = g[f].parent
      BY <2>1 DEF RunsWithin
    <3>3. f \in (b + 1)..f
      BY <3>1, <3>2
    <3> QED
      BY <2>1, <3>1, <3>2, <3>3 DEF RunsWithin
  <2>3. f # 1 /\ b # 1
    <3>1. 1 \in Nodes(g) /\ g[1].parent = 0 /\ \A n \in Nodes(g) : n # 1 => g[n].parent \in Nodes(g)
      BY TreeNodes
    <3>2. 0 \notin Nodes(g)
      BY DEF Nodes
    <3>3. b # 1 \/ f # 1
      BY <2>2
    <3> QED
      BY <1>2, <2>2, <3>1, <3>2, <3>3
  <2> DEFINE q == g[b].parent
  <2>4. Branch(g, q, a) = f /\ Branch(g, q, b) = b
    BY <1>2, <2>2, <2>3, BranchIs
  <2>5. q \in Common(g, a, b)
    BY <1>2, <2>2, <2>3 DEF Common, UpClosed
  <2>6. q = k
    <3>1. Branch(g, q, a) # Branch(g, q, b)
      BY <2>2, <2>4
    <3> HIDE DEF q
    <3>2. LCA(g, a, b) = q
      BY <2>5, <3>1, PartedHere
    <3> QED
      BY <1>1, <3>2
  <2>7. A = f /\ B = b
    BY <2>4, <2>6
  <2> HIDE DEF A, B, q
  <2> QED
    BY <2>1, <2>2, <2>7 DEF A, B
<1> QED
  BY <1>1, <1>3, <1>4 DEF Follows

\* Strand i runs before strand j, whatever the schedule.
Runs(g, s, i, j) == i < j /\ ~Par(g, s[i], s[j])

Strands(g, Q, s) ==
    /\ Q \subseteq Nat
    /\ \A i \in Q : s[i] \in StepsOf(g)
    /\ Ordered(g, Q, s)

\* Any strands, if they are not all of one step, fall into two groups of which one is
\* parallel to all of the other, or precedes all of it.
LEMMA CutSteps ==
    ASSUME NEW g, WellFormed(g), NEW Q, NEW s, Strands(g, Q, s),
           NEW S \in SUBSET Q, NEW a \in S, NEW b \in S, s[a] # s[b]
    PROVE  \E G \in SUBSET S :
              /\ G # {} /\ S \ G # {}
              /\ \/ \A x \in G, y \in S \ G : Par(g, s[x], s[y])
                 \/ \A x \in G, y \in S \ G : Runs(g, s, x, y)
<1> DEFINE T == {s[y] : y \in S}
<1>1. \A y \in S : y \in Nat /\ s[y] \in Nodes(g) /\ s[y] \in StepsOf(g)
  BY DEF StepsOf, Nodes, Strands
<1>2. PICK k \in Nodes(g) :
         /\ \A y \in S : k \in Anc(g, s[y]) /\ k # s[y]
         /\ \E z \in S : Branch(g, k, s[a]) # Branch(g, k, s[z])
  <2>1. T \in SUBSET StepsOf(g) /\ s[a] \in T /\ s[b] \in T
    BY <1>1
  <2> HIDE DEF T
  <2>2. \E k \in Nodes(g) : /\ \A y \in T : k \in Anc(g, y) /\ k # y
                            /\ \E z \in T : Branch(g, k, s[a]) # Branch(g, k, z)
    BY <2>1, PartingPlace
  <2> QED
    BY <2>2 DEF T
<1> DEFINE br(y) == Branch(g, k, s[y])
           branches == {br(y) : y \in S}
<1>3. \A y \in S : br(y) \in Nat /\ br(y) \in Nodes(g) /\ br(y) \in Anc(g, s[y])
                   /\ br(y) # 1 /\ g[br(y)].parent = k
  BY <1>1, <1>2, BranchFacts, TreeNodes
<1>4. PICK z \in S : br(a) # br(z)
  BY <1>2
<1>5. PICK c \in branches : \A d \in branches : c <= d
  <2>1. branches \in SUBSET Nat /\ branches # {}
    BY <1>3
  <2> QED
    BY <2>1, NatMin
<1>6. PICK j \in S : br(j) = c
  BY <1>5
<1>7. \A x, y \in S : br(x) # br(y) =>
         /\ br(x) < br(y) => (Par(g, s[x], s[y]) <=> g[br(x)].type = "ASYNC")
         /\ br(y) < br(x) => (Par(g, s[x], s[y]) <=> g[br(y)].type = "ASYNC")
  <2> SUFFICES ASSUME NEW x \in S, NEW y \in S, br(x) # br(y)
               PROVE  /\ br(x) < br(y) => (Par(g, s[x], s[y]) <=> g[br(x)].type = "ASYNC")
                      /\ br(y) < br(x) => (Par(g, s[x], s[y]) <=> g[br(y)].type = "ASYNC")
    OBVIOUS
  <2>1. k \in Common(g, s[x], s[y]) /\ s[x] \in StepsOf(g) /\ s[y] \in StepsOf(g)
    BY <1>1, <1>2 DEF Common
  <2>2. Par(g, s[x], s[y]) <=> g[IF br(x) < br(y) THEN br(x) ELSE br(y)].type = "ASYNC"
    BY <2>1, BranchesRelate
  <2>3. br(x) \in Nat /\ br(y) \in Nat
    BY <1>3
  <2> HIDE DEF br
  <2> QED
    BY <2>2, <2>3
<1>8. \A x, y \in S : br(x) # br(y) /\ x < y /\ ~Par(g, s[x], s[y]) =>
         /\ g[br(x)].type # "ASYNC"
         /\ br(x) < br(y) \/ (br(y) = s[y] /\ RunsWithin(g, br(x), br(y)))
  <2> SUFFICES ASSUME NEW x \in S, NEW y \in S, br(x) # br(y), x < y, ~Par(g, s[x], s[y])
               PROVE  /\ g[br(x)].type # "ASYNC"
                      /\ br(x) < br(y) \/ (br(y) = s[y] /\ RunsWithin(g, br(x), br(y)))
    OBVIOUS
  <2>1. k \in Common(g, s[x], s[y]) /\ s[x] \in StepsOf(g) /\ s[y] \in StepsOf(g)
    BY <1>1, <1>2 DEF Common
  <2>2. Follows(g, s[x], s[y])
    BY DEF Strands, Ordered
  <2> QED
    BY <2>1, <2>2, FollowsIs
<1>9. \A i, m, n \in S : i < m /\ m < n /\ br(i) = br(n) => ~RunsWithin(g, br(i), s[m])
  BY <1>3 DEF Strands, Ordered
<1>10. \A y \in S : g[br(y)].type = "STEP" => br(y) = s[y]
  BY <1>1, <1>3, StepsAreLeaves DEF StepsOf, Nodes
<1> HIDE DEF br
<1>11. CASE g[c].type = "ASYNC"
  <2> DEFINE G == {y \in S : br(y) = c}
  <2>1. G \in SUBSET S /\ G # {} /\ S \ G # {}
    BY <1>4, <1>6
  <2>2. \A x \in G, y \in S \ G : Par(g, s[x], s[y])
    <3> SUFFICES ASSUME NEW x \in G, NEW y \in S \ G
                 PROVE  Par(g, s[x], s[y])
      OBVIOUS
    <3>1. x \in S /\ y \in S /\ br(x) = c /\ br(y) # c /\ c <= br(y)
      BY <1>5
    <3>2. br(x) < br(y)
      BY <1>3, <3>1
    <3> QED
      BY <1>7, <1>11, <3>1, <3>2
  <2> HIDE DEF G
  <2> QED
    BY <2>1, <2>2
<1>12. CASE g[c].type # "ASYNC" /\ g[c].type # "STEP"
  <2> DEFINE G == {y \in S : br(y) = c}
  <2>1. G \in SUBSET S /\ G # {} /\ S \ G # {}
    BY <1>4, <1>6
  <2>2. \A x \in G, y \in S \ G : Runs(g, s, x, y)
    <3> SUFFICES ASSUME NEW x \in G, NEW y \in S \ G
                 PROVE  Runs(g, s, x, y)
      OBVIOUS
    <3>1. x \in S /\ y \in S /\ br(x) = c /\ br(y) # c /\ c <= br(y)
      BY <1>5
    <3>2. br(x) < br(y)
      BY <1>3, <3>1
    <3>3. ~Par(g, s[x], s[y]) /\ ~Par(g, s[y], s[x])
      BY <1>7, <1>12, <3>1, <3>2
    <3>4. ~(y < x)
      <4> SUFFICES ASSUME y < x PROVE FALSE
        OBVIOUS
      <4>1. br(y) < br(x) \/ (br(x) = s[x] /\ RunsWithin(g, br(y), br(x)))
        BY <1>8, <3>1, <3>3
      <4>2. br(x) = s[x]
        BY <1>3, <3>1, <3>2, <4>1
      <4> QED
        BY <1>1, <1>12, <3>1, <4>2 DEF StepsOf
    <3>5. x # y
      BY <3>1
    <3> QED
      BY <1>1, <3>1, <3>3, <3>4, <3>5 DEF Runs
  <2> HIDE DEF G
  <2> QED
    BY <2>1, <2>2
<1>13. CASE g[c].type = "STEP"
  <2>1. PICK i \in S : \A y \in S : i <= y
    <3>1. S \in SUBSET Nat /\ S # {}
      BY <1>1
    <3> QED
      BY <3>1, NatMin
  <2>2. CASE br(i) = c
    <3> DEFINE G == {i}
    <3>1. s[i] = c
      BY <1>10, <1>13, <2>2
    <3>2. z # i \/ a # i
      BY <1>4
    <3>3. G \in SUBSET S /\ G # {} /\ S \ G # {}
      BY <3>2
    <3>4. \A y \in S : y # i => Runs(g, s, i, y)
      <4> SUFFICES ASSUME NEW y \in S, y # i
                   PROVE  Runs(g, s, i, y)
        OBVIOUS
      <4>1. i < y
        BY <1>1, <2>1
      <4>2. CASE br(y) = c
        BY <1>10, <1>13, <3>1, <4>1, <4>2 DEF Runs, Par
      <4>3. CASE br(y) # c
        <5>1. br(i) < br(y)
          BY <1>3, <1>5, <2>2, <4>3
        <5> QED
          BY <1>7, <1>13, <2>2, <4>1, <4>3, <5>1 DEF Runs
      <4> QED
        BY <4>2, <4>3
    <3>5. \A x \in G, y \in S \ G : Runs(g, s, x, y)
      BY <3>4
    <3> HIDE DEF G
    <3> QED
      BY <3>3, <3>5
  <2>3. CASE br(i) # c
    <3> DEFINE d == br(i)
               G == {y \in S : br(y) = d}
    <3>1. c < d /\ d \in Nat /\ c \in Nat
      BY <1>3, <1>5, <1>6, <2>3
    <3>2. i < j /\ s[j] = c /\ j \in Nat /\ i \in Nat
      BY <1>1, <1>6, <1>10, <1>13, <2>1, <2>3
    <3>3. RunsWithin(g, d, c)
      <4>1. ~Par(g, s[i], s[j])
        BY <1>6, <1>7, <1>13, <2>3, <3>1
      <4>2. d < c \/ RunsWithin(g, d, c)
        BY <1>6, <1>8, <2>3, <3>2, <4>1
      <4> QED
        BY <3>1, <4>2
    <3>4. \A m \in Nodes(g) : c < m /\ m <= d /\ g[m].parent = k => g[m].type = "FINISH"
      <4>1. g[c].parent = k /\ c \in Nat
        BY <1>3, <1>6
      <4>2. \A m \in (c + 1)..d : g[m].parent = k => g[m].type = "FINISH"
        BY <3>3, <4>1 DEF RunsWithin
      <4>3. \A m \in Nodes(g) : c < m /\ m <= d => m \in (c + 1)..d
        BY <3>1, TreeNodes
      <4> QED
        BY <4>2, <4>3
    <3>5. g[d].type = "FINISH"
      BY <1>3, <3>1, <3>4
    <3>6. G \in SUBSET S /\ G # {} /\ S \ G # {}
      BY <1>6, <2>3
    <3> HIDE DEF d
    <3>7. \A x \in G, y \in S \ G : Runs(g, s, x, y)
      <4> SUFFICES ASSUME NEW x \in G, NEW y \in S \ G
                   PROVE  Runs(g, s, x, y)
        OBVIOUS
      <4> DEFINE e == br(y)
      <4>1. /\ x \in S /\ y \in S /\ br(x) = d /\ e # d /\ c <= e /\ e \in Nat /\ e \in Nodes(g)
            /\ g[e].parent = k
        BY <1>3, <1>5
      <4>2. e < d => g[e].type \in {"STEP", "FINISH"}
        BY <1>13, <3>1, <3>4, <4>1
      <4> HIDE DEF e
      <4>3. ~Par(g, s[x], s[y]) /\ ~Par(g, s[i], s[y])
        BY <1>7, <2>1, <3>1, <3>5, <4>1, <4>2 DEF d, e
      <4>4. ~Par(g, s[y], s[x])
        BY <1>1, <4>1, <4>3, ParSymmetric
      <4>5. y # x /\ i # y /\ i <= y
        BY <2>1, <4>1 DEF d, e
      <4>6. ~(y < x)
        <5> SUFFICES ASSUME y < x PROVE FALSE
          OBVIOUS
        <5>1. i < y
          BY <1>1, <2>1, <4>1, <4>5
        <5>2. CASE e = c
          <6>1. s[y] = c
            BY <1>10, <1>13, <4>1, <5>2 DEF e
          <6> QED
            BY <1>9, <2>1, <3>3, <4>1, <5>1, <6>1 DEF d
        <5>3. CASE e # c /\ e < d
          <6>1. e = s[y]
            BY <1>8, <2>1, <4>1, <4>3, <5>1, <5>3, <3>1 DEF d, e
          <6>2. g[e].type = "FINISH"
            BY <3>1, <3>4, <4>1, <5>3
          <6> QED
            BY <1>1, <4>1, <6>1, <6>2 DEF StepsOf
        <5>4. CASE d < e
          <6>1. d = s[x]
            BY <1>8, <4>1, <4>4, <5>4, <3>1 DEF e
          <6> QED
            BY <1>1, <3>5, <4>1, <6>1 DEF StepsOf
        <5> QED
          BY <3>1, <4>1, <5>2, <5>3, <5>4
      <4> QED
        BY <1>1, <4>1, <4>3, <4>5, <4>6 DEF Runs
    <3> HIDE DEF G
    <3> QED
      BY <3>6, <3>7
  <2> QED
    BY <2>2, <2>3
<1> QED
  BY <1>11, <1>12, <1>13

\* The order of strands is transitive.
LEMMA RunsTransitive ==
    ASSUME NEW g, WellFormed(g), NEW Q, NEW s, Strands(g, Q, s),
           NEW a \in Q, NEW b \in Q, NEW c \in Q, Runs(g, s, a, b), Runs(g, s, b, c)
    PROVE  Runs(g, s, a, c)
<1> DEFINE S == {a, b, c}
<1>1. /\ a < b /\ b < c /\ a \in Nat /\ b \in Nat /\ c \in Nat
      /\ s[a] \in StepsOf(g) /\ s[b] \in StepsOf(g) /\ s[c] \in StepsOf(g)
  BY DEF Runs, Strands
<1>2. ~Par(g, s[a], s[b]) /\ ~Par(g, s[b], s[a]) /\ ~Par(g, s[b], s[c]) /\ ~Par(g, s[c], s[b])
  BY <1>1, ParSymmetric DEF Runs
<1>3. CASE s[a] = s[b] \/ s[b] = s[c]
  BY <1>1, <1>2, <1>3 DEF Runs
<1>4. CASE s[a] # s[b]
  <2>1. PICK G \in SUBSET S :
           /\ G # {} /\ S \ G # {}
           /\ \/ \A x \in G, y \in S \ G : Par(g, s[x], s[y])
              \/ \A x \in G, y \in S \ G : Runs(g, s, x, y)
    <3>1. S \in SUBSET Q /\ a \in S /\ b \in S
      OBVIOUS
    <3> HIDE DEF S
    <3> QED
      BY <1>4, <3>1, CutSteps
  <2>2. CASE \A x \in G, y \in S \ G : Par(g, s[x], s[y])
    BY <1>2, <2>1, <2>2
  <2>3. CASE \A x \in G, y \in S \ G : Runs(g, s, x, y)
    <3>1. \A x \in G, y \in S : y < x => y \in G
      BY <2>3, <1>1 DEF Runs
    <3>2. (b \in G => a \in G) /\ (c \in G => b \in G)
      BY <1>1, <3>1
    <3>3. a \in G /\ c \notin G
      BY <2>1, <3>2
    <3> QED
      BY <2>3, <3>3
  <2> QED
    BY <2>1, <2>2, <2>3
<1> QED
  BY <1>3, <1>4

\* It has no N: it is series-parallel.
LEMMA NoN ==
    ASSUME NEW g, WellFormed(g), NEW Q, NEW s, Strands(g, Q, s),
           NEW a \in Q, NEW b \in Q, NEW c \in Q, NEW d \in Q,
           Runs(g, s, a, c), Runs(g, s, b, c), Runs(g, s, b, d),
           Par(g, s[a], s[b]), Par(g, s[a], s[d]), Par(g, s[c], s[d])
    PROVE  FALSE
<1> DEFINE S == {a, b, c, d}
<1>1. /\ s[a] # s[b]
      /\ ~Par(g, s[a], s[c]) /\ ~Par(g, s[c], s[a]) /\ ~Par(g, s[b], s[c]) /\ ~Par(g, s[c], s[b])
      /\ ~Par(g, s[b], s[d]) /\ ~Par(g, s[d], s[b])
      /\ Par(g, s[b], s[a]) /\ Par(g, s[d], s[a]) /\ Par(g, s[d], s[c])
  <2>1. s[a] \in StepsOf(g) /\ s[b] \in StepsOf(g) /\ s[c] \in StepsOf(g) /\ s[d] \in StepsOf(g)
    BY DEF Strands
  <2>2. ~Par(g, s[a], s[c]) /\ ~Par(g, s[b], s[c]) /\ ~Par(g, s[b], s[d])
    BY DEF Runs
  <2>3. s[a] # s[b]
    BY DEF Par
  <2>4. /\ Par(g, s[a], s[c]) <=> Par(g, s[c], s[a])
        /\ Par(g, s[b], s[c]) <=> Par(g, s[c], s[b])
        /\ Par(g, s[b], s[d]) <=> Par(g, s[d], s[b])
    BY <2>1, ParSymmetric
  <2>5. Par(g, s[b], s[a])
    BY <2>1, ParSymmetric
  <2>6. Par(g, s[d], s[a])
    BY <2>1, ParSymmetric
  <2>7. Par(g, s[d], s[c])
    BY <2>1, ParSymmetric
  <2> QED
    BY <2>2, <2>3, <2>4, <2>5, <2>6, <2>7
<1>2. PICK G \in SUBSET S :
         /\ G # {} /\ S \ G # {}
         /\ \/ \A x \in G, y \in S \ G : Par(g, s[x], s[y])
            \/ \A x \in G, y \in S \ G : Runs(g, s, x, y)
  <2>1. S \in SUBSET Q /\ a \in S /\ b \in S
    OBVIOUS
  <2>2. s[a] # s[b]
    BY <1>1
  <2> HIDE DEF S
  <2> QED
    BY <2>1, <2>2, CutSteps
<1>3. CASE \A x \in G, y \in S \ G : Par(g, s[x], s[y])
  <2>1. \A x \in G, y \in S : ~Par(g, s[x], s[y]) => y \in G
    BY <1>3
  <2>2. a \in S /\ b \in S /\ c \in S /\ d \in S
    OBVIOUS
  <2>3. (a \in G <=> c \in G) /\ (b \in G <=> c \in G) /\ (b \in G <=> d \in G)
    <3> HIDE DEF S
    <3> QED
      BY <1>1, <2>1, <2>2
  <2> QED
    BY <1>2, <2>3
<1>4. CASE \A x \in G, y \in S \ G : Runs(g, s, x, y)
  <2>1. \A x \in G, y \in S : Par(g, s[x], s[y]) => y \in G
    BY <1>4 DEF Runs
  <2>2. a \in S /\ b \in S /\ c \in S /\ d \in S
    OBVIOUS
  <2>3. (a \in G <=> b \in G) /\ (a \in G <=> d \in G) /\ (c \in G <=> d \in G)
    <3> HIDE DEF S
    <3> QED
      BY <1>1, <2>1, <2>2
  <2> QED
    BY <1>2, <2>3
<1> QED
  BY <1>2, <1>3, <1>4

\* Of the steps x, y, u of three parallel strands: when u leaves x higher in the tree
\* than y does, a strand parallel to x is parallel to u or y; otherwise a strand that
\* runs before none of them and is parallel to u is parallel to x or y.
LEMMA ThirdStep ==
    ASSUME NEW g, WellFormed(g), NEW Q, NEW s, Strands(g, Q, s),
           NEW i \in Q, NEW j \in Q, NEW n \in Q, NEW q \in Q,
           Par(g, s[i], s[j]), Par(g, s[i], s[n]), Par(g, s[j], s[n])
    PROVE  /\ /\ g[LCA(g, s[i], s[n])].depth < g[LCA(g, s[i], s[j])].depth
              /\ Par(g, s[q], s[i])
              => Par(g, s[q], s[n]) \/ Par(g, s[q], s[j])
           /\ /\ ~(g[LCA(g, s[i], s[n])].depth < g[LCA(g, s[i], s[j])].depth)
              /\ ~Runs(g, s, q, i) /\ ~Runs(g, s, q, j)
              /\ Par(g, s[q], s[n])
              => Par(g, s[q], s[i]) \/ Par(g, s[q], s[j])
<1> DEFINE x == s[i]
           y == s[j]
           u == s[n]
           t == s[q]
           l == LCA(g, x, u)
           m == LCA(g, x, y)
<1>1. /\ x \in StepsOf(g) /\ y \in StepsOf(g) /\ u \in StepsOf(g) /\ t \in StepsOf(g)
      /\ i \in Nat /\ j \in Nat /\ q \in Nat
  BY DEF Strands
<1>2. Par(g, x, y) /\ Par(g, x, u) /\ Par(g, y, u)
  OBVIOUS
<1>3. \A z \in {i, j} : z < q => Follows(g, s[z], t)
  BY DEF Strands, Ordered
<1> HIDE DEF x, y, u, t
<1>4. /\ x \in Nodes(g) /\ y \in Nodes(g) /\ u \in Nodes(g) /\ t \in Nodes(g)
      /\ x # y /\ x # u
      /\ Par(g, y, x) /\ Par(g, u, x)
  BY <1>1, <1>2, ParSymmetric DEF StepsOf, Nodes, Par
<1>5. /\ l \in Nodes(g) /\ l \in Anc(g, x) /\ l \in Anc(g, u)
      /\ Branch(g, l, x) # Branch(g, l, u)
  BY <1>1, <1>4, StepsPart
<1>6. /\ m \in Nodes(g) /\ m \in Anc(g, x) /\ m \in Anc(g, y)
      /\ Branch(g, m, x) # Branch(g, m, y)
  BY <1>1, <1>4, StepsPart
<1>7. \A k \in Common(g, x, y) : k # m => Branch(g, k, x) = Branch(g, k, y)
  BY <1>1, <1>4, StepsPart
<1> HIDE DEF l, m
<1>8. ASSUME g[l].depth < g[m].depth, Par(g, t, x)
      PROVE  Par(g, t, u) \/ Par(g, t, y)
  <2>1. l # m /\ l \in Anc(g, m)
    <3>1. l \in Anc(g, m) \/ m \in Anc(g, l)
      BY <1>4, <1>5, <1>6, AncChain
    <3>2. l # m
      BY <1>5, <1>8, TreeNodes
    <3>3. m \in Anc(g, l) => g[m].depth < g[l].depth
      BY <1>5, <3>2, AncOrder
    <3>4. g[l].depth \in Nat /\ g[m].depth \in Nat
      BY <1>5, <1>6, TreeNodes
    <3> QED
      BY <1>8, <3>1, <3>2, <3>3, <3>4
  <2>2. l \in Common(g, x, y) /\ Branch(g, l, x) = Branch(g, l, y)
    <3>1. l \in Anc(g, y)
      BY <1>4, <1>6, <2>1, AncTransitive
    <3>2. l \in Common(g, x, y)
      BY <1>5, <3>1 DEF Common
    <3> QED
      BY <1>7, <2>1, <3>2
  <2>3. CASE l \notin Anc(g, t)
    BY <1>1, <1>8, <2>2, <2>3, OutsideAlike
  <2>4. CASE l \in Anc(g, t) /\ Branch(g, l, t) # Branch(g, l, x)
    BY <1>1, <1>8, <2>2, <2>4, Alike
  <2>5. CASE l \in Anc(g, t) /\ Branch(g, l, t) = Branch(g, l, x)
    <3>1. l \in Common(g, x, t)
      BY <1>5, <2>5 DEF Common
    <3>2. Par(g, x, u) <=> Par(g, t, u)
      BY <1>1, <1>5, <2>5, <3>1, Alike
    <3> QED
      BY <1>2, <3>2
  <2> QED
    BY <2>3, <2>4, <2>5
<1>9. ASSUME ~(g[l].depth < g[m].depth), ~Runs(g, s, q, i), ~Runs(g, s, q, j),
             Par(g, t, u), ~Par(g, t, x), ~Par(g, t, y)
      PROVE  FALSE
  <2>1. m \in Anc(g, l)
    <3>1. l \in Anc(g, m) \/ m \in Anc(g, l)
      BY <1>4, <1>5, <1>6, AncChain
    <3>2. l \in Anc(g, m) => l = m
      BY <1>6, <1>9, AncOrder
    <3> QED
      BY <1>6, <3>1, <3>2, AncBasics
  <2>2. m \in Common(g, x, u) /\ m \in Common(g, x, y) /\ m \in Common(g, y, x)
    <3>1. m \in Anc(g, u)
      BY <1>4, <1>5, <2>1, AncTransitive
    <3> QED
      BY <1>6, <3>1 DEF Common
  <2>3. t # x /\ t # y
    BY <1>2, <1>4, <1>9
  <2>4. m \in Anc(g, t)
    BY <1>1, <1>9, <2>2, OutsideAlike
  <2>5. Branch(g, m, t) # Branch(g, m, x)
    <3>1. m \in Common(g, t, x)
      BY <1>6, <2>4 DEF Common
    <3>2. Branch(g, m, t) = Branch(g, m, x) => (Par(g, t, y) <=> Par(g, x, y))
      BY <1>1, <1>6, <3>1, Alike
    <3> QED
      BY <1>2, <1>9, <3>2
  <2>6. Branch(g, m, t) # Branch(g, m, y)
    <3>1. m \in Common(g, t, y)
      BY <1>6, <2>4 DEF Common
    <3>2. Branch(g, m, t) = Branch(g, m, y) => (Par(g, t, x) <=> Par(g, y, x))
      BY <1>1, <1>6, <3>1, Alike
    <3> QED
      BY <1>4, <1>9, <3>2
  <2>7. ~Par(g, x, t) /\ ~Par(g, y, t)
    BY <1>1, <1>9, ParSymmetric
  <2>8. Follows(g, x, t) /\ Follows(g, y, t)
    <3>1. i # q /\ j # q
      BY <2>3 DEF t, x, y
    <3>2. ~(q < i) /\ ~(q < j)
      BY <1>9 DEF Runs, t, x, y
    <3>3. i < q /\ j < q
      BY <1>1, <3>1, <3>2
    <3> QED
      BY <1>3, <3>3 DEF x, y
  <2>9. m \in Common(g, x, t) /\ m \in Common(g, y, t)
    BY <1>6, <2>4 DEF Common
  <2>10. g[Branch(g, m, x)].type # "ASYNC"
    BY <1>1, <2>5, <2>7, <2>8, <2>9, FollowsIs
  <2>11. g[Branch(g, m, y)].type # "ASYNC"
    BY <1>1, <2>6, <2>7, <2>8, <2>9, FollowsIs
  <2>12. g[Branch(g, m, x)].type = "ASYNC" \/ g[Branch(g, m, y)].type = "ASYNC"
    <3>1. \/ Par(g, x, y) <=> g[Branch(g, m, x)].type = "ASYNC"
          \/ Par(g, x, y) <=> g[Branch(g, m, y)].type = "ASYNC"
      BY <1>1, <1>6, <2>2, BranchesRelate
    <3> QED
      BY <1>2, <3>1
  <2> QED
    BY <2>10, <2>11, <2>12
<1>10. g[l].depth < g[m].depth /\ Par(g, t, x) => Par(g, t, u) \/ Par(g, t, y)
  BY <1>8
<1>11. (~(g[l].depth < g[m].depth) /\ ~Runs(g, s, q, i) /\ ~Runs(g, s, q, j) /\ Par(g, t, u))
       => Par(g, t, x) \/ Par(g, t, y)
  BY <1>9
<1> QED
  BY <1>10, <1>11 DEF l, m, x, y, u, t

-----------------------------------------------------------------------------
(* The trees of programs in which a task waits for what it spawned *)

\* The FINISH of a spawn phase; every other internal node is that of a task.
IsPhase(g, n) == n # 1 /\ g[n].type = "FINISH" /\ ~g[n].sp_root_n_wt_flag
IsTask(g, n)  == g[n].type # "STEP" /\ ~IsPhase(g, n)

\* Below a task are its steps, the phases it opened and the roots it started; below a
\* phase, which belongs to the task, are its steps and the tasks it spawned, a step last.
Placed(g, n) ==
    LET p == g[n].parent IN
    /\ g[n].type = "ASYNC" <=> IsTask(g, n) /\ IsPhase(g, p)
    /\ g[n].type = "FINISH" => IsTask(g, p)
    /\ IsPhase(g, n) \/ g[n].type = "STEP" => g[n].taskId = g[p].taskId
    /\ IsPhase(g, p) => n <= g[p].cur_step

\* Every task has one node, and phases are told from tasks by their youngest child.
Shaped(g) ==
    /\ g[1].taskId = 0 /\ g[1].type = "FINISH"
    /\ \A n \in Nodes(g) :
          /\ g[n].type \in {"ASYNC", "FINISH", "STEP"}
          /\ g[n].type # "STEP" => (checkForStep(g[n]) <=> IsPhase(g, n))
          /\ n # 1 /\ g[n].type # "STEP" => g[n].cur_step # 0
          /\ n # 1 => Placed(g, n)
    /\ \A m, n \in Nodes(g) :
          IsTask(g, m) /\ IsTask(g, n) /\ g[m].taskId = g[n].taskId => m = n

Known(g) == {g[n].taskId : n \in Nodes(g)}

\* h is g with new nodes at the end; of the old ones p alone has changed, in what it
\* says of its youngest children.
OthersKept(g, h, p, young, step) ==
    \A n \in Nodes(g) :
       /\ h[n].taskId = g[n].taskId /\ h[n].parent = g[n].parent
       /\ h[n].type = g[n].type
       /\ h[n].sp_root_n_wt_flag = g[n].sp_root_n_wt_flag
       /\ h[n].young_ns_child = IF n = p THEN young ELSE g[n].young_ns_child
       /\ h[n].cur_step = IF n = p THEN step ELSE g[n].cur_step

NodeIs(h, n, type, id, p, flag, young, step) ==
    /\ h[n].taskId = id /\ h[n].parent = p /\ h[n].type = type
    /\ h[n].sp_root_n_wt_flag = flag
    /\ h[n].young_ns_child = young /\ h[n].cur_step = step

\* The fields of the nodes after one addition.
Added(g, h, p, type, id, flag) ==
    LET k == Len(g) + 1 IN
    /\ Len(h) = k
    /\ OthersKept(g, h, p, IF type = "STEP" THEN g[p].young_ns_child ELSE type,
            IF type = "STEP" THEN k ELSE g[p].cur_step)
    /\ NodeIs(h, k, type, id, p, flag, "NO_TYPE", 0)

\* What add_child leaves in the fields that the shape of the tree is about.
LEMMA AddChildFields ==
    ASSUME NEW g, WellFormed(g), NEW p \in Nodes(g), NEW type, NEW id
    PROVE  Added(g, AddChild(g, p, type, id), p, type, id, FALSE)
<1> DEFINE h == AddChild(g, p, type, id)
           k == Len(g) + 1
           young == IF type = "STEP" THEN g[p].young_ns_child ELSE type
           step  == IF type = "STEP" THEN k ELSE g[p].cur_step
           num == g[p].num_children + 1
           a == Adopt(g[p], type, k)
<1>1. g \in Seq(AFTask) /\ Len(g) \in Nat
  BY DEF WellFormed
<1>2. /\ Len(h) = k
      /\ \A n \in 1..Len(g) : h[n] = IF n = p THEN a ELSE g[n]
      /\ h[k] = NewNode(type, id, p, g[p].depth + 1, g[p].num_children)
  BY <1>1, AddChildNodes DEF Nodes
<1>3. g[p] \in AFTask
  BY <1>1 DEF Nodes
<1>4. a = [g[p] EXCEPT !.num_children = num, !.young_ns_child = young, !.cur_step = step]
  BY DEF Adopt
<1> HIDE DEF h, young, step, num, a
<1>5. /\ a.taskId = g[p].taskId /\ a.parent = g[p].parent /\ a.type = g[p].type
      /\ a.sp_root_n_wt_flag = g[p].sp_root_n_wt_flag
      /\ a.young_ns_child = young /\ a.cur_step = step
  BY <1>3, <1>4 DEF AFTask
<1>6. OthersKept(g, h, p, young, step)
  BY <1>2, <1>5 DEF OthersKept, Nodes
<1>7. NodeIs(h, k, type, id, p, FALSE, "NO_TYPE", 0)
  BY <1>2 DEF NodeIs, NewNode
<1> QED
  BY <1>2, <1>6, <1>7 DEF Added, h, young, step

\* The same of a new step node: its parent names it as the current one.
LEMMA AddStepFields ==
    ASSUME NEW g, WellFormed(g), NEW p \in Nodes(g)
    PROVE  LET h == AddStep(g, p) IN
           /\ Len(h) = Len(g) + 1
           /\ OthersKept(g, h, p, g[p].young_ns_child, Len(g) + 1)
           /\ NodeIs(h, Len(g) + 1, "STEP", g[p].taskId, p, FALSE, "NO_TYPE", 0)
BY AddChildFields DEF AddStep, Added

\* FlagRoot as part of the addition.
LEMMA AddRootFields ==
    ASSUME NEW g, WellFormed(g), NEW p \in Nodes(g), g[p].type # "STEP", NEW id \in Nat
    PROVE  LET h == FlagRoot(AddChild(g, p, "FINISH", id), Len(g) + 1) IN
           WellFormed(h) /\ Added(g, h, p, "FINISH", id, TRUE)
<1> DEFINE g0 == AddChild(g, p, "FINISH", id)
           k == Len(g) + 1
           h == FlagRoot(g0, k)
           node == [g0[k] EXCEPT !.sp_root_n_wt_flag = TRUE]
<1>0. Len(g) \in Nat /\ "FINISH" \in NodeType /\ p \in 1..Len(g)
  BY DEF NodeType, WellFormed, Nodes
<1>1. WellFormed(g0) /\ Added(g, g0, p, "FINISH", id, FALSE)
  BY <1>0, AddChildWellFormed, AddChildFields
<1> HIDE DEF g0
<1>2. /\ g0 \in Seq(AFTask) /\ Len(g0) = k /\ k \in 1..Len(g0) /\ g0[k] \in AFTask
      /\ WellFormed(h)
  BY <1>0, <1>1, NodeInTree, FlagRootWellFormed DEF Added, WellFormed
<1>3. h = [g0 EXCEPT ![k] = node]
  BY DEF FlagRoot
<1>4. /\ node.taskId = g0[k].taskId /\ node.parent = g0[k].parent
      /\ node.type = g0[k].type /\ node.sp_root_n_wt_flag = TRUE
      /\ node.young_ns_child = g0[k].young_ns_child /\ node.cur_step = g0[k].cur_step
  BY <1>2 DEF AFTask
<1> HIDE DEF node, h
<1>5. Len(h) = k /\ h[k] = node /\ \A n \in 1..k : n # k => h[n] = g0[n]
  BY <1>2, <1>3
<1>6. \A n \in Nodes(g) : n \in 1..k /\ n # k
  BY <1>0 DEF Nodes
<1>7. Added(g, h, p, "FINISH", id, TRUE)
  BY <1>1, <1>4, <1>5, <1>6 DEF Added, OthersKept, NodeIs
<1> QED
  BY <1>2, <1>7 DEF h, g0

\* The two steps that follow the ASYNC of a spawn, one below it and one beside it.
LEMMA SpawnIntoFields ==
    ASSUME NEW g, WellFormed(g), NEW p \in Nodes(g), g[p].type # "STEP", NEW id \in Nat
    PROVE  LET k == Len(g)
               g1 == AddChild(g, p, "ASYNC", id)
               h == AddStep(AddStep(g1, Len(g1)), p)
           IN  /\ k \in Nat /\ Len(g1) = k + 1 /\ Len(h) = k + 3
               /\ OthersKept(g, h, p, "ASYNC", k + 3)
               /\ NodeIs(h, k + 1, "ASYNC", id, p, FALSE, "NO_TYPE", k + 2)
               /\ NodeIs(h, k + 2, "STEP", id, k + 1, FALSE, "NO_TYPE", 0)
               /\ NodeIs(h, k + 3, "STEP", g[p].taskId, p, FALSE, "NO_TYPE", 0)
<1> DEFINE k == Len(g)
           g1 == AddChild(g, p, "ASYNC", id)
           g2 == AddStep(g1, Len(g1))
           h == AddStep(g2, p)
<1>1. k \in Nat /\ "ASYNC" \in NodeType /\ p \in Nat /\ p <= k
  BY DEF NodeType, WellFormed, Nodes
<1>2. /\ WellFormed(g1) /\ Added(g, g1, p, "ASYNC", id, FALSE)
  BY <1>1, AddChildWellFormed, AddChildFields DEF Nodes
<1> HIDE DEF g1
<1>3. /\ Len(g1) = k + 1 /\ OthersKept(g, g1, p, "ASYNC", g[p].cur_step)
      /\ NodeIs(g1, k + 1, "ASYNC", id, p, FALSE, "NO_TYPE", 0)
  BY <1>2 DEF Added
<1>4. /\ WellFormed(g2) /\ Len(g2) = k + 2
      /\ OthersKept(g1, g2, k + 1, g1[k + 1].young_ns_child, k + 2)
      /\ NodeIs(g2, k + 2, "STEP", g1[k + 1].taskId, k + 1, FALSE, "NO_TYPE", 0)
  <2>1. k + 1 \in Nodes(g1) /\ g1[k + 1].type # "STEP" /\ k + 1 + 1 = k + 2
    BY <1>1, <1>3 DEF Nodes, NodeIs
  <2> QED
    BY <1>2, <1>3, <2>1, AddStepFields, AddStepWellFormed DEF Nodes
<1> HIDE DEF g2
<1>5. /\ Len(h) = k + 3
      /\ OthersKept(g2, h, p, g2[p].young_ns_child, k + 3)
      /\ NodeIs(h, k + 3, "STEP", g2[p].taskId, p, FALSE, "NO_TYPE", 0)
  <2>1. p \in Nodes(g2) /\ k + 2 + 1 = k + 3
    BY <1>1, <1>4 DEF Nodes
  <2> QED
    BY <1>4, <2>1, AddStepFields
<1> HIDE DEF h
<1>6. /\ Nodes(g) \subseteq Nodes(g1) /\ Nodes(g1) \subseteq Nodes(g2)
      /\ k + 1 \in Nodes(g1) /\ k + 1 \in Nodes(g2) /\ k + 2 \in Nodes(g2)
      /\ k + 1 \notin Nodes(g) /\ k + 2 \notin Nodes(g1) /\ p # k + 1 /\ p # k + 2
      /\ k + 1 # k + 2
  BY <1>1, <1>3, <1>4 DEF Nodes
<1>7. OthersKept(g, h, p, "ASYNC", k + 3)
  BY <1>3, <1>4, <1>5, <1>6 DEF OthersKept
<1>8. NodeIs(h, k + 1, "ASYNC", id, p, FALSE, "NO_TYPE", k + 2)
  BY <1>3, <1>4, <1>5, <1>6 DEF OthersKept, NodeIs
<1>9. NodeIs(h, k + 2, "STEP", id, k + 1, FALSE, "NO_TYPE", 0)
  BY <1>3, <1>4, <1>5, <1>6 DEF OthersKept, NodeIs
<1>10. g2[p].taskId = g[p].taskId
  BY <1>3, <1>4, <1>6 DEF OthersKept
<1> QED
  BY <1>1, <1>3, <1>5, <1>7, <1>8, <1>9, <1>10 DEF h, g2, g1

\* What a spawn leaves behind, in an open phase and in a new one.
SpawnedInto(g, h, p, id) ==
    LET k == Len(g) IN
    /\ Len(h) = k + 3
    /\ OthersKept(g, h, p, "ASYNC", k + 3)
    /\ NodeIs(h, k + 1, "ASYNC", id, p, FALSE, "NO_TYPE", k + 2)
    /\ NodeIs(h, k + 2, "STEP", id, k + 1, FALSE, "NO_TYPE", 0)
    /\ NodeIs(h, k + 3, "STEP", g[p].taskId, p, FALSE, "NO_TYPE", 0)

SpawnedBelow(g, h, p, id) ==
    LET k == Len(g) IN
    /\ Len(h) = k + 4
    /\ OthersKept(g, h, p, "FINISH", g[p].cur_step)
    /\ NodeIs(h, k + 1, "FINISH", g[p].taskId, p, FALSE, "ASYNC", k + 4)
    /\ NodeIs(h, k + 2, "ASYNC", id, k + 1, FALSE, "NO_TYPE", k + 3)
    /\ NodeIs(h, k + 3, "STEP", id, k + 2, FALSE, "NO_TYPE", 0)
    /\ NodeIs(h, k + 4, "STEP", g[p].taskId, k + 1, FALSE, "NO_TYPE", 0)

\* The nodes a spawn adds: to the open phase of the task, or with a new phase below its node.
LEMMA SpawnFields ==
    ASSUME NEW g, WellFormed(g), NEW p \in Nodes(g), g[p].type # "STEP", NEW id \in Nat
    PROVE  LET s == SpawnTree(g, p, id) IN
           /\ checkForStep(g[p]) =>
                 /\ s.phase = p /\ s.node = Len(g) + 1
                 /\ SpawnedInto(g, s.tree, p, id)
           /\ ~checkForStep(g[p]) =>
                 /\ s.phase = Len(g) + 1 /\ s.node = Len(g) + 2
                 /\ SpawnedBelow(g, s.tree, p, id)
<1>1. CASE checkForStep(g[p])
  <2> DEFINE g1 == AddChild(g, p, "ASYNC", id)
  <2>1. SpawnTree(g, p, id) = [tree |-> AddStep(AddStep(g1, Len(g1)), p),
                               phase |-> p, node |-> Len(g1)]
    BY <1>1 DEF SpawnTree
  <2> DEFINE h == AddStep(AddStep(g1, Len(g1)), p)
  <2>2. Len(g1) = Len(g) + 1 /\ SpawnedInto(g, h, p, id)
    BY SpawnIntoFields DEF SpawnedInto
  <2> HIDE DEF h, g1
  <2>3. SpawnTree(g, p, id).tree = h /\ SpawnTree(g, p, id).phase = p
        /\ SpawnTree(g, p, id).node = Len(g) + 1
    BY <2>1, <2>2 DEF h
  <2> QED
    BY <1>1, <2>2, <2>3
<1>2. CASE ~checkForStep(g[p])
  <2> DEFINE k == Len(g)
             tid == g[p].taskId
             g0 == AddChild(g, p, "FINISH", tid)
             g1 == AddChild(g0, k + 1, "ASYNC", id)
             h == AddStep(AddStep(g1, Len(g1)), k + 1)
  <2>1. SpawnTree(g, p, id) = [tree |-> h, phase |-> k + 1, node |-> Len(g1)]
    BY <1>2 DEF SpawnTree
  <2>2. k \in Nat /\ tid \in Nat /\ "FINISH" \in NodeType /\ p \in 1..Len(g)
    BY NodeInTree DEF NodeType, WellFormed, Nodes
  <2>3. WellFormed(g0) /\ Added(g, g0, p, "FINISH", tid, FALSE)
    BY <2>2, AddChildWellFormed, AddChildFields
  <2> HIDE DEF g0, tid
  <2>4. /\ Len(g0) = k + 1 /\ k + 1 \in Nodes(g0)
        /\ OthersKept(g, g0, p, "FINISH", g[p].cur_step)
        /\ NodeIs(g0, k + 1, "FINISH", tid, p, FALSE, "NO_TYPE", 0)
    <3>1. /\ Len(g0) = k + 1
          /\ OthersKept(g, g0, p, "FINISH", g[p].cur_step)
          /\ NodeIs(g0, k + 1, "FINISH", tid, p, FALSE, "NO_TYPE", 0)
      BY <2>3 DEF Added
    <3>2. k + 1 \in 1..(k + 1)
      BY <2>2
    <3> QED
      BY <3>1, <3>2, Zenon DEF Nodes
  <2>5. g0[k + 1].type # "STEP"
    BY <2>4 DEF NodeIs
  <2>6. /\ Len(g1) = k + 1 + 1 /\ Len(h) = k + 1 + 3
        /\ OthersKept(g0, h, k + 1, "ASYNC", k + 1 + 3)
        /\ NodeIs(h, k + 1 + 1, "ASYNC", id, k + 1, FALSE, "NO_TYPE", k + 1 + 2)
        /\ NodeIs(h, k + 1 + 2, "STEP", id, k + 1 + 1, FALSE, "NO_TYPE", 0)
        /\ NodeIs(h, k + 1 + 3, "STEP", g0[k + 1].taskId, k + 1, FALSE, "NO_TYPE", 0)
    <3> DEFINE q == k + 1
    <3>1. q \in Nodes(g0) /\ Len(g0) = q /\ g0[q].type # "STEP"
      BY <2>4, <2>5
    <3> HIDE DEF q
    <3>2. LET f1 == AddChild(g0, q, "ASYNC", id)
              f == AddStep(AddStep(f1, Len(f1)), q)
          IN  /\ Len(f1) = q + 1 /\ Len(f) = q + 3
              /\ OthersKept(g0, f, q, "ASYNC", q + 3)
              /\ NodeIs(f, q + 1, "ASYNC", id, q, FALSE, "NO_TYPE", q + 2)
              /\ NodeIs(f, q + 2, "STEP", id, q + 1, FALSE, "NO_TYPE", 0)
              /\ NodeIs(f, q + 3, "STEP", g0[q].taskId, q, FALSE, "NO_TYPE", 0)
      BY <2>3, <3>1, SpawnIntoFields
    <3> QED
      BY <3>1, <3>2, Zenon DEF q, h, g1
  <2> HIDE DEF h, g1
  <2>7. k + 1 + 1 = k + 2 /\ k + 1 + 2 = k + 3 /\ k + 1 + 3 = k + 4
    BY <2>2
  <2>8. /\ Nodes(g) \subseteq Nodes(g0) /\ k + 1 \notin Nodes(g)
    BY <2>2, <2>4 DEF Nodes
  <2>9. OthersKept(g, h, p, "FINISH", g[p].cur_step)
    BY <2>4, <2>6, <2>8 DEF OthersKept
  <2>10. NodeIs(h, k + 1, "FINISH", tid, p, FALSE, "ASYNC", k + 4)
    BY <2>4, <2>6, <2>7 DEF OthersKept, NodeIs
  <2>11. g0[k + 1].taskId = tid
    BY <2>4 DEF NodeIs
  <2>12. SpawnedBelow(g, h, p, id)
    BY <2>6, <2>7, <2>9, <2>10, <2>11 DEF SpawnedBelow, tid
  <2> QED
    BY <1>2, <2>1, <2>6, <2>7, <2>12
<1> QED
  BY <1>1, <1>2

\* What the start of a root leaves behind.
Rooted(g, h, p, id) ==
    LET k == Len(g) IN
    /\ Len(h) = k + 2
    /\ OthersKept(g, h, p, "FINISH", g[p].cur_step)
    /\ NodeIs(h, k + 1, "FINISH", id, p, TRUE, "NO_TYPE", k + 2)
    /\ NodeIs(h, k + 2, "STEP", id, k + 1, FALSE, "NO_TYPE", 0)

\* The nodes CaptureSpawnRootAndWait adds: the FINISH of the root and its first step.
LEMMA RootFields ==
    ASSUME NEW g, WellFormed(g), NEW p \in Nodes(g), g[p].type # "STEP", NEW id \in Nat
    PROVE  LET r == RootTree(g, p, id) IN
           r.node = Len(g) + 1 /\ Rooted(g, r.tree, p, id)
<1> DEFINE k == Len(g)
           g1 == FlagRoot(AddChild(g, p, "FINISH", id), k + 1)
           h == AddStep(g1, k + 1)
<1>1. k \in Nat /\ WellFormed(g1) /\ Added(g, g1, p, "FINISH", id, TRUE)
  <2>1. k \in Nat
    BY DEF WellFormed
  <2>2. LET f == FlagRoot(AddChild(g, p, "FINISH", id), Len(g) + 1) IN
        WellFormed(f) /\ Added(g, f, p, "FINISH", id, TRUE)
    BY AddRootFields
  <2> QED
    BY <2>1, <2>2, Zenon
<1>2. RootTree(g, p, id) = [tree |-> AddStep(g1, Len(g1)), node |-> Len(g1)]
  BY DEF RootTree
<1> HIDE DEF g1
<1>3. /\ Len(g1) = k + 1 /\ k + 1 \in Nodes(g1)
      /\ OthersKept(g, g1, p, "FINISH", g[p].cur_step)
      /\ NodeIs(g1, k + 1, "FINISH", id, p, TRUE, "NO_TYPE", 0)
  <2>1. /\ Len(g1) = k + 1
        /\ OthersKept(g, g1, p, "FINISH", g[p].cur_step)
        /\ NodeIs(g1, k + 1, "FINISH", id, p, TRUE, "NO_TYPE", 0)
    BY <1>1 DEF Added
  <2>2. k + 1 \in 1..(k + 1)
    BY <1>1
  <2> QED
    BY <2>1, <2>2, Zenon DEF Nodes
<1>4. /\ Len(h) = k + 1 + 1
      /\ OthersKept(g1, h, k + 1, g1[k + 1].young_ns_child, k + 1 + 1)
      /\ NodeIs(h, k + 1 + 1, "STEP", g1[k + 1].taskId, k + 1, FALSE, "NO_TYPE", 0)
  BY <1>1, <1>3, AddStepFields
<1> HIDE DEF h
<1>5. k + 1 + 1 = k + 2 /\ Nodes(g) \subseteq Nodes(g1) /\ k + 1 \notin Nodes(g)
  BY <1>1, <1>3 DEF Nodes
<1>6. OthersKept(g, h, p, "FINISH", g[p].cur_step)
  BY <1>3, <1>4, <1>5 DEF OthersKept
<1>7. NodeIs(h, k + 1, "FINISH", id, p, TRUE, "NO_TYPE", k + 2)
  BY <1>3, <1>4, <1>5 DEF OthersKept, NodeIs
<1>8. g1[k + 1].taskId = id
  BY <1>3 DEF NodeIs
<1>9. Rooted(g, h, p, id)
  BY <1>4, <1>5, <1>6, <1>7, <1>8 DEF Rooted
<1> QED
  BY <1>2, <1>3, <1>9 DEF h

-----------------------------------------------------------------------------
(* Spawns, roots and waits keep the shape *)

\* The tree that the constructor builds is a tidy one.
LEMMA HeadTreeShaped == Shaped(HeadTree)
<1>1. /\ Nodes(HeadTree) = {1} /\ HeadTree[1] = NewNode("FINISH", 0, 0, 0, 0)
  BY DEF Nodes, HeadTree
<1>2. /\ HeadTree[1].taskId = 0 /\ HeadTree[1].type = "FINISH"
      /\ HeadTree[1].young_ns_child = "NO_TYPE"
  BY <1>1 DEF NewNode
<1> QED
  BY <1>1, <1>2 DEF Shaped, checkForStep, IsPhase

\* The old nodes in a tree that has grown.
LEMMA KeptKinds ==
    ASSUME NEW g, WellFormed(g), NEW h, NEW p, NEW young, NEW step,
           OthersKept(g, h, p, young, step)
    PROVE  /\ \A n \in Nodes(g) : h[n].type = g[n].type /\ h[n].taskId = g[n].taskId
                                  /\ h[n].parent = g[n].parent
           /\ \A n \in Nodes(g) : (IsPhase(h, n) <=> IsPhase(g, n))
                                  /\ (IsTask(h, n) <=> IsTask(g, n))
           /\ \A n \in Nodes(g) : n # 1 => n \in Nat /\ g[n].parent \in Nodes(g)
BY Parents DEF OthersKept, IsPhase, IsTask

\* An old node keeps its place, unless it is in a phase that has lost its last step.
LEMMA KeptPlaced ==
    ASSUME NEW g, WellFormed(g), Shaped(g), NEW h, NEW p \in Nodes(g), NEW young, NEW step,
           OthersKept(g, h, p, young, step),
           g[p].type # "STEP" => (young = "ASYNC" <=> IsPhase(g, p)),
           step = g[p].cur_step \/ (step \in Nat /\ step > Len(g)),
           p # 1 /\ g[p].type # "STEP" => step # 0
    PROVE  \A n \in Nodes(g) :
              /\ h[n].type \in {"ASYNC", "FINISH", "STEP"}
              /\ h[n].type # "STEP" => (checkForStep(h[n]) <=> IsPhase(h, n))
              /\ n # 1 /\ h[n].type # "STEP" => h[n].cur_step # 0
              /\ n # 1 => Placed(h, n)
<1> SUFFICES ASSUME NEW n \in Nodes(g)
             PROVE  /\ h[n].type \in {"ASYNC", "FINISH", "STEP"}
                    /\ h[n].type # "STEP" => (checkForStep(h[n]) <=> IsPhase(h, n))
                    /\ n # 1 /\ h[n].type # "STEP" => h[n].cur_step # 0
                    /\ n # 1 => Placed(h, n)
  OBVIOUS
<1>1. /\ \A m \in Nodes(g) : h[m].type = g[m].type /\ h[m].taskId = g[m].taskId
                             /\ h[m].parent = g[m].parent
      /\ \A m \in Nodes(g) : (IsPhase(h, m) <=> IsPhase(g, m))
                             /\ (IsTask(h, m) <=> IsTask(g, m))
      /\ n # 1 => n \in Nat /\ g[n].parent \in Nodes(g)
  BY KeptKinds
<1>2. /\ h[n].young_ns_child = IF n = p THEN young ELSE g[n].young_ns_child
      /\ \A m \in Nodes(g) : h[m].cur_step = IF m = p THEN step ELSE g[m].cur_step
  BY DEF OthersKept
<1>3. /\ g[n].type \in {"ASYNC", "FINISH", "STEP"}
      /\ g[n].type # "STEP" => (checkForStep(g[n]) <=> IsPhase(g, n))
      /\ n # 1 /\ g[n].type # "STEP" => g[n].cur_step # 0
      /\ n # 1 => Placed(g, n)
  BY DEF Shaped
<1>4. h[n].type \in {"ASYNC", "FINISH", "STEP"}
  BY <1>1, <1>3
<1>5. ASSUME h[n].type # "STEP"
      PROVE  checkForStep(h[n]) <=> IsPhase(h, n)
  BY <1>1, <1>2, <1>3, <1>5 DEF checkForStep
<1>6. n # 1 /\ h[n].type # "STEP" => h[n].cur_step # 0
  BY <1>1, <1>2, <1>3
<1>7. ASSUME n # 1
      PROVE  Placed(h, n)
  <2> DEFINE q == g[n].parent
  <2>1. q \in Nodes(g) /\ h[n].parent = q /\ n \in Nat /\ n <= Len(g) /\ Len(g) \in Nat
    BY <1>1, <1>7, TreeNodes DEF Nodes
  <2>2. IsPhase(h, q) => n <= h[q].cur_step
    <3>1. IsPhase(g, q) => n <= g[q].cur_step
      BY <1>3, <1>7 DEF Placed
    <3> HIDE DEF q
    <3>2. h[q].cur_step = g[q].cur_step \/ (h[q].cur_step \in Nat /\ h[q].cur_step > Len(g))
      BY <1>2, <2>1
    <3> QED
      BY <1>1, <2>1, <3>1, <3>2
  <2> HIDE DEF q
  <2>3. /\ g[n].type = "ASYNC" <=> IsTask(g, n) /\ IsPhase(g, q)
        /\ g[n].type = "FINISH" => IsTask(g, q)
        /\ IsPhase(g, n) \/ g[n].type = "STEP" => g[n].taskId = g[q].taskId
    BY <1>3, <1>7 DEF Placed, q
  <2> QED
    BY <1>1, <2>1, <2>2, <2>3 DEF Placed
<1> QED
  BY <1>4, <1>5, <1>6, <1>7

\* A tree is Shaped if its old nodes are and the new ones are in their place.
LEMMA GrownShaped ==
    ASSUME NEW g, WellFormed(g), Shaped(g), NEW h, NEW p \in Nodes(g), NEW young, NEW step,
           OthersKept(g, h, p, young, step),
           g[p].type # "STEP" => (young = "ASYNC" <=> IsPhase(g, p)),
           step = g[p].cur_step \/ (step \in Nat /\ step > Len(g)),
           p # 1 /\ g[p].type # "STEP" => step # 0,
           NEW t,
           \A n \in Nodes(h) \ Nodes(g) :
              /\ n # 1 /\ h[n].type \in {"ASYNC", "FINISH", "STEP"}
              /\ h[n].type # "STEP" => (checkForStep(h[n]) <=> IsPhase(h, n))
              /\ h[n].type # "STEP" => h[n].cur_step # 0
              /\ Placed(h, n)
              /\ IsTask(h, n) => n = t /\ h[t].taskId \notin Known(g)
    PROVE  Shaped(h)
<1>1. /\ \A m \in Nodes(g) : h[m].type = g[m].type /\ h[m].taskId = g[m].taskId
                             /\ h[m].parent = g[m].parent
      /\ \A m \in Nodes(g) : (IsPhase(h, m) <=> IsPhase(g, m))
                             /\ (IsTask(h, m) <=> IsTask(g, m))
  BY KeptKinds
<1>2. 1 \in Nodes(g)
  BY TreeNodes DEF Nodes
<1>3. h[1].taskId = 0 /\ h[1].type = "FINISH"
  BY <1>1, <1>2 DEF Shaped
<1>4. ASSUME NEW n \in Nodes(h)
      PROVE  /\ h[n].type \in {"ASYNC", "FINISH", "STEP"}
             /\ h[n].type # "STEP" => (checkForStep(h[n]) <=> IsPhase(h, n))
             /\ n # 1 /\ h[n].type # "STEP" => h[n].cur_step # 0
             /\ n # 1 => Placed(h, n)
  <2>1. CASE n \in Nodes(g)
    BY <2>1, KeptPlaced
  <2>2. CASE n \notin Nodes(g)
    BY <2>2
  <2> QED
    BY <2>1, <2>2
<1>5. ASSUME NEW m \in Nodes(h), NEW n \in Nodes(h), IsTask(h, m), IsTask(h, n),
             h[m].taskId = h[n].taskId
      PROVE  m = n
  <2>1. h[t].taskId \notin Known(g) => \A x \in Nodes(g) : h[x].taskId # h[t].taskId
    BY <1>1 DEF Known
  <2>2. \A x \in Nodes(h) : IsTask(h, x) =>
           x \in Nodes(g) \/ (x = t /\ h[t].taskId \notin Known(g))
    OBVIOUS
  <2>3. CASE m \in Nodes(g) /\ n \in Nodes(g)
    BY <2>3, <1>1, <1>5 DEF Shaped
  <2>4. CASE ~(m \in Nodes(g) /\ n \in Nodes(g))
    BY <2>1, <2>2, <2>4, <1>5
  <2> QED
    BY <2>3, <2>4
<1> QED
  BY <1>3, <1>4, <1>5 DEF Shaped

\* A spawn opens a phase below the node of a task, or goes on in the open phase.
LEMMA SpawnShaped ==
    ASSUME NEW g, WellFormed(g), Shaped(g), NEW p \in Nodes(g), g[p].type # "STEP",
           NEW id \in Nat, id \notin Known(g)
    PROVE  /\ checkForStep(g[p]) <=> IsPhase(g, p)
           /\ Shaped(SpawnTree(g, p, id).tree)
<1> DEFINE h == SpawnTree(g, p, id).tree
           k == Len(g)
<1>0. checkForStep(g[p]) <=> IsPhase(g, p)
  BY DEF Shaped
<1>1. /\ checkForStep(g[p]) => SpawnedInto(g, h, p, id)
      /\ ~checkForStep(g[p]) => SpawnedBelow(g, h, p, id)
  BY SpawnFields
<1> HIDE DEF h
<1>2. k \in Nat /\ p \in Nat /\ p <= k /\ k # 0 /\ Nodes(g) = 1..k
  BY TreeNodes DEF Nodes
<1>3. \A x \in Nodes(g) : x # k + 1 /\ x # k + 2 /\ x # k + 3 /\ x # k + 4
  BY <1>2
<1>4. CASE checkForStep(g[p])
  <2>1. /\ Len(h) = k + 3 /\ OthersKept(g, h, p, "ASYNC", k + 3)
        /\ NodeIs(h, k + 1, "ASYNC", id, p, FALSE, "NO_TYPE", k + 2)
        /\ NodeIs(h, k + 2, "STEP", id, k + 1, FALSE, "NO_TYPE", 0)
        /\ NodeIs(h, k + 3, "STEP", g[p].taskId, p, FALSE, "NO_TYPE", 0)
    BY <1>1, <1>4 DEF SpawnedInto
  <2>2. Nodes(h) \ Nodes(g) = {k + 1, k + 2, k + 3}
    <3>1. Nodes(h) = 1..(k + 3)
      BY <2>1 DEF Nodes
    <3>2. \A n : n \in 1..(k + 3) /\ n \notin 1..k <=> n \in {k + 1, k + 2, k + 3}
      BY <1>2
    <3> QED
      BY <1>2, <3>1, <3>2
  <2>3. IsPhase(h, p) /\ h[p].cur_step = k + 3 /\ h[p].taskId = g[p].taskId
    <3>1. h[p].cur_step = k + 3
      BY <2>1 DEF OthersKept
    <3> QED
      BY <1>0, <1>4, <2>1, <3>1, KeptKinds
  <2>4. /\ IsTask(h, k + 1) /\ ~IsPhase(h, k + 1)
        /\ ~IsPhase(h, k + 2) /\ ~IsTask(h, k + 2)
        /\ ~IsPhase(h, k + 3) /\ ~IsTask(h, k + 3)
    BY <2>1 DEF IsTask, IsPhase, NodeIs
  <2>5. Placed(h, k + 1) /\ Placed(h, k + 2) /\ Placed(h, k + 3)
    BY <1>2, <2>1, <2>3, <2>4 DEF Placed, NodeIs
  <2>6. \A n \in Nodes(h) \ Nodes(g) :
           /\ n # 1 /\ h[n].type \in {"ASYNC", "FINISH", "STEP"}
           /\ h[n].type # "STEP" => (checkForStep(h[n]) <=> IsPhase(h, n))
           /\ h[n].type # "STEP" => h[n].cur_step # 0
           /\ Placed(h, n)
           /\ IsTask(h, n) => n = k + 1 /\ h[k + 1].taskId \notin Known(g)
    BY <1>2, <2>1, <2>2, <2>4, <2>5 DEF NodeIs, checkForStep
  <2>8. k + 3 \in Nat /\ k + 3 > Len(g) /\ k + 3 # 0
    BY <1>2
  <2>9. Shaped(h)
    BY <1>0, <1>4, <2>1, <2>6, <2>8, GrownShaped
  <2> QED
    BY <1>0, <2>9 DEF h
<1>5. CASE ~checkForStep(g[p])
  <2>1. /\ Len(h) = k + 4 /\ OthersKept(g, h, p, "FINISH", g[p].cur_step)
        /\ NodeIs(h, k + 1, "FINISH", g[p].taskId, p, FALSE, "ASYNC", k + 4)
        /\ NodeIs(h, k + 2, "ASYNC", id, k + 1, FALSE, "NO_TYPE", k + 3)
        /\ NodeIs(h, k + 3, "STEP", id, k + 2, FALSE, "NO_TYPE", 0)
        /\ NodeIs(h, k + 4, "STEP", g[p].taskId, k + 1, FALSE, "NO_TYPE", 0)
    BY <1>1, <1>5 DEF SpawnedBelow
  <2>2. Nodes(h) \ Nodes(g) = {k + 1, k + 2, k + 3, k + 4}
    BY <1>2, <2>1 DEF Nodes
  <2>3. ~IsPhase(h, p) /\ IsTask(h, p) /\ h[p].taskId = g[p].taskId
    BY <1>0, <1>5, <2>1, KeptKinds DEF IsTask
  <2>4. /\ IsPhase(h, k + 1) /\ ~IsTask(h, k + 1)
        /\ IsTask(h, k + 2) /\ ~IsPhase(h, k + 2)
        /\ ~IsPhase(h, k + 3) /\ ~IsTask(h, k + 3)
        /\ ~IsPhase(h, k + 4) /\ ~IsTask(h, k + 4)
    BY <1>2, <2>1 DEF IsTask, IsPhase, NodeIs
  <2>5. Placed(h, k + 1) /\ Placed(h, k + 2) /\ Placed(h, k + 3) /\ Placed(h, k + 4)
    BY <1>2, <2>1, <2>3, <2>4 DEF Placed, NodeIs
  <2>6. \A n \in Nodes(h) \ Nodes(g) :
           /\ n # 1 /\ h[n].type \in {"ASYNC", "FINISH", "STEP"}
           /\ h[n].type # "STEP" => (checkForStep(h[n]) <=> IsPhase(h, n))
           /\ h[n].type # "STEP" => h[n].cur_step # 0
           /\ Placed(h, n)
           /\ IsTask(h, n) => n = k + 2 /\ h[k + 2].taskId \notin Known(g)
    BY <1>2, <2>1, <2>2, <2>4, <2>5 DEF NodeIs, checkForStep
  <2>8. p # 1 => g[p].cur_step # 0
    BY DEF Shaped
  <2>9. Shaped(h)
    BY <1>0, <1>5, <2>1, <2>6, <2>8, GrownShaped
  <2> QED
    BY <1>0, <2>9 DEF h
<1> QED
  BY <1>4, <1>5

\* A root starts below the node of a task.
LEMMA RootShaped ==
    ASSUME NEW g, WellFormed(g), Shaped(g), NEW p \in Nodes(g), IsTask(g, p),
           NEW id \in Nat, id \notin Known(g)
    PROVE  Shaped(RootTree(g, p, id).tree)
<1> DEFINE h == RootTree(g, p, id).tree
           k == Len(g)
<1>1. g[p].type # "STEP" /\ ~IsPhase(g, p)
  BY DEF IsTask
<1>2. /\ Len(h) = k + 2 /\ OthersKept(g, h, p, "FINISH", g[p].cur_step)
      /\ NodeIs(h, k + 1, "FINISH", id, p, TRUE, "NO_TYPE", k + 2)
      /\ NodeIs(h, k + 2, "STEP", id, k + 1, FALSE, "NO_TYPE", 0)
  BY <1>1, RootFields DEF Rooted
<1> HIDE DEF h
<1>3. k \in Nat /\ p \in Nat /\ p <= k /\ k # 0 /\ Nodes(g) = 1..k
  BY TreeNodes DEF Nodes
<1>4. Nodes(h) \ Nodes(g) = {k + 1, k + 2}
  BY <1>2, <1>3 DEF Nodes
<1>5. ~IsPhase(h, p) /\ IsTask(h, p)
  BY <1>1, <1>2, KeptKinds
<1>6. /\ IsTask(h, k + 1) /\ ~IsPhase(h, k + 1)
      /\ ~IsPhase(h, k + 2) /\ ~IsTask(h, k + 2)
  BY <1>2 DEF IsTask, IsPhase, NodeIs
<1>7. Placed(h, k + 1) /\ Placed(h, k + 2)
  BY <1>2, <1>3, <1>5, <1>6 DEF Placed, NodeIs
<1>8. \A n \in Nodes(h) \ Nodes(g) :
         /\ n # 1 /\ h[n].type \in {"ASYNC", "FINISH", "STEP"}
         /\ h[n].type # "STEP" => (checkForStep(h[n]) <=> IsPhase(h, n))
         /\ h[n].type # "STEP" => h[n].cur_step # 0
         /\ Placed(h, n)
         /\ IsTask(h, n) => n = k + 1 /\ h[k + 1].taskId \notin Known(g)
  BY <1>2, <1>3, <1>4, <1>6, <1>7 DEF NodeIs, checkForStep
<1>9. p # 1 => g[p].cur_step # 0
  BY <1>1 DEF Shaped
<1>10. Shaped(h)
  BY <1>1, <1>2, <1>8, <1>9, GrownShaped
<1> QED
  BY <1>10 DEF h

\* A task goes on in a new step.
LEMMA StepShaped ==
    ASSUME NEW g, WellFormed(g), Shaped(g), NEW p \in Nodes(g), g[p].type # "STEP"
    PROVE  Shaped(AddStep(g, p))
<1> DEFINE h == AddStep(g, p)
           k == Len(g)
<1>1. /\ Len(h) = k + 1 /\ OthersKept(g, h, p, g[p].young_ns_child, k + 1)
      /\ NodeIs(h, k + 1, "STEP", g[p].taskId, p, FALSE, "NO_TYPE", 0)
  BY AddStepFields
<1> HIDE DEF h
<1>2. k \in Nat /\ p \in Nat /\ p <= k /\ k # 0 /\ Nodes(g) = 1..k
  BY TreeNodes DEF Nodes
<1>3. Nodes(h) \ Nodes(g) = {k + 1}
  BY <1>1, <1>2 DEF Nodes
<1>4. ~IsPhase(h, k + 1) /\ ~IsTask(h, k + 1)
  BY <1>1 DEF IsTask, IsPhase, NodeIs
<1>5. h[p].cur_step = k + 1 /\ h[p].taskId = g[p].taskId
  BY <1>1 DEF OthersKept
<1>6. Placed(h, k + 1)
  BY <1>1, <1>2, <1>4, <1>5 DEF Placed, NodeIs
<1>7. /\ k + 1 # 1 /\ h[k + 1].type = "STEP"
  BY <1>1, <1>2 DEF NodeIs
<1>8. g[p].young_ns_child = "ASYNC" <=> IsPhase(g, p)
  BY DEF Shaped, checkForStep
<1>9. k + 1 \in Nat /\ k + 1 > Len(g) /\ k + 1 # 0
  BY <1>2
<1>10. \A n \in Nodes(h) \ Nodes(g) :
         /\ n # 1 /\ h[n].type \in {"ASYNC", "FINISH", "STEP"}
         /\ h[n].type # "STEP" => (checkForStep(h[n]) <=> IsPhase(h, n))
         /\ h[n].type # "STEP" => h[n].cur_step # 0
         /\ Placed(h, n)
         /\ IsTask(h, n) => n = 0 /\ h[0].taskId \notin Known(g)
  BY <1>3, <1>4, <1>6, <1>7
<1>11. Shaped(h)
  BY <1>1, <1>8, <1>9, <1>10, GrownShaped
<1> QED
  BY <1>11 DEF h

-----------------------------------------------------------------------------
(* The node and the last step of a task *)

OwnNode(g, n, id) == n \in Nodes(g) /\ IsTask(g, n) /\ g[n].taskId = id

IsLast(g, t, s) ==
    /\ s \in StepsOf(g) /\ g[s].taskId = t
    /\ \A r \in StepsOf(g) : g[r].taskId = t => r <= s

\* h is g with more nodes, none of them a step of task t.
GrowsBeside(g, h, t) ==
    /\ \A n \in Nodes(g) :
          /\ n \in Nodes(h)
          /\ h[n].type = g[n].type /\ h[n].taskId = g[n].taskId
          /\ h[n].parent = g[n].parent
          /\ IsTask(h, n) <=> IsTask(g, n)
          /\ IsPhase(h, n) <=> IsPhase(g, n)
          /\ g[n].taskId = t => h[n].cur_step = g[n].cur_step
    /\ \A r \in StepsOf(h) : h[r].taskId = t => r \in StepsOf(g)

\* An addition below a node of another task adds no step of task t.
LEMMA KeptGrows ==
    ASSUME NEW g, WellFormed(g), NEW h, NEW p, NEW young, NEW step,
           OthersKept(g, h, p, young, step), Nodes(g) \subseteq Nodes(h), NEW t,
           step = g[p].cur_step \/ g[p].taskId # t,
           \A r \in Nodes(h) \ Nodes(g) : h[r].type = "STEP" => h[r].taskId # t
    PROVE  GrowsBeside(g, h, t)
<1>1. \A n \in Nodes(g) :
         /\ h[n].type = g[n].type /\ h[n].taskId = g[n].taskId
         /\ h[n].parent = g[n].parent
         /\ (IsTask(h, n) <=> IsTask(g, n)) /\ (IsPhase(h, n) <=> IsPhase(g, n))
  BY KeptKinds
<1>2. \A n \in Nodes(g) : g[n].taskId = t => h[n].cur_step = g[n].cur_step
  BY DEF OthersKept
<1>3. \A r \in StepsOf(h) : h[r].taskId = t => r \in StepsOf(g)
  <2> SUFFICES ASSUME NEW r \in StepsOf(h), h[r].taskId = t
               PROVE  r \in StepsOf(g)
    OBVIOUS
  <2>1. r \in Nodes(h) /\ h[r].type = "STEP"
    BY DEF StepsOf, Nodes
  <2>2. r \in Nodes(g)
    BY <2>1
  <2>3. g[r].type = "STEP"
    BY <2>1, <2>2, <1>1
  <2> QED
    BY <2>2, <2>3 DEF StepsOf, Nodes
<1> QED
  BY <1>1, <1>2, <1>3 DEF GrowsBeside

\* A tree that stays grows beside every task.
LEMMA StaysBeside ==
    ASSUME NEW g, NEW t
    PROVE  GrowsBeside(g, g, t)
BY DEF GrowsBeside

\* What is the last step of a task stays it.
LEMMA LastStays ==
    ASSUME NEW g, NEW h, NEW t, GrowsBeside(g, h, t)
    PROVE  /\ \A n : OwnNode(g, n, t) => OwnNode(h, n, t) /\ h[n].cur_step = g[n].cur_step
           /\ \A s : IsLast(g, t, s) => IsLast(h, t, s)
<1>1. \A n : OwnNode(g, n, t) => OwnNode(h, n, t) /\ h[n].cur_step = g[n].cur_step
  BY DEF GrowsBeside, OwnNode
<1>2. ASSUME NEW s, IsLast(g, t, s)
      PROVE  IsLast(h, t, s)
  <2>1. s \in Nodes(g) /\ g[s].type = "STEP" /\ g[s].taskId = t
    BY <1>2 DEF IsLast, StepsOf, Nodes
  <2>2. s \in Nodes(h) /\ h[s].type = "STEP" /\ h[s].taskId = t
    BY <2>1 DEF GrowsBeside
  <2>3. \A r \in StepsOf(h) : h[r].taskId = t => r \in StepsOf(g) /\ g[r].taskId = t
    BY DEF GrowsBeside, StepsOf, Nodes
  <2> QED
    BY <2>2, <2>3, <1>2 DEF IsLast, StepsOf, Nodes
<1> QED
  BY <1>1, <1>2

\* A spawn below the node or the open phase of a task: the node and the step of the
\* child, and the step in which the task goes on.
SpawnGrown(g, s, p, id) ==
    LET h == s.tree
        tid == g[p].taskId
    IN  /\ \A t : t # tid /\ t # id => GrowsBeside(g, h, t)
        /\ \A n \in Nodes(g) : n \in Nodes(h) /\ (IsTask(h, n) <=> IsTask(g, n))
                               /\ (IsPhase(h, n) <=> IsPhase(g, n))
                               /\ h[n].taskId = g[n].taskId /\ h[n].parent = g[n].parent
        /\ Known(h) = Known(g) \cup {id}
        /\ OwnNode(h, s.node, id) /\ IsLast(h, id, h[s.node].cur_step)
        /\ s.phase \in Nodes(h) /\ IsLast(h, tid, h[s.phase].cur_step)
        /\ IsPhase(h, s.phase) /\ h[s.phase].taskId = tid
        /\ s.phase = p <=> IsPhase(g, p)
        /\ s.phase # p => h[s.phase].parent = p

\* A spawn grows the tree beside all tasks but the two at hand; these get their last
\* steps where the runtime looks for them.
LEMMA SpawnGrows ==
    ASSUME NEW g, WellFormed(g), Shaped(g), NEW p \in Nodes(g), g[p].type # "STEP",
           NEW id \in Nat, id \notin Known(g)
    PROVE  SpawnGrown(g, SpawnTree(g, p, id), p, id)
<1> DEFINE s == SpawnTree(g, p, id)
           h == s.tree
           tid == g[p].taskId
           k == Len(g)
<1>0. checkForStep(g[p]) <=> IsPhase(g, p)
  BY DEF Shaped
<1>1. /\ IsPhase(g, p) => /\ s.phase = p /\ s.node = k + 1
                          /\ SpawnedInto(g, h, p, id)
      /\ ~IsPhase(g, p) => /\ s.phase = k + 1 /\ s.node = k + 2
                           /\ SpawnedBelow(g, h, p, id)
  BY <1>0, SpawnFields
<1> HIDE DEF s, h
<1>2. k \in Nat /\ p \in Nat /\ p <= k /\ k # 0 /\ Nodes(g) = 1..k
  BY TreeNodes DEF Nodes
<1>3. tid \in Known(g) /\ tid # id
  BY DEF Known
<1>4. \A r \in Nodes(g) : g[r].taskId # id
  BY DEF Known
<1> HIDE DEF tid
<1>5. CASE IsPhase(g, p)
  <2>1. /\ Len(h) = k + 3 /\ OthersKept(g, h, p, "ASYNC", k + 3)
        /\ NodeIs(h, k + 1, "ASYNC", id, p, FALSE, "NO_TYPE", k + 2)
        /\ NodeIs(h, k + 2, "STEP", id, k + 1, FALSE, "NO_TYPE", 0)
        /\ NodeIs(h, k + 3, "STEP", tid, p, FALSE, "NO_TYPE", 0)
    BY <1>1, <1>5 DEF SpawnedInto, tid
  <2>2. Nodes(h) = Nodes(g) \cup {k + 1, k + 2, k + 3} /\ Nodes(h) = 1..(k + 3)
    <3>1. Nodes(h) = 1..(k + 3)
      BY <2>1 DEF Nodes
    <3>2. 1..(k + 3) = 1..k \cup {k + 1, k + 2, k + 3}
      BY <1>2
    <3> QED
      BY <1>2, <3>1, <3>2
  <2>3. \A t : t # tid /\ t # id => GrowsBeside(g, h, t)
    BY <2>1, <2>2, KeptGrows DEF NodeIs, tid
  <2>4. \A n \in Nodes(g) : h[n].type = g[n].type /\ h[n].taskId = g[n].taskId
                            /\ h[n].parent = g[n].parent
                            /\ (IsTask(h, n) <=> IsTask(g, n))
                            /\ (IsPhase(h, n) <=> IsPhase(g, n))
    BY <2>1, KeptKinds
  <2>5. Known(h) = Known(g) \cup {id}
    BY <2>1, <2>2, <2>4, <1>3 DEF Known, NodeIs
  <2>6. OwnNode(h, k + 1, id) /\ h[k + 1].cur_step = k + 2
    BY <2>1, <2>2 DEF OwnNode, IsTask, IsPhase, NodeIs
  <2>7. IsLast(h, id, k + 2)
    <3>1. k + 2 \in StepsOf(h) /\ h[k + 2].taskId = id
      BY <2>1, <2>2 DEF StepsOf, NodeIs, Nodes
    <3>2. \A r \in StepsOf(h) : h[r].taskId = id => r = k + 2 \/ r = k + 1
      <4>1. \A r \in StepsOf(h) : r \in Nodes(h)
        BY DEF StepsOf, Nodes
      <4> QED
        BY <4>1, <2>1, <2>2, <2>4, <1>3, <1>4 DEF NodeIs
    <3> QED
      BY <1>2, <3>1, <3>2 DEF IsLast
  <2>8. IsLast(h, tid, k + 3) /\ h[p].cur_step = k + 3 /\ p \in Nodes(h)
    <3>1. k + 3 \in StepsOf(h) /\ h[k + 3].taskId = tid
      BY <2>1, <2>2 DEF StepsOf, NodeIs, Nodes
    <3>2. \A r \in StepsOf(h) : r <= k + 3
      BY <2>1, <1>2 DEF StepsOf
    <3> QED
      BY <2>1, <2>2, <3>1, <3>2 DEF IsLast, OthersKept
  <2>9. s.phase = p /\ s.node = k + 1
    BY <1>1, <1>5
  <2> QED
    BY <1>5, <2>2, <2>3, <2>4, <2>5, <2>6, <2>7, <2>8, <2>9 DEF s, h, tid, SpawnGrown
<1>6. CASE ~IsPhase(g, p)
  <2>1. /\ Len(h) = k + 4 /\ OthersKept(g, h, p, "FINISH", g[p].cur_step)
        /\ NodeIs(h, k + 1, "FINISH", tid, p, FALSE, "ASYNC", k + 4)
        /\ NodeIs(h, k + 2, "ASYNC", id, k + 1, FALSE, "NO_TYPE", k + 3)
        /\ NodeIs(h, k + 3, "STEP", id, k + 2, FALSE, "NO_TYPE", 0)
        /\ NodeIs(h, k + 4, "STEP", tid, k + 1, FALSE, "NO_TYPE", 0)
    BY <1>1, <1>6 DEF SpawnedBelow, tid
  <2>2. Nodes(h) = Nodes(g) \cup {k + 1, k + 2, k + 3, k + 4} /\ Nodes(h) = 1..(k + 4)
    <3>1. Nodes(h) = 1..(k + 4)
      BY <2>1 DEF Nodes
    <3>2. 1..(k + 4) = 1..k \cup {k + 1, k + 2, k + 3, k + 4}
      BY <1>2
    <3> QED
      BY <1>2, <3>1, <3>2
  <2>3. \A t : t # tid /\ t # id => GrowsBeside(g, h, t)
    BY <2>1, <2>2, KeptGrows DEF NodeIs, tid
  <2>4. \A n \in Nodes(g) : h[n].type = g[n].type /\ h[n].taskId = g[n].taskId
                            /\ h[n].parent = g[n].parent
                            /\ (IsTask(h, n) <=> IsTask(g, n))
                            /\ (IsPhase(h, n) <=> IsPhase(g, n))
    BY <2>1, KeptKinds
  <2>5. Known(h) = Known(g) \cup {id}
    BY <2>1, <2>2, <2>4, <1>3 DEF Known, NodeIs
  <2>6. OwnNode(h, k + 2, id) /\ h[k + 2].cur_step = k + 3
    BY <2>1, <2>2 DEF OwnNode, IsTask, IsPhase, NodeIs
  <2>7. IsLast(h, id, k + 3)
    <3>1. k + 3 \in StepsOf(h) /\ h[k + 3].taskId = id
      BY <2>1, <2>2 DEF StepsOf, NodeIs, Nodes
    <3>2. \A r \in StepsOf(h) : h[r].taskId = id => r = k + 3 \/ r = k + 2
      <4>1. \A r \in StepsOf(h) : r \in Nodes(h)
        BY DEF StepsOf, Nodes
      <4> QED
        BY <4>1, <2>1, <2>2, <2>4, <1>3, <1>4 DEF NodeIs
    <3> QED
      BY <1>2, <3>1, <3>2 DEF IsLast
  <2>8. IsLast(h, tid, k + 4) /\ h[k + 1].cur_step = k + 4 /\ k + 1 \in Nodes(h)
    <3>1. k + 4 \in StepsOf(h) /\ h[k + 4].taskId = tid
      BY <2>1, <2>2 DEF StepsOf, NodeIs, Nodes
    <3>2. \A r \in StepsOf(h) : r <= k + 4
      BY <2>1, <1>2 DEF StepsOf
    <3> QED
      BY <2>1, <2>2, <3>1, <3>2 DEF IsLast, NodeIs
  <2>9. /\ IsPhase(h, k + 1) /\ h[k + 1].taskId = tid /\ h[k + 1].parent = p
        /\ k + 1 # p
    BY <2>1, <1>2 DEF IsPhase, NodeIs
  <2>10. s.phase = k + 1 /\ s.node = k + 2
    BY <1>1, <1>6
  <2> QED
    BY <1>6, <2>2, <2>3, <2>4, <2>5, <2>6, <2>7, <2>8, <2>9, <2>10 DEF s, h, tid, SpawnGrown
<1> QED
  BY <1>5, <1>6

\* A root: its node and its step.
LEMMA RootGrows ==
    ASSUME NEW g, WellFormed(g), NEW p \in Nodes(g), g[p].type # "STEP",
           NEW id \in Nat, id \notin Known(g)
    PROVE  LET r == RootTree(g, p, id)
               h == r.tree
           IN  /\ \A t : t # id => GrowsBeside(g, h, t)
               /\ Known(h) = Known(g) \cup {id}
               /\ OwnNode(h, r.node, id) /\ IsLast(h, id, h[r.node].cur_step)
<1> DEFINE r == RootTree(g, p, id)
           h == r.tree
           k == Len(g)
<1>1. /\ r.node = k + 1 /\ Len(h) = k + 2 /\ OthersKept(g, h, p, "FINISH", g[p].cur_step)
      /\ NodeIs(h, k + 1, "FINISH", id, p, TRUE, "NO_TYPE", k + 2)
      /\ NodeIs(h, k + 2, "STEP", id, k + 1, FALSE, "NO_TYPE", 0)
  BY RootFields DEF Rooted
<1> HIDE DEF r, h
<1>2. k \in Nat /\ p \in Nat /\ p <= k /\ k # 0 /\ Nodes(g) = 1..k
  BY TreeNodes DEF Nodes
<1>3. Nodes(h) = Nodes(g) \cup {k + 1, k + 2} /\ Nodes(h) = 1..(k + 2)
  <2>1. Nodes(h) = 1..(k + 2)
    BY <1>1 DEF Nodes
  <2>2. 1..(k + 2) = 1..k \cup {k + 1, k + 2}
    BY <1>2
  <2> QED
    BY <1>2, <2>1, <2>2
<1>4. \A t : t # id => GrowsBeside(g, h, t)
  BY <1>1, <1>3, KeptGrows DEF NodeIs
<1>5. \A n \in Nodes(g) : h[n].taskId = g[n].taskId
  BY <1>1, KeptKinds
<1>6. Known(h) = Known(g) \cup {id}
  BY <1>1, <1>3, <1>5 DEF Known, NodeIs
<1>7. OwnNode(h, k + 1, id) /\ h[k + 1].cur_step = k + 2
  BY <1>1, <1>3 DEF OwnNode, IsTask, IsPhase, NodeIs
<1>8. IsLast(h, id, k + 2)
  <2>1. k + 2 \in StepsOf(h) /\ h[k + 2].taskId = id
    BY <1>1, <1>3 DEF StepsOf, NodeIs, Nodes
  <2>2. \A x \in StepsOf(h) : x <= k + 2
    BY <1>1, <1>2 DEF StepsOf
  <2> QED
    BY <2>1, <2>2 DEF IsLast
<1> QED
  BY <1>1, <1>4, <1>6, <1>7, <1>8 DEF r, h

\* Task tid goes on in a new step.
LEMMA StepGrows ==
    ASSUME NEW g, WellFormed(g), NEW p \in Nodes(g), g[p].type # "STEP"
    PROVE  LET h == AddStep(g, p)
               tid == g[p].taskId
           IN  /\ \A t : t # tid => GrowsBeside(g, h, t)
               /\ Known(h) = Known(g)
               /\ \A n \in Nodes(g) : n \in Nodes(h) /\ (IsTask(h, n) <=> IsTask(g, n))
                                      /\ h[n].taskId = g[n].taskId
               /\ IsLast(h, tid, h[p].cur_step)
<1> DEFINE h == AddStep(g, p)
           k == Len(g)
           tid == g[p].taskId
<1>1. /\ Len(h) = k + 1 /\ OthersKept(g, h, p, g[p].young_ns_child, k + 1)
      /\ NodeIs(h, k + 1, "STEP", tid, p, FALSE, "NO_TYPE", 0)
  BY AddStepFields
<1> HIDE DEF h
<1>2. k \in Nat /\ p \in Nat /\ p <= k /\ k # 0 /\ Nodes(g) = 1..k
  BY TreeNodes DEF Nodes
<1>3. Nodes(h) = Nodes(g) \cup {k + 1} /\ Nodes(h) = 1..(k + 1)
  <2>1. Nodes(h) = 1..(k + 1)
    BY <1>1 DEF Nodes
  <2>2. 1..(k + 1) = 1..k \cup {k + 1}
    BY <1>2
  <2> QED
    BY <1>2, <2>1, <2>2
<1>4. \A t : t # tid => GrowsBeside(g, h, t)
  BY <1>1, <1>3, KeptGrows DEF NodeIs
<1>5. \A n \in Nodes(g) : h[n].taskId = g[n].taskId /\ (IsTask(h, n) <=> IsTask(g, n))
  BY <1>1, KeptKinds
<1>6. Known(h) = Known(g)
  BY <1>1, <1>3, <1>5 DEF Known, NodeIs
<1>7. IsLast(h, tid, k + 1) /\ h[p].cur_step = k + 1
  <2>1. k + 1 \in StepsOf(h) /\ h[k + 1].taskId = tid
    BY <1>1, <1>3 DEF StepsOf, NodeIs, Nodes
  <2>2. \A x \in StepsOf(h) : x <= k + 1
    BY <1>1, <1>2 DEF StepsOf
  <2> QED
    BY <1>1, <2>1, <2>2 DEF IsLast, OthersKept
<1> QED
  BY <1>3, <1>4, <1>5, <1>6, <1>7 DEF h

-----------------------------------------------------------------------------
(* Tasks in the tree *)

\* The node of a task, its last step, and the node its next step goes below: its
\* own, or that of the phase it is in.
Own(g, t)  == CHOOSE n \in Nodes(g) : OwnNode(g, n, t)
Last(g, t) == CHOOSE s \in Nodes(g) : IsLast(g, t, s)
At(g, t)   == g[Last(g, t)].parent

\* Task u runs below task t: t spawned it or started it as a root, or a task below t did.
Above(g, t, u) == t # u /\ Own(g, t) \in Anc(g, Own(g, u))

\* A node of a task is its own, a phase below it, or a step of one of these.
TaskPlace(g, n, o) ==
    /\ OwnNode(g, o, g[n].taskId) /\ o \in Anc(g, n)
    /\ \/ n = o
       \/ IsPhase(g, n) /\ g[n].parent = o
       \/ g[n].type = "STEP" /\ g[n].parent = o
       \/ /\ g[n].type = "STEP" /\ IsPhase(g, g[n].parent)
          /\ g[g[n].parent].taskId = g[n].taskId /\ g[g[n].parent].parent = o

\* A task has one node.
LEMMA OwnIs ==
    ASSUME NEW g, Shaped(g), NEW t, NEW n, OwnNode(g, n, t)
    PROVE  Own(g, t) = n
<1>1. \A m \in Nodes(g) : OwnNode(g, m, t) => m = n
  BY DEF OwnNode, Shaped
<1>2. n \in Nodes(g)
  BY DEF OwnNode
<1> QED
  BY <1>1, <1>2, Zenon DEF Own

\* Nodes of one task hang below its own.
LEMMA NodePlace ==
    ASSUME NEW g, WellFormed(g), Shaped(g), NEW n \in Nodes(g)
    PROVE  TaskPlace(g, n, Own(g, g[n].taskId))
<1> DEFINE t == g[n].taskId
           p == g[n].parent
<1>0. g[n].type \in {"ASYNC", "FINISH", "STEP"}
  BY DEF Shaped
<1>1. CASE IsTask(g, n)
  <2>1. OwnNode(g, n, t)
    BY <1>1 DEF OwnNode
  <2> QED
    BY <2>1, OwnIs, AncBasics DEF TaskPlace
<1>2. CASE ~IsTask(g, n)
  <2>1. n # 1
    BY <1>2 DEF IsTask, IsPhase, Shaped
  <2>2. p \in Nodes(g) /\ Placed(g, n) /\ g[p].type # "STEP"
    BY <2>1, TreeNodes DEF Shaped
  <2>3. IsPhase(g, n) \/ g[n].type = "STEP"
    BY <1>2 DEF IsTask
  <2>4. g[p].taskId = t
    BY <2>2, <2>3 DEF Placed
  <2>5. p \in Anc(g, n) /\ Anc(g, p) \subseteq Anc(g, n)
    BY <2>1, <2>2, AncBasics
  <2>6. CASE IsTask(g, p)
    <3>1. OwnNode(g, p, t)
      BY <2>2, <2>4, <2>6 DEF OwnNode
    <3> QED
      BY <2>3, <2>5, <3>1, OwnIs DEF TaskPlace
  <2>7. CASE ~IsTask(g, p)
    <3>1. IsPhase(g, p) /\ p # 1 /\ g[p].type = "FINISH"
      BY <2>2, <2>7 DEF IsTask, IsPhase
    <3> DEFINE q == g[p].parent
    <3>2. q \in Nodes(g) /\ Placed(g, p)
      BY <2>2, <3>1, TreeNodes DEF Shaped
    <3>3. IsTask(g, q) /\ g[q].taskId = t
      BY <2>4, <3>1, <3>2 DEF Placed
    <3>4. OwnNode(g, q, t)
      BY <3>2, <3>3 DEF OwnNode
    <3>5. ~IsPhase(g, n)
      BY <2>2, <3>1 DEF Placed, IsTask, IsPhase
    <3>6. q \in Anc(g, p)
      BY <2>2, <3>1, <3>2, AncBasics
    <3>7. Own(g, t) = q
      BY <3>4, OwnIs
    <3>8. g[n].type = "STEP" /\ q \in Anc(g, n)
      BY <2>3, <2>5, <3>5, <3>6
    <3> QED
      BY <2>4, <3>1, <3>4, <3>7, <3>8 DEF TaskPlace
  <2> QED
    BY <2>6, <2>7
<1> QED
  BY <1>1, <1>2

\* A task that the tree knows has a node.
LEMMA OwnExists ==
    ASSUME NEW g, WellFormed(g), Shaped(g), NEW t \in Known(g)
    PROVE  OwnNode(g, Own(g, t), t) /\ Own(g, t) \in Nodes(g) /\ IsTask(g, Own(g, t))
<1>1. PICK n \in Nodes(g) : g[n].taskId = t
  BY DEF Known
<1>2. TaskPlace(g, n, Own(g, t))
  BY <1>1, NodePlace
<1> QED
  BY <1>1, <1>2 DEF TaskPlace, OwnNode

\* The program outside any task is at the root.
LEMMA OwnOfMain ==
    ASSUME NEW g, WellFormed(g), Shaped(g)
    PROVE  Own(g, 0) = 1 /\ 0 \in Known(g) /\ OwnNode(g, 1, 0)
<1>1. 1 \in Nodes(g)
  BY TreeNodes
<1>2. OwnNode(g, 1, 0)
  BY <1>1 DEF OwnNode, Shaped, IsTask, IsPhase
<1>3. 0 \in Known(g)
  BY <1>1 DEF Known, Shaped
<1> QED
  BY <1>2, <1>3, OwnIs

\* A bounded set of naturals has a greatest element.
LEMMA NatMax ==
    ASSUME NEW T \in SUBSET Nat, T # {}, NEW k \in Nat, \A n \in T : n <= k
    PROVE  \E m \in T : \A n \in T : n <= m
<1> DEFINE C == {k - n : n \in T}
<1>1. C \in SUBSET Nat /\ C # {}
  <2>1. \A n \in T : n \in Nat /\ n <= k
    OBVIOUS
  <2>2. \A n \in T : k - n \in Nat
    BY <2>1
  <2> QED
    BY <2>2
<1> HIDE DEF C
<1>2. PICK c \in C : \A d \in C : c <= d
  BY <1>1, NatMin
<1>3. PICK m \in T : c = k - m
  BY DEF C
<1>4. \A n \in T : k - n \in C
  BY DEF C
<1>5. \A n \in T : n <= m
  <2> SUFFICES ASSUME NEW n \in T PROVE n <= m
    OBVIOUS
  <2>1. k - m <= k - n
    BY <1>2, <1>3, <1>4
  <2> QED
    BY <2>1
<1> QED
  BY <1>5

\* A task has one last step.
LEMMA LastIs ==
    ASSUME NEW g, WellFormed(g), NEW t, NEW s, IsLast(g, t, s)
    PROVE  Last(g, t) = s
<1>1. \A n \in Nodes(g) : n \in Nat
  BY TreeNodes
<1>2. s \in Nodes(g)
  BY DEF IsLast, StepsOf, Nodes
<1>3. \A n \in Nodes(g) : IsLast(g, t, n) => n <= s /\ s <= n
  BY DEF IsLast
<1>4. \A n \in Nodes(g) : IsLast(g, t, n) => n = s
  BY <1>1, <1>2, <1>3
<1> QED
  BY <1>2, <1>4, Zenon DEF Last

\* What is known of the last step of a task.
LastFacts(g, t) ==
    /\ IsLast(g, t, Last(g, t))
    /\ Last(g, t) \in StepsOf(g) /\ Last(g, t) \in Nodes(g) /\ Last(g, t) # 1
    /\ g[Last(g, t)].type = "STEP" /\ g[Last(g, t)].taskId = t
    /\ At(g, t) \in Nodes(g) /\ g[At(g, t)].type # "STEP" /\ g[At(g, t)].taskId = t
    /\ \/ At(g, t) = Own(g, t)
       \/ IsPhase(g, At(g, t)) /\ g[At(g, t)].parent = Own(g, t) /\ At(g, t) # 1
    /\ At(g, t) \in Anc(g, Last(g, t)) /\ Own(g, t) \in Anc(g, At(g, t))
    /\ Own(g, t) \in Anc(g, Last(g, t))
    /\ OwnNode(g, Own(g, t), t) /\ Own(g, t) # 1
    /\ \A x \in Anc(g, Last(g, t)) :
          x = Last(g, t) \/ x = At(g, t) \/ x \in Anc(g, Own(g, t))
    /\ \A x \in Anc(g, At(g, t)) : x = At(g, t) \/ x \in Anc(g, Own(g, t))
    /\ Anc(g, Own(g, t)) \subseteq Anc(g, At(g, t))
    /\ Anc(g, At(g, t)) \subseteq Anc(g, Last(g, t))

\* A task has a step from the start.
LEMMA LastExists ==
    ASSUME NEW g, WellFormed(g), Shaped(g), NEW t \in Known(g), t # 0
    PROVE  LastFacts(g, t)
<1> DEFINE o == Own(g, t)
           T == {r \in StepsOf(g) : g[r].taskId = t}
<1>1. o \in Nodes(g) /\ IsTask(g, o) /\ g[o].taskId = t /\ OwnNode(g, o, t)
  BY OwnExists DEF OwnNode
<1>2. o # 1
  BY <1>1 DEF Shaped
<1>3. \A n \in Nodes(g) : n \in Nat /\ n <= Len(g)
  BY TreeNodes DEF Nodes
<1>4. T # {}
  <2> DEFINE c == g[o].cur_step
  <2>1. c # 0
    BY <1>1, <1>2 DEF Shaped, IsTask
  <2>2. c \in 2..Len(g) /\ g[c].parent = o /\ g[c].type = "STEP"
    BY <1>1, <2>1 DEF WellFormed, StepsCurrent, Nodes
  <2>3. c \in Nodes(g) /\ c # 1
    BY <1>3, <2>2, TreeNodes DEF Nodes
  <2>4. Placed(g, c)
    BY <2>3 DEF Shaped
  <2>5. g[c].taskId = t
    BY <1>1, <2>2, <2>4 DEF Placed
  <2> QED
    BY <2>2, <2>3, <2>5 DEF StepsOf, Nodes
<1>5. T \in SUBSET Nat /\ Len(g) \in Nat /\ \A n \in T : n <= Len(g)
  BY <1>3, TreeNodes DEF StepsOf, Nodes
<1> HIDE DEF T
<1>6. PICK s \in T : \A n \in T : n <= s
  BY <1>4, <1>5, NatMax
<1>7. IsLast(g, t, s)
  BY <1>6 DEF IsLast, T
<1>8. Last(g, t) = s
  BY <1>7, LastIs
<1> DEFINE a == g[s].parent
<1>9. /\ s \in StepsOf(g) /\ s \in Nodes(g) /\ g[s].type = "STEP" /\ g[s].taskId = t
  BY DEF T, StepsOf, Nodes
<1>10. s # 1
  BY <1>9 DEF Shaped
<1>11. a \in Nodes(g) /\ g[a].type # "STEP" /\ Placed(g, s)
  BY <1>9, <1>10, TreeNodes DEF Shaped
<1>12. g[a].taskId = t
  BY <1>9, <1>11 DEF Placed
<1>13. TaskPlace(g, a, o)
  BY <1>11, <1>12, NodePlace
<1>14. /\ o \in Anc(g, a)
       /\ a = o \/ (IsPhase(g, a) /\ g[a].parent = o /\ a # 1)
  BY <1>11, <1>13 DEF TaskPlace, IsPhase
<1>15. Anc(g, s) = {s} \cup Anc(g, a) /\ a \in Anc(g, a)
  BY <1>9, <1>10, <1>11, AncSplit, AncBasics
<1>16. /\ \A x \in Anc(g, a) : x = a \/ x \in Anc(g, o)
       /\ Anc(g, o) \subseteq Anc(g, a)
  <2>1. CASE a = o
    BY <2>1
  <2>2. CASE a # 1 /\ g[a].parent = o
    <3>1. Anc(g, a) = {a} \cup Anc(g, o)
      BY <1>11, <2>2, AncSplit
    <3> QED
      BY <3>1
  <2> QED
    BY <1>14, <2>1, <2>2
<1>17. At(g, t) = a
  BY <1>8 DEF At
<1> HIDE DEF a, o
<1> QED
  BY <1>1, <1>2, <1>7, <1>8, <1>9, <1>10, <1>11, <1>12, <1>14, <1>15, <1>16, <1>17, Zenon
  DEF LastFacts, o

-----------------------------------------------------------------------------
(* How the steps of tasks are related *)

\* Below the node of a task nothing runs beside what follows it.
LEMMA NoAsyncBelowTask ==
    ASSUME NEW g, WellFormed(g), Shaped(g), NEW n \in Nodes(g), n # 1,
           IsTask(g, g[n].parent)
    PROVE  g[n].type # "ASYNC"
BY DEF Shaped, Placed, IsTask, IsPhase

\* Below a phase are steps and spawned tasks.
LEMMA ChildOfPhase ==
    ASSUME NEW g, WellFormed(g), Shaped(g), NEW n \in Nodes(g), n # 1,
           IsPhase(g, g[n].parent)
    PROVE  /\ g[n].type \in {"ASYNC", "STEP"} /\ n <= g[g[n].parent].cur_step
           /\ g[n].type = "ASYNC" => IsTask(g, n)
BY DEF Shaped, Placed, IsTask, IsPhase

\* Steps that part below the node of a task are serial.
LEMMA PartedAtTask ==
    ASSUME NEW g, WellFormed(g), Shaped(g), NEW a \in StepsOf(g), NEW b \in StepsOf(g),
           NEW n, n \in Anc(g, a), n \in Anc(g, b), IsTask(g, n),
           Branch(g, n, a) # Branch(g, n, b)
    PROVE  ~Par(g, a, b)
<1> DEFINE x == Branch(g, n, a)
           y == Branch(g, n, b)
<1>1. n \in Common(g, a, b) /\ a \in Nodes(g) /\ b \in Nodes(g)
  BY DEF Common, StepsOf, Nodes
<1>2. a # n /\ b # n
  BY DEF IsTask, StepsOf
<1>3. /\ x \in Nodes(g) /\ x # 1 /\ g[x].parent = n
      /\ y \in Nodes(g) /\ y # 1 /\ g[y].parent = n
  BY <1>1, <1>2, BranchFacts
<1>4. Par(g, a, b) <=> g[IF x < y THEN x ELSE y].type = "ASYNC"
  BY <1>1, BranchesRelate
<1> HIDE DEF x, y
<1>5. g[x].type # "ASYNC" /\ g[y].type # "ASYNC"
  BY <1>3, NoAsyncBelowTask
<1> QED
  BY <1>4, <1>5

\* A step right below the node of a task is serial with all that is below it.
LEMMA TaskStepSerial ==
    ASSUME NEW g, WellFormed(g), Shaped(g), NEW a \in StepsOf(g), NEW b \in StepsOf(g),
           a # 1, IsTask(g, g[a].parent), g[a].parent \in Anc(g, b)
    PROVE  ~Par(g, a, b) /\ ~Par(g, b, a)
<1> DEFINE n == g[a].parent
<1>1. CASE a = b
  BY <1>1 DEF Par
<1>2. CASE a # b
  <2>1. a \in Nodes(g) /\ b \in Nodes(g) /\ a \in Anc(g, a) /\ n \in Anc(g, a)
    BY AncBasics, TreeNodes DEF StepsOf, Nodes, UpClosed
  <2>2. Branch(g, n, a) = a
    BY <2>1, BranchIs
  <2>3. b # n
    BY DEF IsTask, StepsOf
  <2>4. Branch(g, n, b) \in Anc(g, b) /\ Branch(g, n, b) \in Nodes(g)
    BY <2>1, <2>3, BranchFacts
  <2>5. ~(a \in Anc(g, b))
    BY <1>2, <2>1, StepsAreLeaves
  <2>6. Branch(g, n, a) # Branch(g, n, b)
    BY <2>2, <2>4, <2>5
  <2>7. ~Par(g, a, b)
    BY <2>1, <2>6, PartedAtTask
  <2> QED
    BY <2>7, ParSymmetric
<1> QED
  BY <1>1, <1>2

\* Steps of a phase are serial.
LEMMA PhaseStepsSerial ==
    ASSUME NEW g, WellFormed(g), Shaped(g), NEW a \in StepsOf(g), NEW b \in StepsOf(g),
           a # 1, b # 1, a # b, g[a].parent = g[b].parent
    PROVE  ~Par(g, a, b)
<1> DEFINE n == g[a].parent
<1>1. /\ a \in Nodes(g) /\ b \in Nodes(g) /\ a \in Anc(g, a) /\ b \in Anc(g, b)
      /\ n \in Anc(g, a) /\ n \in Anc(g, b)
  BY AncBasics, TreeNodes DEF StepsOf, Nodes, UpClosed
<1>2. Branch(g, n, a) = a /\ Branch(g, n, b) = b
  BY <1>1, BranchIs
<1>3. n \in Common(g, a, b)
  BY <1>1 DEF Common
<1>4. Par(g, a, b) <=> g[IF a < b THEN a ELSE b].type = "ASYNC"
  BY <1>2, <1>3, BranchesRelate
<1> QED
  BY <1>4 DEF StepsOf

\* areParallel may answer for two steps of a task without looking at the tree.
LEMMA ShapedTaskSteps ==
    ASSUME NEW g, WellFormed(g), Shaped(g)
    PROVE  TaskStepsSerial(g)
<1> SUFFICES ASSUME NEW a \in StepsOf(g), NEW b \in StepsOf(g), a # b,
                    g[a].taskId = g[b].taskId
             PROVE  ~Par(g, a, b)
  BY DEF TaskStepsSerial, Par
<1> DEFINE o == Own(g, g[a].taskId)
           p == g[a].parent
           q == g[b].parent
<1>1. /\ a \in Nodes(g) /\ b \in Nodes(g) /\ g[a].type = "STEP" /\ g[b].type = "STEP"
      /\ a # 1 /\ b # 1
  BY DEF StepsOf, Nodes, Shaped
<1>2. TaskPlace(g, a, o) /\ TaskPlace(g, b, o)
  BY <1>1, NodePlace
<1>3. IsTask(g, o) /\ o \in Nodes(g) /\ o \in Anc(g, a) /\ o \in Anc(g, b) /\ a # o /\ b # o
  BY <1>1, <1>2 DEF TaskPlace, OwnNode, IsTask
<1>4. /\ p = o \/ (IsPhase(g, p) /\ g[p].parent = o)
      /\ q = o \/ (IsPhase(g, q) /\ g[q].parent = o)
  BY <1>1, <1>3, <1>2 DEF TaskPlace, IsPhase
<1>5. CASE p = o
  BY <1>1, <1>3, <1>5, TaskStepSerial
<1>6. CASE q = o
  <2>1. ~Par(g, b, a) /\ ~Par(g, a, b)
    BY <1>1, <1>3, <1>6, TaskStepSerial
  <2> QED
    BY <2>1
<1>7. CASE p = q
  BY <1>1, <1>7, PhaseStepsSerial
<1>8. CASE p # q /\ p # o /\ q # o
  <2>1. p # 1 /\ q # 1 /\ g[p].parent = o /\ g[q].parent = o
    BY <1>4, <1>8 DEF IsPhase
  <2>2. p \in Anc(g, a) /\ q \in Anc(g, b)
    BY <1>1, AncBasics DEF UpClosed
  <2>3. Branch(g, o, a) = p /\ Branch(g, o, b) = q
    BY <1>1, <2>1, <2>2, BranchIs
  <2> HIDE DEF o
  <2> QED
    BY <1>3, <1>8, <2>3, PartedAtTask
<1> QED
  BY <1>5, <1>6, <1>7, <1>8

\* Nothing is to the right of the way from n up to the root but what runs beside it.
RightOpen(g, n) ==
    \A x \in Anc(g, n) : x # 1 =>
       \/ g[x].type = "ASYNC"
       \/ \A y \in Nodes(g) : y # 1 /\ g[y].parent = g[x].parent => y <= x

\* The way from a last step up to the node it shares with the last step of a task
\* elsewhere: a branch that is open.
LEMMA BranchOpen ==
    ASSUME NEW g, WellFormed(g), NEW u, NEW v, LastFacts(g, u), LastFacts(g, v),
           ~(Own(g, u) \in Anc(g, Own(g, v))), ~(Own(g, v) \in Anc(g, Own(g, u))),
           NEW l \in Common(g, Last(g, u), Last(g, v))
    PROVE  Branch(g, l, Last(g, u)) \in Anc(g, At(g, u)) /\ l # Last(g, u)
<1> DEFINE a == Last(g, u)
           b == Last(g, v)
           x == Branch(g, l, a)
<1>1. l \in Anc(g, a) /\ l \in Anc(g, b) /\ a \in Nodes(g) /\ b \in Nodes(g)
  BY DEF Common, LastFacts
<1>2. ~(Own(g, u) \in Anc(g, b))
  <2>1. Own(g, u) \in Anc(g, b) =>
           Own(g, u) \in Anc(g, Own(g, v)) \/ Own(g, v) \in Anc(g, Own(g, u))
    BY <1>1, AncChain DEF LastFacts
  <2> QED
    BY <2>1
<1>3. ~(Own(g, u) \in Anc(g, l))
  BY <1>1, <1>2, AncTransitive
<1>4. l # a /\ l # At(g, u)
  BY <1>3 DEF LastFacts
<1>5. x \in Anc(g, a) /\ x # 1 /\ g[x].parent = l
  BY <1>1, <1>4, BranchFacts
<1>6. g[a].parent = At(g, u)
  BY DEF At
<1>7. x # a
  BY <1>4, <1>5, <1>6
<1>8. Anc(g, a) = {a} \cup Anc(g, At(g, u))
  BY <1>1, <1>6, AncSplit DEF LastFacts
<1> QED
  BY <1>4, <1>5, <1>7, <1>8

\* Two tasks of which neither is below the other and that both may go on are parallel.
LEMMA ElsewhereParallel ==
    ASSUME NEW g, WellFormed(g), NEW u, NEW v, LastFacts(g, u), LastFacts(g, v),
           ~(Own(g, u) \in Anc(g, Own(g, v))), ~(Own(g, v) \in Anc(g, Own(g, u))),
           RightOpen(g, At(g, u)), RightOpen(g, At(g, v))
    PROVE  Par(g, Last(g, u), Last(g, v))
<1> DEFINE a == Last(g, u)
           b == Last(g, v)
           l == LCA(g, a, b)
           x == Branch(g, l, a)
           y == Branch(g, l, b)
<1>1. a \in StepsOf(g) /\ b \in StepsOf(g) /\ a \in Nodes(g) /\ b \in Nodes(g)
  BY DEF LastFacts
<1>2. a # b
  <2>1. Own(g, u) \in Anc(g, a) /\ Own(g, v) \in Anc(g, b)
    BY DEF LastFacts
  <2> QED
    BY <1>1, <2>1, AncChain
<1>3. l \in Anc(g, a) /\ l \in Anc(g, b) /\ x # y
  BY <1>1, <1>2, StepsPart
<1> HIDE DEF l
<1>4. l \in Common(g, a, b) /\ l \in Common(g, b, a)
  BY <1>3 DEF Common
<1>5. x \in Anc(g, At(g, u)) /\ y \in Anc(g, At(g, v)) /\ l # a /\ l # b
  BY <1>4, BranchOpen
<1>6. /\ x \in Nodes(g) /\ x # 1 /\ g[x].parent = l
      /\ y \in Nodes(g) /\ y # 1 /\ g[y].parent = l
  BY <1>1, <1>3, <1>5, BranchFacts
<1>7. /\ x \in Nat /\ y \in Nat
      /\ Par(g, a, b) <=> g[IF x < y THEN x ELSE y].type = "ASYNC"
  BY <1>1, <1>3, <1>4, BranchesRelate
<1> HIDE DEF x, y, a, b
<1>8. /\ g[x].type = "ASYNC" \/ y <= x
      /\ g[y].type = "ASYNC" \/ x <= y
  BY <1>5, <1>6 DEF RightOpen
<1>9. Par(g, a, b)
  BY <1>3, <1>7, <1>8
<1> QED
  BY <1>9 DEF a, b

\* A task in a phase is parallel to what it spawned there.
LEMMA PhaseParallel ==
    ASSUME NEW g, WellFormed(g), Shaped(g), NEW u, NEW v, LastFacts(g, u), LastFacts(g, v),
           IsPhase(g, At(g, u)), At(g, u) \in Anc(g, Own(g, v))
    PROVE  Par(g, Last(g, u), Last(g, v))
<1> DEFINE a == Last(g, u)
           b == Last(g, v)
           l == At(g, u)
           o == Own(g, v)
           y == Branch(g, l, o)
<1>1. a \in StepsOf(g) /\ b \in StepsOf(g) /\ a \in Nodes(g) /\ b \in Nodes(g) /\ o \in Nodes(g)
      /\ a # 1 /\ g[a].parent = l /\ l \in Anc(g, a) /\ a \in Anc(g, a)
  BY AncBasics DEF LastFacts, At, OwnNode
<1>2. o # l /\ o \in Anc(g, b) /\ IsTask(g, o)
  BY DEF LastFacts, OwnNode, IsTask
<1>3. y \in Nodes(g) /\ y \in Anc(g, o) /\ y # 1 /\ g[y].parent = l
  BY <1>1, <1>2, BranchFacts
<1> HIDE DEF y
<1>4. y \in Anc(g, b) /\ l \in Anc(g, b)
  BY <1>1, <1>2, <1>3, AncTransitive
<1>5. Branch(g, l, b) = y /\ Branch(g, l, a) = a
  BY <1>1, <1>3, <1>4, BranchIs
<1>6. g[y].type \in {"ASYNC", "STEP"} /\ y <= g[l].cur_step
  BY <1>3, ChildOfPhase
<1>7. g[y].type # "STEP"
  <2>1. g[y].type = "STEP" => y = o
    BY <1>1, <1>3, StepsAreLeaves DEF StepsOf, Nodes
  <2> QED
    BY <1>2, <2>1 DEF IsTask
<1>8. g[l].cur_step <= a
  <2> DEFINE c == g[l].cur_step
  <2>1. l \in Nodes(g) /\ l # 1 /\ g[l].type # "STEP" /\ g[l].taskId = u
    BY DEF LastFacts, IsPhase
  <2>2. c # 0
    BY <2>1 DEF Shaped
  <2>3. c \in 2..Len(g) /\ g[c].parent = l /\ g[c].type = "STEP"
    BY <2>1, <2>2 DEF WellFormed, StepsCurrent, Nodes
  <2>4. c \in Nodes(g) /\ c # 1
    BY <2>3, TreeNodes DEF Nodes
  <2>5. g[c].taskId = u
    BY <2>1, <2>3, <2>4 DEF Shaped, Placed
  <2>6. IsLast(g, u, a) /\ c \in StepsOf(g)
    BY <2>3, <2>4 DEF LastFacts, StepsOf, Nodes
  <2> QED
    BY <2>5, <2>6 DEF IsLast
<1>9. l \in Common(g, a, b) /\ a # y
  BY <1>1, <1>4, <1>7 DEF Common, LastFacts
<1>10. Par(g, a, b) <=> g[IF a < y THEN a ELSE y].type = "ASYNC"
  BY <1>1, <1>5, <1>9, BranchesRelate
<1>11. a \in Nat /\ y \in Nat /\ g[l].cur_step \in Nat
  <2>1. a \in Nat /\ y \in Nat /\ l \in Nodes(g) /\ g \in Seq(AFTask)
    BY <1>1, <1>3, TreeNodes DEF LastFacts, WellFormed
  <2> HIDE DEF l
  <2>2. g[l] \in AFTask
    BY <2>1 DEF Nodes
  <2> QED
    BY <2>1, <2>2 DEF AFTask
<1>12. ~(a < y)
  BY <1>6, <1>8, <1>11
<1> QED
  BY <1>6, <1>7, <1>10, <1>12

-----------------------------------------------------------------------------
(* Trees that grow at one node *)

\* h is g with more nodes, all of them below node p.
Grafted(g, h, p) ==
    /\ Extends(h, g) /\ p \in Nodes(g) /\ g[p].type # "STEP"
    /\ \A n \in Nodes(g) : (IsTask(h, n) <=> IsTask(g, n)) /\ (IsPhase(h, n) <=> IsPhase(g, n))
    /\ \A n \in Nodes(h) : n \notin Nodes(g) => h[n].parent = p \/ h[n].parent \notin Nodes(g)

\* What was there before the growth is there after it, and related as before.
LEMMA GraftedKeeps ==
    ASSUME NEW g, NEW h, WellFormed(g), WellFormed(h), NEW p, Grafted(g, h, p)
    PROVE  /\ Nodes(g) \subseteq Nodes(h) /\ p \in Nodes(h) /\ h[p].type # "STEP"
           /\ \A n \in Nodes(g) :
                 /\ n \in Nat /\ h[n].type = g[n].type /\ h[n].taskId = g[n].taskId
                 /\ h[n].parent = g[n].parent /\ Anc(h, n) = Anc(g, n)
                 /\ Anc(g, n) \subseteq Nodes(g)
                 /\ \A l : Branch(h, l, n) = Branch(g, l, n)
           /\ \A n \in Nodes(h) : n \notin Nodes(g) =>
                 n \in Nat /\ n # 1 /\ \A m \in Nodes(g) : m < n
           /\ StepsOf(g) \subseteq StepsOf(h)
           /\ \A a \in StepsOf(g), b \in StepsOf(g) : Par(h, a, b) <=> Par(g, a, b)
<1>1. /\ Nodes(g) \subseteq Nodes(h)
      /\ \A n \in Nodes(g) : /\ h[n].type = g[n].type /\ h[n].taskId = g[n].taskId
                             /\ h[n].parent = g[n].parent
  BY TreeNodes DEF Grafted, Extends, Nodes
<1>2. \A n \in Nodes(g) : Anc(h, n) = Anc(g, n) /\ \A l : Branch(h, l, n) = Branch(g, l, n)
  BY GrowthKeepsAnc DEF Grafted
<1>3. \A n \in Nodes(h) : n \notin Nodes(g) =>
         n \in Nat /\ n # 1 /\ \A m \in Nodes(g) : m < n
  BY TreeNodes DEF Nodes
<1>4. StepsOf(g) \subseteq StepsOf(h)
  BY <1>1 DEF StepsOf, Nodes
<1>5. \A a \in StepsOf(g), b \in StepsOf(g) : Par(h, a, b) <=> Par(g, a, b)
  BY GrowthKeepsQueries DEF Grafted, Par
<1>6. \A n \in Nodes(g) : n \in Nat /\ Anc(g, n) \subseteq Nodes(g)
  BY TreeNodes, AncBasics
<1>7. p \in Nodes(h) /\ h[p].type # "STEP"
  BY <1>1 DEF Grafted
<1> QED
  BY <1>1, <1>2, <1>3, <1>4, <1>5, <1>6, <1>7

\* Above a new node are new ones, p, and what is above p.
LEMMA GraftedAnc ==
    ASSUME NEW g, NEW h, WellFormed(g), WellFormed(h), NEW p, Grafted(g, h, p),
           NEW n \in Nodes(h), n \notin Nodes(g)
    PROVE  /\ p \in Anc(h, n) /\ Anc(g, p) \subseteq Anc(h, n)
           /\ \A x \in Anc(h, n) : x \in Nodes(g) => x \in Anc(g, p)
<1>1. Nodes(g) \subseteq Nodes(h) /\ p \in Nodes(h) /\ p \in Nodes(g) /\ Anc(h, p) = Anc(g, p)
      /\ Anc(g, p) \subseteq Nodes(g) /\ p \in Anc(g, p) /\ UpClosed(h, Anc(g, p))
  BY GraftedKeeps, AncBasics DEF Grafted
<1>2. \A x \in Anc(h, n) : x \in Nodes(g) => x \in Anc(g, p)
  <2> DEFINE S == {x \in Nodes(h) : x \notin Nodes(g)} \cup Anc(g, p)
  <2>1. S \in SUBSET Nodes(h) /\ n \in S
    BY <1>1
  <2>2. UpClosed(h, S)
    <3> SUFFICES ASSUME NEW x \in S, x # 1
                 PROVE  h[x].parent \in S
      BY DEF UpClosed
    <3>1. CASE x \in Anc(g, p)
      BY <1>1, <3>1 DEF UpClosed
    <3>2. CASE x \in Nodes(h) /\ x \notin Nodes(g)
      <4>1. h[x].parent \in Nodes(h)
        BY <3>2, Parents
      <4>2. h[x].parent = p \/ h[x].parent \notin Nodes(g)
        BY <3>2 DEF Grafted
      <4> QED
        BY <1>1, <4>1, <4>2
    <3> QED
      BY <3>1, <3>2
  <2>3. Anc(h, n) \subseteq S
    BY <2>1, <2>2, AncLeast
  <2> QED
    BY <2>3
<1>3. p \in Anc(h, n)
  <2> DEFINE T == {x \in Anc(h, n) : x \notin Nodes(g)}
  <2>1. T \in SUBSET Nat /\ n \in T /\ Anc(h, n) \subseteq Nodes(h)
    BY AncBasics, TreeNodes
  <2>2. PICK m \in T : \A x \in T : m <= x
    BY <2>1, NatMin
  <2>3. m \in Nodes(h) /\ m # 1 /\ m \in Nat
    BY <2>1, GraftedKeeps
  <2>4. h[m].parent < m /\ h[m].parent \in Nat /\ h[m].parent \in Anc(h, n)
    BY <2>1, <2>3, Parents, AncBasics DEF UpClosed
  <2>5. h[m].parent \notin T
    BY <2>2, <2>3, <2>4
  <2>6. h[m].parent \in Nodes(g)
    BY <2>4, <2>5
  <2>7. h[m].parent = p
    BY <2>3, <2>6 DEF Grafted
  <2> QED
    BY <2>4, <2>7
<1>4. Anc(g, p) \subseteq Anc(h, n)
  BY <1>1, <1>3, AncTransitive
<1> QED
  BY <1>2, <1>3, <1>4

\* The branch of p towards a new node is a new node.
LEMMA GraftedBranch ==
    ASSUME NEW g, NEW h, WellFormed(g), WellFormed(h), NEW p, Grafted(g, h, p),
           NEW n \in Nodes(h), n \notin Nodes(g)
    PROVE  /\ Branch(h, p, n) \in Nodes(h) /\ Branch(h, p, n) \notin Nodes(g)
           /\ Branch(h, p, n) \in Anc(h, n)
           /\ Branch(h, p, n) # 1 /\ h[Branch(h, p, n)].parent = p
<1>1. p \in Anc(h, n) /\ p # n
  BY GraftedAnc DEF Grafted
<1> DEFINE y == Branch(h, p, n)
<1>2. y \in Nodes(h) /\ y \in Anc(h, n) /\ y # 1 /\ h[y].parent = p
  BY <1>1, BranchFacts
<1> HIDE DEF y
<1>3. y \notin Nodes(g)
  <2>1. h[y].parent < y /\ y \in Nat /\ p \in Nat
    BY <1>2, Parents
  <2>2. y \in Anc(g, p) => y <= p
    BY AncOrder DEF Grafted
  <2>3. y \notin Anc(g, p)
    BY <1>2, <2>1, <2>2
  <2> QED
    BY <1>2, <2>3, GraftedAnc
<1> QED
  BY <1>2, <1>3 DEF y

\* Other places stay open unless they are below a child of p that is no ASYNC.
LEMMA GraftOpen ==
    ASSUME NEW g, NEW h, WellFormed(g), WellFormed(h), NEW p, Grafted(g, h, p),
           NEW m \in Nodes(g), RightOpen(g, m),
           \A x \in Anc(g, m) : x # 1 /\ g[x].parent = p => g[x].type = "ASYNC"
    PROVE  RightOpen(h, m)
<1> SUFFICES ASSUME NEW x \in Anc(h, m), x # 1, h[x].type # "ASYNC",
                    NEW y \in Nodes(h), y # 1, h[y].parent = h[x].parent
             PROVE  y <= x
  BY DEF RightOpen
<1>1. x \in Anc(g, m) /\ x \in Nodes(g) /\ h[x].parent = g[x].parent /\ h[x].type = g[x].type
  BY GraftedKeeps
<1>2. g[x].parent # p /\ g[x].parent \in Nodes(g)
  BY <1>1, Parents
<1>3. y \in Nodes(g)
  BY <1>1, <1>2 DEF Grafted
<1>4. h[y].parent = g[y].parent
  BY <1>3, GraftedKeeps
<1> QED
  BY <1>1, <1>3, <1>4 DEF RightOpen

\* Below the node of a task, what is new is serial to what was there.
LEMMA NewBelowTask ==
    ASSUME NEW g, NEW h, WellFormed(g), WellFormed(h), Shaped(h), NEW p, Grafted(g, h, p),
           IsTask(g, p), NEW s \in StepsOf(h), s \notin Nodes(g),
           NEW q \in StepsOf(g), p \in Anc(g, q)
    PROVE  ~Par(h, s, q)
<1>1. s \in Nodes(h) /\ q \in Nodes(g) /\ q # p /\ q \in StepsOf(h)
  BY GraftedKeeps DEF StepsOf, Nodes, IsTask
<1>2. Branch(h, p, s) \notin Nodes(g) /\ p \in Anc(h, s)
  BY <1>1, GraftedBranch, GraftedAnc
<1>3. Branch(h, p, q) \in Nodes(g) /\ p \in Anc(h, q)
  <2>1. Branch(h, p, q) = Branch(g, p, q) /\ Anc(h, q) = Anc(g, q)
    BY <1>1, GraftedKeeps
  <2>2. Branch(g, p, q) \in Nodes(g)
    BY <1>1, BranchFacts
  <2> QED
    BY <2>1, <2>2
<1>4. IsTask(h, p)
  BY DEF Grafted
<1> QED
  BY <1>1, <1>2, <1>3, <1>4, PartedAtTask

\* A new step below p is to the old ones as the last step right below p was.
LEMMA NewAlike ==
    ASSUME NEW g, NEW h, WellFormed(g), WellFormed(h), Shaped(g), Shaped(h), NEW p,
           Grafted(g, h, p),
           NEW s0 \in StepsOf(g), s0 # 1, g[s0].parent = p,
           IsPhase(g, p) => \A y \in Nodes(g) : y # 1 /\ g[y].parent = p => y <= s0,
           NEW s \in StepsOf(h), s \notin Nodes(g), NEW q \in StepsOf(g)
    PROVE  Par(h, s, q) <=> Par(g, s0, q)
<1>1. /\ s \in Nodes(h) /\ q \in Nodes(g) /\ s0 \in Nodes(g) /\ q # p /\ p \in Nodes(g)
      /\ q \in StepsOf(h) /\ s0 \in StepsOf(h)
  BY GraftedKeeps DEF StepsOf, Nodes, Grafted
<1>2. p \in Anc(h, s) /\ p \in Anc(g, s0) /\ s0 \in Anc(g, s0)
  BY <1>1, GraftedAnc, AncBasics DEF UpClosed
<1>3. Anc(h, s0) = Anc(g, s0) /\ Anc(h, q) = Anc(g, q) /\ (Par(h, s0, q) <=> Par(g, s0, q))
  BY <1>1, GraftedKeeps
<1>4. CASE p \notin Anc(g, q)
  <2>1. p \in Common(h, s0, s) /\ p \notin Anc(h, q)
    BY <1>2, <1>3, <1>4 DEF Common
  <2>2. Par(h, s0, q) <=> Par(h, s, q)
    BY <1>1, <2>1, OutsideAlike
  <2> QED
    BY <1>3, <2>2
<1>5. CASE p \in Anc(g, q) /\ IsTask(g, p)
  <2>1. ~Par(h, s, q)
    BY <1>5, NewBelowTask
  <2>2. ~Par(g, s0, q)
    BY <1>5, TaskStepSerial
  <2> QED
    BY <2>1, <2>2
<1>6. CASE p \in Anc(g, q) /\ ~IsTask(g, p)
  <2>1. IsPhase(g, p)
    BY <1>6 DEF Grafted, IsTask
  <2> DEFINE y == Branch(h, p, s)
             z == Branch(h, p, q)
  <2>2. y \in Nodes(h) /\ y \notin Nodes(g)
    BY <1>1, GraftedBranch
  <2>3. z = Branch(g, p, q)
    BY <1>1, GraftedKeeps
  <2>4. z \in Nodes(g) /\ z \in Anc(g, q) /\ z # 1 /\ g[z].parent = p
    BY <1>1, <1>6, <2>3, BranchFacts
  <2>5. p \in Common(h, s, q)
    BY <1>2, <1>3, <1>6 DEF Common
  <2> HIDE DEF y, z
  <2>6. z < y /\ z \in Nat /\ y \in Nat /\ z # y /\ h[z].type = g[z].type
    BY <2>2, <2>4, GraftedKeeps
  <2>7. Par(h, s, q) <=> h[IF y < z THEN y ELSE z].type = "ASYNC"
    BY <1>1, <2>5, <2>6, BranchesRelate DEF y, z
  <2>8. Par(h, s, q) <=> g[z].type = "ASYNC"
    BY <2>6, <2>7
  <2>9. CASE q = s0
    <3>1. z = s0
      BY <1>1, <1>2, <2>3, <2>9, BranchIs
    <3>2. g[z].type # "ASYNC" /\ ~Par(g, s0, q)
      BY <2>9, <3>1 DEF StepsOf, Par
    <3> QED
      BY <2>8, <3>2
  <2>10. CASE q # s0
    <3>1. Branch(g, p, s0) = s0
      BY <1>1, <1>2, BranchIs
    <3>2. ~(s0 \in Anc(g, q))
      BY <1>1, <2>10, StepsAreLeaves
    <3>3. z # s0 /\ z <= s0 /\ s0 \in Nat
      BY <1>1, <2>1, <2>4, <3>2, TreeNodes
    <3>4. p \in Common(g, s0, q)
      BY <1>2, <1>6 DEF Common
    <3>5. Par(g, s0, q) <=> g[IF s0 < z THEN s0 ELSE z].type = "ASYNC"
      BY <2>3, <3>1, <3>3, <3>4, BranchesRelate
    <3>6. ~(s0 < z)
      BY <2>6, <3>3
    <3> QED
      BY <2>8, <3>5, <3>6
  <2> QED
    BY <2>9, <2>10
<1> QED
  BY <1>4, <1>5, <1>6

-----------------------------------------------------------------------------
(* Tasks of a tree that grows *)

\* The tasks that were there keep their nodes, and which of them is above which.
LEMMA GraftedOwn ==
    ASSUME NEW g, NEW h, WellFormed(g), WellFormed(h), Shaped(g), Shaped(h),
           NEW p, Grafted(g, h, p)
    PROVE  /\ \A t \in Known(g) : t \in Known(h) /\ Own(h, t) = Own(g, t)
                                  /\ OwnNode(h, Own(g, t), t) /\ Own(g, t) \in Nodes(g)
                                  /\ Anc(h, Own(g, t)) = Anc(g, Own(g, t))
           /\ \A t, u \in Known(g) : Above(h, t, u) <=> Above(g, t, u)
<1>1. ASSUME NEW t \in Known(g)
      PROVE  /\ t \in Known(h) /\ Own(h, t) = Own(g, t)
             /\ OwnNode(h, Own(g, t), t) /\ Own(g, t) \in Nodes(g)
             /\ Anc(h, Own(g, t)) = Anc(g, Own(g, t))
  <2> DEFINE o == Own(g, t)
  <2>1. o \in Nodes(g) /\ IsTask(g, o) /\ g[o].taskId = t
    BY OwnExists DEF OwnNode
  <2> HIDE DEF o
  <2>2. o \in Nodes(h) /\ IsTask(h, o) /\ h[o].taskId = t /\ Anc(h, o) = Anc(g, o)
    BY <2>1, GraftedKeeps DEF Grafted
  <2>3. OwnNode(h, o, t) /\ t \in Known(h)
    BY <2>2 DEF OwnNode, Known
  <2>4. Own(h, t) = o
    BY <2>3, OwnIs
  <2> QED
    BY <2>1, <2>2, <2>3, <2>4 DEF o
<1>2. \A t, u \in Known(g) : Above(h, t, u) <=> Above(g, t, u)
  BY <1>1 DEF Above
<1> QED
  BY <1>1, <1>2

\* A task that gained no step is where it was.
LEMMA GraftedLast ==
    ASSUME NEW g, NEW h, WellFormed(g), WellFormed(h), Shaped(g), Shaped(h),
           NEW p, Grafted(g, h, p), NEW t \in Known(g), t # 0, GrowsBeside(g, h, t)
    PROVE  Last(h, t) = Last(g, t) /\ At(h, t) = At(g, t)
<1>1. LastFacts(g, t)
  BY LastExists
<1>2. IsLast(h, t, Last(g, t))
  BY <1>1, LastStays DEF LastFacts
<1>3. Last(h, t) = Last(g, t)
  BY <1>2, LastIs
<1>4. h[Last(g, t)].parent = g[Last(g, t)].parent
  BY <1>1, GraftedKeeps DEF LastFacts
<1> QED
  BY <1>3, <1>4 DEF At

\* A task is above a node of another one just when it is above that task.
LEMMA AboveSpot ==
    ASSUME NEW g, WellFormed(g), Shaped(g), NEW n \in Nodes(g), NEW u \in Known(g)
    PROVE  Own(g, u) \in Anc(g, n) <=> u = g[n].taskId \/ Above(g, u, g[n].taskId)
<1> DEFINE t == g[n].taskId
           o == Own(g, t)
           w == Own(g, u)
           p == g[n].parent
<1>1. TaskPlace(g, n, o)
  BY NodePlace
<1>2. IsTask(g, w) /\ OwnNode(g, w, u) /\ w \in Nodes(g)
  BY OwnExists
<1>3. o \in Anc(g, n) /\ o \in Nodes(g)
  BY <1>1 DEF TaskPlace, OwnNode
<1>4. u = t => w \in Anc(g, n)
  BY <1>3
<1>5. Anc(g, o) \subseteq Anc(g, n)
  BY <1>3, AncTransitive
<1>6. ASSUME w \in Anc(g, n)
      PROVE  w \in Anc(g, o)
  <2>1. CASE n = o
    BY <1>6, <2>1
  <2>2. CASE n # o
    <3>1. ~IsTask(g, n)
      BY <1>1, <2>2 DEF TaskPlace, IsTask
    <3>2. n # 1
      BY <3>1 DEF IsTask, IsPhase, Shaped
    <3>3. p \in Nodes(g) /\ w # n /\ Anc(g, n) = {n} \cup Anc(g, p)
      BY <1>2, <3>1, <3>2, AncSplit, Parents
    <3>4. w \in Anc(g, p)
      BY <1>6, <3>3
    <3>5. CASE p = o
      BY <3>4, <3>5
    <3>6. CASE p # o
      <4>1. IsPhase(g, p) /\ g[p].parent = o /\ p # 1
        BY <1>1, <2>2, <3>6 DEF TaskPlace, IsPhase
      <4>2. w # p /\ Anc(g, p) = {p} \cup Anc(g, o)
        BY <1>2, <3>3, <4>1, AncSplit DEF IsTask
      <4> QED
        BY <3>4, <4>2
    <3> QED
      BY <3>5, <3>6
  <2> QED
    BY <2>1, <2>2
<1> HIDE DEF o, w
<1>7. Above(g, u, t) <=> u # t /\ w \in Anc(g, o)
  BY DEF Above, o, w
<1>8. u = t \/ u # t
  OBVIOUS
<1> HIDE DEF t
<1>9. w \in Anc(g, n) <=> u = t \/ Above(g, u, t)
  BY <1>4, <1>5, <1>6, <1>7
<1> QED
  BY <1>9 DEF w, t

\* To be above is a strict order, linear above any one task, with task 0 below none.
LEMMA AboveIsOrder ==
    ASSUME NEW g, WellFormed(g), Shaped(g)
    PROVE  /\ \A t, u, v \in Known(g) : Above(g, t, u) /\ Above(g, u, v) => Above(g, t, v)
           /\ \A t, u \in Known(g) : Above(g, t, u) => ~Above(g, u, t)
           /\ \A t \in Known(g) : ~Above(g, t, t) /\ ~Above(g, t, 0)
           /\ \A t, u, v \in Known(g) : Above(g, t, v) /\ Above(g, u, v) =>
                 t = u \/ Above(g, t, u) \/ Above(g, u, t)
<1>1. ASSUME NEW t \in Known(g)
      PROVE  OwnNode(g, Own(g, t), t) /\ Own(g, t) \in Nodes(g)
  BY OwnExists
<1>2. \A t, u \in Known(g) : Own(g, t) = Own(g, u) => t = u
  BY <1>1 DEF OwnNode
<1>3. ASSUME NEW t \in Known(g), NEW u \in Known(g), Above(g, t, u), Above(g, u, t)
      PROVE  FALSE
  <2>1. /\ Own(g, t) \in Anc(g, Own(g, u)) /\ Own(g, u) \in Anc(g, Own(g, t))
        /\ t # u /\ Own(g, t) \in Nodes(g) /\ Own(g, u) \in Nodes(g)
    BY <1>1, <1>3 DEF Above
  <2>2. Own(g, t) <= Own(g, u) /\ Own(g, u) <= Own(g, t)
        /\ Own(g, t) \in Nat /\ Own(g, u) \in Nat
    BY <2>1, AncOrder
  <2>3. Own(g, t) = Own(g, u)
    BY <2>2
  <2> QED
    BY <1>2, <2>1, <2>3
<1>4. ASSUME NEW t \in Known(g), NEW u \in Known(g), NEW v \in Known(g),
             Above(g, t, u), Above(g, u, v)
      PROVE  Above(g, t, v)
  <2>1. t # v
    BY <1>3, <1>4
  <2>2. Own(g, t) \in Anc(g, Own(g, v))
    BY <1>1, <1>4, AncTransitive DEF Above
  <2> QED
    BY <2>1, <2>2 DEF Above
<1>5. ASSUME NEW t \in Known(g)
      PROVE  ~Above(g, t, t) /\ ~Above(g, t, 0)
  <2>1. Own(g, 0) = 1 /\ Anc(g, 1) = {1} /\ 0 \in Known(g)
    BY OwnOfMain, AncSplit, TreeNodes
  <2> QED
    BY <1>2, <2>1 DEF Above
<1>6. ASSUME NEW t \in Known(g), NEW u \in Known(g), NEW v \in Known(g),
             Above(g, t, v), Above(g, u, v)
      PROVE  t = u \/ Above(g, t, u) \/ Above(g, u, t)
  BY <1>1, <1>6, AncChain DEF Above
<1> QED
  BY <1>3, <1>4, <1>5, <1>6

\* A new task is below those that are above p, and above none that was there.
LEMMA GraftedTask ==
    ASSUME NEW g, NEW h, WellFormed(g), WellFormed(h), Shaped(g), Shaped(h),
           NEW p, Grafted(g, h, p), NEW c \in Known(h), c \notin Known(g)
    PROVE  /\ Own(h, c) \in Nodes(h) /\ Own(h, c) \notin Nodes(g)
           /\ \A t \in Known(g) :
                 /\ Above(h, t, c) <=> t = g[p].taskId \/ Above(g, t, g[p].taskId)
                 /\ ~Above(h, c, t)
           /\ \A n \in Nodes(g) : Own(h, c) \notin Anc(h, n)
           /\ \A n \in Nodes(g) : n \in Anc(h, Own(h, c)) <=> n \in Anc(g, p)
<1> DEFINE o == Own(h, c)
<1>1. o \in Nodes(h) /\ h[o].taskId = c
  BY OwnExists DEF OwnNode
<1>2. \A n \in Nodes(g) : g[n].taskId = h[n].taskId /\ g[n].taskId \in Known(g)
                          /\ Anc(h, n) = Anc(g, n) /\ Anc(g, n) \subseteq Nodes(g)
  BY GraftedKeeps DEF Known
<1>3. o \notin Nodes(g)
  BY <1>1, <1>2
<1> HIDE DEF o
<1>4. \A n \in Nodes(g) : n \in Anc(h, o) <=> n \in Anc(g, p)
  BY <1>1, <1>3, GraftedAnc
<1>5. \A n \in Nodes(g) : o \notin Anc(h, n)
  BY <1>2, <1>3
<1>6. ASSUME NEW t \in Known(g)
      PROVE  /\ Above(h, t, c) <=> t = g[p].taskId \/ Above(g, t, g[p].taskId)
             /\ ~Above(h, c, t)
  <2>1. Own(h, t) = Own(g, t) /\ Own(g, t) \in Nodes(g) /\ t # c
    BY GraftedOwn
  <2>2. Own(g, t) \in Anc(g, p) <=> t = g[p].taskId \/ Above(g, t, g[p].taskId)
    BY AboveSpot DEF Grafted
  <2> DEFINE tt == g[p].taskId
             w == Own(g, t)
  <2>3. Above(h, t, c) <=> w \in Anc(h, o)
    BY <2>1 DEF Above, o
  <2>4. ~Above(h, c, t)
    BY <1>5, <2>1 DEF Above, o
  <2>5. w \in Anc(h, o) <=> w \in Anc(g, p)
    BY <1>4, <2>1
  <2> HIDE DEF w
  <2> QED
    BY <2>2, <2>3, <2>4, <2>5 DEF w
<1> QED
  BY <1>1, <1>3, <1>4, <1>5, <1>6 DEF o

\* A grown tree that is the old one.
LEMMA GraftNothing ==
    ASSUME NEW g, WellFormed(g), NEW p \in Nodes(g), g[p].type # "STEP"
    PROVE  Grafted(g, g, p)
BY TreeNodes DEF Grafted, Extends

-----------------------------------------------------------------------------
(* The ways a Capture call grows the tree *)

SpawnedAt(g, h, p, id) ==
    LET t == g[p].taskId IN
    /\ WellFormed(h) /\ Shaped(h) /\ Grafted(g, h, p)
    /\ Known(h) = Known(g) \cup {id}
    /\ \A u : u # t /\ u # id => GrowsBeside(g, h, u)
    /\ IsPhase(h, At(h, t)) /\ At(h, t) \in Anc(h, Own(h, id))
    /\ IsPhase(g, p) => At(h, t) = p
    /\ LastFacts(h, t) /\ Last(h, t) \notin Nodes(g)
    /\ LastFacts(h, id) /\ Last(h, id) \notin Nodes(g) /\ At(h, id) = Own(h, id)
    /\ Par(h, Last(h, id), Last(h, t))
    /\ \A a \in StepsOf(h) : a \notin Nodes(g) => a = Last(h, t) \/ a = Last(h, id)
    /\ RightOpen(g, p) => RightOpen(h, At(h, t)) /\ RightOpen(h, At(h, id))

RootedAt(g, h, p, id) ==
    /\ WellFormed(h) /\ Shaped(h) /\ Grafted(g, h, p)
    /\ Known(h) = Known(g) \cup {id}
    /\ \A u : u # id => GrowsBeside(g, h, u)
    /\ LastFacts(h, id) /\ Last(h, id) \notin Nodes(g) /\ At(h, id) = Own(h, id)
    /\ \A a \in StepsOf(h) : a \notin Nodes(g) => a = Last(h, id)
    /\ RightOpen(g, p) => RightOpen(h, At(h, id))

SteppedAt(g, h, p) ==
    LET t == g[p].taskId IN
    /\ WellFormed(h) /\ Shaped(h) /\ Grafted(g, h, p)
    /\ Known(h) = Known(g)
    /\ \A u : u # t => GrowsBeside(g, h, u)
    /\ IsLast(h, t, Last(h, t)) /\ Last(h, t) \in StepsOf(h) /\ Last(h, t) \notin Nodes(g)
    /\ At(h, t) = p
    /\ \A a \in StepsOf(h) : a \notin Nodes(g) => a = Last(h, t)
    /\ RightOpen(g, p) => RightOpen(h, p)

\* The place of the growth is as open after it.
LEMMA SpotOpen ==
    ASSUME NEW g, NEW h, WellFormed(g), WellFormed(h), NEW p, Grafted(g, h, p),
           RightOpen(g, p)
    PROVE  RightOpen(h, p)
<1>1. p \in Nodes(g)
  BY DEF Grafted
<1>2. ASSUME NEW x \in Anc(g, p), x # 1
      PROVE  g[x].parent # p
  <2>1. x \in Nodes(g) /\ x <= p /\ p \in Nat /\ x \in Nat
    BY <1>1, AncBasics, AncOrder
  <2>2. g[x].parent < x /\ g[x].parent \in Nat
    BY <1>2, <2>1, Parents
  <2> QED
    BY <2>1, <2>2
<1> QED
  BY <1>1, <1>2, GraftOpen

\* A new child of an open place is open when it is an ASYNC or the last child there.
LEMMA ChildOpen ==
    ASSUME NEW h, WellFormed(h), NEW n \in Nodes(h), n # 1, RightOpen(h, h[n].parent),
           \/ h[n].type = "ASYNC"
           \/ \A y \in Nodes(h) : y # 1 /\ h[y].parent = h[n].parent => y <= n
    PROVE  RightOpen(h, n)
<1>1. Anc(h, n) = {n} \cup Anc(h, h[n].parent)
  BY AncSplit
<1> QED
  BY <1>1 DEF RightOpen

\* CaptureSpawn and CaptureSpawnAndWait grow the tree so.
LEMMA SpawnGrafts ==
    ASSUME NEW g, WellFormed(g), Shaped(g), NEW p \in Nodes(g), g[p].type # "STEP",
           g[p].taskId # 0, NEW id \in Nat, id \notin Known(g)
    PROVE  SpawnedAt(g, SpawnTree(g, p, id).tree, p, id)
<1> DEFINE s == SpawnTree(g, p, id)
           h == s.tree
           t == g[p].taskId
           k == Len(g)
<1>1. WellFormed(h) /\ Extends(h, g)
  <2>1. p \in 1..Len(g)
    BY DEF Nodes
  <2> QED
    BY <2>1, SpawnTreeWellFormed
<1>2. Shaped(h)
  BY SpawnShaped
<1>3. /\ \A u : u # t /\ u # id => GrowsBeside(g, h, u)
      /\ \A n \in Nodes(g) : n \in Nodes(h) /\ (IsTask(h, n) <=> IsTask(g, n))
                             /\ (IsPhase(h, n) <=> IsPhase(g, n))
      /\ Known(h) = Known(g) \cup {id}
      /\ OwnNode(h, s.node, id) /\ IsLast(h, id, h[s.node].cur_step)
      /\ s.phase \in Nodes(h) /\ IsLast(h, t, h[s.phase].cur_step)
      /\ IsPhase(h, s.phase) /\ h[s.phase].taskId = t
  <2>1. SpawnGrown(g, s, p, id)
    BY SpawnGrows
  <2> HIDE DEF s
  <2> QED
    BY <2>1 DEF SpawnGrown
<1>4. /\ IsPhase(g, p) => s.phase = p /\ s.node = k + 1 /\ SpawnedInto(g, h, p, id)
      /\ ~IsPhase(g, p) => s.phase = k + 1 /\ s.node = k + 2 /\ SpawnedBelow(g, h, p, id)
  BY SpawnShaped, SpawnFields
<1>5. k \in Nat /\ p \in Nat /\ p <= k /\ k # 0 /\ Nodes(g) = 1..k /\ k + 1 \notin Nodes(g)
      /\ k + 2 \notin Nodes(g) /\ k + 3 \notin Nodes(g) /\ k + 4 \notin Nodes(g)
  BY TreeNodes DEF Nodes
<1>6. t \in Known(g) /\ t # id /\ id # 0 /\ t \in Known(h) /\ id \in Known(h)
  <2>1. t \in Known(g) /\ 0 \in Known(g)
    BY OwnOfMain DEF Known
  <2> HIDE DEF t, s, h
  <2> QED
    BY <1>3, <2>1
<1> HIDE DEF s, h
<1> DEFINE node == s.node
           ph == s.phase
           a == h[node].cur_step
           b == h[ph].cur_step
<1>7. Last(h, t) = b /\ Last(h, id) = a /\ Own(h, id) = node
  <2>1. IsLast(h, t, b) /\ IsLast(h, id, a) /\ OwnNode(h, node, id)
    BY <1>3
  <2> HIDE DEF a, b, node, t
  <2> QED
    BY <1>1, <1>2, <2>1, LastIs, OwnIs
<1>8. /\ a \notin Nodes(g) /\ b \notin Nodes(g)
      /\ h[a].parent = node /\ h[b].parent = ph
      /\ h[node].parent = ph /\ h[node].type = "ASYNC" /\ node \notin Nodes(g)
      /\ node \in Nodes(h) /\ node # 1
      /\ IsPhase(g, p) => ph = p
      /\ ph = p \/ (/\ ph \notin Nodes(g) /\ h[ph].parent = p
                         /\ ph \in Nodes(h) /\ ph # 1
                         /\ \A y \in Nodes(h) : y # 1 /\ h[y].parent = p => y <= ph)
      /\ \A n \in Nodes(h) : n \notin Nodes(g) =>
            n = ph \/ n = node \/ n = a \/ n = b
  <2>1. CASE IsPhase(g, p)
    <3>1. /\ Len(h) = k + 3 /\ a = k + 2 /\ b = k + 3
          /\ NodeIs(h, k + 1, "ASYNC", id, p, FALSE, "NO_TYPE", k + 2)
          /\ NodeIs(h, k + 2, "STEP", id, k + 1, FALSE, "NO_TYPE", 0)
          /\ NodeIs(h, k + 3, "STEP", t, p, FALSE, "NO_TYPE", 0)
          /\ ph = p /\ node = k + 1
      BY <1>4, <2>1 DEF SpawnedInto, OthersKept, NodeIs
    <3>2. \A n \in Nodes(h) : n \notin Nodes(g) => n = k + 1 \/ n = k + 2 \/ n = k + 3
      BY <1>5, <3>1 DEF Nodes
    <3>3. k + 1 \in Nodes(h) /\ k + 1 # 1
      BY <1>5, <3>1 DEF Nodes
    <3> HIDE DEF a, b, node, ph
    <3> QED
      BY <1>5, <3>1, <3>2, <3>3 DEF NodeIs
  <2>2. CASE ~IsPhase(g, p)
    <3>1. /\ Len(h) = k + 4 /\ a = k + 3 /\ b = k + 4
          /\ NodeIs(h, k + 1, "FINISH", t, p, FALSE, "ASYNC", k + 4)
          /\ NodeIs(h, k + 2, "ASYNC", id, k + 1, FALSE, "NO_TYPE", k + 3)
          /\ NodeIs(h, k + 3, "STEP", id, k + 2, FALSE, "NO_TYPE", 0)
          /\ NodeIs(h, k + 4, "STEP", t, k + 1, FALSE, "NO_TYPE", 0)
          /\ ph = k + 1 /\ node = k + 2
      BY <1>4, <2>2 DEF SpawnedBelow, OthersKept, NodeIs
    <3>2. \A n \in Nodes(h) : n \notin Nodes(g) => n = k + 1 \/ n = k + 2 \/ n = k + 3 \/ n = k + 4
      BY <1>5, <3>1 DEF Nodes
    <3>3. k + 1 \in Nodes(h) /\ k + 1 # 1 /\ k + 2 \in Nodes(h) /\ k + 2 # 1
      BY <1>5, <3>1 DEF Nodes
    <3>4. \A y \in Nodes(h) : y # 1 /\ h[y].parent = p => y <= k + 1
      <4>1. k + 1 # p /\ k + 2 # p /\ \A y \in Nodes(g) : y <= k + 1
        BY <1>5
      <4> QED
        BY <1>5, <3>1, <3>2, <4>1 DEF NodeIs
    <3> HIDE DEF a, b, node, ph
    <3> QED
      BY <1>5, <2>2, <3>1, <3>2, <3>3, <3>4 DEF NodeIs
  <2> QED
    BY <2>1, <2>2
<1>9. LastFacts(h, t) /\ LastFacts(h, id)
  <2> HIDE DEF t
  <2>1. t # 0
    BY DEF t
  <2> QED
    BY <1>1, <1>2, <1>6, <2>1, LastExists
<1>10. At(h, t) = ph /\ At(h, id) = node
  <2> HIDE DEF a, b, t, node, ph
  <2> QED
    BY <1>7, <1>8 DEF At
<1>11. IsPhase(h, ph) /\ ph \in Nodes(h) /\ h[node].type # "STEP" /\ h[ph].type # "STEP"
  BY <1>3, <1>8 DEF IsPhase
<1>12. ph \in Anc(h, node)
  <2> HIDE DEF ph, node
  <2> QED
    BY <1>1, <1>8, AncBasics DEF UpClosed
<1>13. Grafted(g, h, p)
  <2>1. /\ h[a].parent \notin Nodes(g)
        /\ h[node].parent \in {p} \cup {x \in Nodes(h) : x \notin Nodes(g)}
        /\ h[b].parent \in {p} \cup {x \in Nodes(h) : x \notin Nodes(g)}
        /\ ph \notin Nodes(g) => h[ph].parent = p
    BY <1>8
  <2> HIDE DEF a, b, node, ph
  <2>2. \A n \in Nodes(h) : n \notin Nodes(g) => h[n].parent = p \/ h[n].parent \notin Nodes(g)
    BY <1>8, <2>1
  <2> QED
    BY <1>1, <1>3, <2>2 DEF Grafted
<1>14. Par(h, Last(h, id), Last(h, t))
  <2>1. IsPhase(h, At(h, t)) /\ At(h, t) \in Anc(h, Own(h, id))
    BY <1>7, <1>10, <1>11, <1>12
  <2> HIDE DEF t
  <2>2. Par(h, Last(h, t), Last(h, id))
    BY <1>1, <1>2, <1>9, <2>1, PhaseParallel
  <2>3. Last(h, t) \in StepsOf(h) /\ Last(h, id) \in StepsOf(h)
    BY <1>9 DEF LastFacts
  <2> QED
    BY <1>1, <2>2, <2>3, ParSymmetric
<1>15. ASSUME NEW x \in StepsOf(h), x \notin Nodes(g)
       PROVE  x = b \/ x = a
  <2>1. x \in Nodes(h) /\ h[x].type = "STEP"
    BY DEF StepsOf, Nodes
  <2> HIDE DEF a, b, node, ph
  <2> QED
    BY <1>8, <1>11, <1>15, <2>1
<1>16. ASSUME RightOpen(g, p)
       PROVE  RightOpen(h, ph) /\ RightOpen(h, node)
  <2> HIDE DEF node, ph
  <2>1. RightOpen(h, p)
    BY <1>1, <1>13, <1>16, SpotOpen
  <2>2. RightOpen(h, ph)
    BY <1>1, <1>8, <2>1, ChildOpen
  <2>3. RightOpen(h, node)
    BY <1>1, <1>8, <2>2, ChildOpen
  <2> QED
    BY <2>2, <2>3
<1> HIDE DEF node, ph, a, b, t
<1>17. SpawnedAt(g, h, p, id)
  <2>1. \A x \in StepsOf(h) : x \notin Nodes(g) => x = Last(h, t) \/ x = Last(h, id)
    BY <1>7, <1>15
  <2>2. RightOpen(g, p) => RightOpen(h, At(h, t)) /\ RightOpen(h, At(h, id))
    BY <1>10, <1>16
  <2>3. IsPhase(h, At(h, t)) /\ At(h, t) \in Anc(h, Own(h, id))
        /\ (IsPhase(g, p) => At(h, t) = p) /\ At(h, id) = Own(h, id)
        /\ Last(h, t) \notin Nodes(g) /\ Last(h, id) \notin Nodes(g)
    BY <1>7, <1>8, <1>10, <1>11, <1>12
  <2>4. /\ \A u : u # t /\ u # id => GrowsBeside(g, h, u)
        /\ Known(h) = Known(g) \cup {id}
    BY <1>3
  <2> QED
    BY <1>1, <1>2, <1>9, <1>13, <1>14, <2>1, <2>2, <2>3, <2>4, Zenon DEF SpawnedAt, t
<1> QED
  BY <1>17 DEF h, s

\* CaptureSpawnRootAndWait grows the tree so.
LEMMA RootGrafts ==
    ASSUME NEW g, WellFormed(g), Shaped(g), NEW p \in Nodes(g), IsTask(g, p),
           NEW id \in Nat, id \notin Known(g)
    PROVE  RootedAt(g, RootTree(g, p, id).tree, p, id)
<1> DEFINE r == RootTree(g, p, id)
           h == r.tree
           k == Len(g)
<1>0. g[p].type # "STEP"
  BY DEF IsTask
<1>1. WellFormed(h) /\ Extends(h, g)
  <2>1. p \in 1..Len(g)
    BY DEF Nodes
  <2> QED
    BY <1>0, <2>1, RootTreeWellFormed
<1>2. Shaped(h)
  BY RootShaped
<1>3. /\ \A u : u # id => GrowsBeside(g, h, u)
      /\ Known(h) = Known(g) \cup {id}
      /\ OwnNode(h, r.node, id) /\ IsLast(h, id, h[r.node].cur_step)
  BY <1>0, RootGrows
<1>4. /\ r.node = k + 1 /\ Len(h) = k + 2 /\ OthersKept(g, h, p, "FINISH", g[p].cur_step)
      /\ NodeIs(h, k + 1, "FINISH", id, p, TRUE, "NO_TYPE", k + 2)
      /\ NodeIs(h, k + 2, "STEP", id, k + 1, FALSE, "NO_TYPE", 0)
  BY <1>0, RootFields DEF Rooted
<1> HIDE DEF r, h
<1>5. k \in Nat /\ p \in Nat /\ p <= k /\ k # 0 /\ Nodes(g) = 1..k /\ k + 1 \notin Nodes(g)
      /\ k + 2 \notin Nodes(g) /\ Nodes(h) = 1..(k + 2)
  BY <1>4, TreeNodes DEF Nodes
<1>6. /\ \A n \in Nodes(h) : n \notin Nodes(g) => n = k + 1 \/ n = k + 2
      /\ k + 1 \in Nodes(h) /\ k + 1 # 1 /\ k + 2 \in Nodes(h) /\ k + 2 # 1
      /\ k + 1 # p /\ k + 2 # p /\ \A y \in Nodes(g) : y <= k + 1
  BY <1>5
<1>7. id # 0 /\ id \in Known(h)
  BY <1>3, OwnOfMain
<1>8. LastFacts(h, id)
  BY <1>1, <1>2, <1>7, LastExists
<1>9. Last(h, id) = k + 2 /\ Own(h, id) = k + 1 /\ At(h, id) = k + 1
  <2>1. IsLast(h, id, k + 2) /\ OwnNode(h, k + 1, id)
    BY <1>3, <1>4 DEF NodeIs
  <2>2. Last(h, id) = k + 2 /\ Own(h, id) = k + 1
    BY <1>1, <1>2, <2>1, LastIs, OwnIs
  <2> QED
    BY <1>4, <2>2 DEF At, NodeIs
<1>10. Grafted(g, h, p)
  <2>1. \A n \in Nodes(g) : (IsTask(h, n) <=> IsTask(g, n)) /\ (IsPhase(h, n) <=> IsPhase(g, n))
    BY <1>4, KeptKinds
  <2>2. \A n \in Nodes(h) : n \notin Nodes(g) => h[n].parent = p \/ h[n].parent \notin Nodes(g)
    BY <1>4, <1>5, <1>6 DEF NodeIs
  <2> QED
    BY <1>0, <1>1, <2>1, <2>2 DEF Grafted
<1>11. \A a \in StepsOf(h) : a \notin Nodes(g) => a = k + 2
  BY <1>4, <1>6 DEF NodeIs, StepsOf, Nodes
<1>12. ASSUME RightOpen(g, p)
       PROVE  RightOpen(h, k + 1)
  <2>1. RightOpen(h, p)
    BY <1>1, <1>10, <1>12, SpotOpen
  <2>2. h[k + 1].parent = p /\ h[k + 2].parent = k + 1
    BY <1>4 DEF NodeIs
  <2>3. \A y \in Nodes(h) : y # 1 /\ h[y].parent = p => y <= k + 1
    BY <1>6, <2>2
  <2> QED
    BY <1>1, <1>6, <2>1, <2>2, <2>3, ChildOpen
<1>13. RootedAt(g, h, p, id)
  <2>1. Last(h, id) \notin Nodes(g)
    BY <1>5, <1>9
  <2> QED
    BY <1>1, <1>2, <1>3, <1>8, <1>9, <1>10, <1>11, <1>12, <2>1 DEF RootedAt
<1> QED
  BY <1>13 DEF h, r

\* CaptureWait grows the tree so.
LEMMA StepGrafts ==
    ASSUME NEW g, WellFormed(g), Shaped(g), NEW p \in Nodes(g), g[p].type # "STEP"
    PROVE  SteppedAt(g, AddStep(g, p), p)
<1> DEFINE h == AddStep(g, p)
           t == g[p].taskId
           k == Len(g)
<1>1. WellFormed(h) /\ Extends(h, g)
  <2>1. p \in 1..Len(g)
    BY DEF Nodes
  <2> QED
    BY <2>1, AddStepWellFormed
<1>2. Shaped(h)
  BY StepShaped
<1>3. /\ \A u : u # t => GrowsBeside(g, h, u)
      /\ Known(h) = Known(g) /\ IsLast(h, t, h[p].cur_step)
  BY StepGrows
<1>4. /\ Len(h) = k + 1 /\ OthersKept(g, h, p, g[p].young_ns_child, k + 1)
      /\ NodeIs(h, k + 1, "STEP", t, p, FALSE, "NO_TYPE", 0)
  BY AddStepFields
<1> HIDE DEF h
<1>5. k \in Nat /\ p \in Nat /\ p <= k /\ k # 0 /\ Nodes(g) = 1..k /\ k + 1 \notin Nodes(g)
      /\ Nodes(h) = 1..(k + 1)
  BY <1>4, TreeNodes DEF Nodes
<1>6. \A n \in Nodes(h) : n \notin Nodes(g) => n = k + 1
  BY <1>5
<1>7. Last(h, t) = k + 1 /\ At(h, t) = p /\ IsLast(h, t, k + 1)
  <2>1. IsLast(h, t, k + 1) /\ h[k + 1].parent = p
    BY <1>3, <1>4 DEF NodeIs, OthersKept
  <2>2. Last(h, t) = k + 1
    BY <1>1, <2>1, LastIs
  <2> QED
    BY <2>1, <2>2 DEF At
<1>8. Grafted(g, h, p)
  <2>1. \A n \in Nodes(g) : (IsTask(h, n) <=> IsTask(g, n)) /\ (IsPhase(h, n) <=> IsPhase(g, n))
    BY <1>4, KeptKinds
  <2>2. \A n \in Nodes(h) : n \notin Nodes(g) => h[n].parent = p
    BY <1>4, <1>6 DEF NodeIs
  <2> QED
    BY <1>1, <2>1, <2>2 DEF Grafted
<1>9. \A a \in StepsOf(h) : a \notin Nodes(g) => a = k + 1
  BY <1>6 DEF StepsOf, Nodes
<1>10. RightOpen(g, p) => RightOpen(h, p)
  BY <1>1, <1>8, SpotOpen
<1>11. SteppedAt(g, h, p)
  <2>1. k + 1 \in StepsOf(h)
    BY <1>7 DEF IsLast
  <2> QED
    BY <1>1, <1>2, <1>3, <1>5, <1>7, <1>8, <1>9, <1>10, <2>1 DEF SteppedAt
<1> QED
  BY <1>11 DEF h
=============================================================================
