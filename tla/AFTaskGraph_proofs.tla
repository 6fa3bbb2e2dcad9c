------------------------ MODULE AFTaskGraph_proofs ------------------------
(***************************************************************************)
(* The node array of AFTaskGraph is a well-formed, ever growing tree, and  *)
(* the stacks and the map of captured tasks hold internal nodes of it, for *)
(* any threads, tasks and array size, whatever calls the program makes as  *)
(* long as they pass the assertions of the code.                           *)
(*                                                                         *)
(* The five invariants are inductive together only: a spawn keeps the tree *)
(* well formed because the top of the stack is an internal node, and the   *)
(* top of the stack stays one because the tree only grows.                 *)
(***************************************************************************)
EXTENDS AFTaskGraph, Dpst_proofs, SequenceTheorems

IInv == GraphTypeOK /\ WellFormed(tgraph_nodes) /\ OpenNodesInternal

-----------------------------------------------------------------------------
\* Internal nodes of a tree are internal nodes of its extensions.
LEMMA InternalExtends ==
    ASSUME NEW g, WellFormed(g), NEW h, WellFormed(h), Extends(h, g), NEW n, Internal(g, n)
    PROVE  /\ Internal(h, n)
           /\ g[n].cur_step # 0 => h[n].cur_step # 0
<1>1. Len(g) \in Nat /\ Len(h) \in Nat
  BY DEF WellFormed
<1> QED
  BY <1>1 DEF Internal, Extends

\* The top of a stack that is not empty, and what is below it.
LEMMA StackFacts ==
    ASSUME NEW s \in Seq(Nat), s # <<>>
    PROVE  /\ Len(s) \in 1..Len(s)
           /\ Top(s) = s[Len(s)]
           /\ Pop(s) \in Seq(Nat)
           /\ Len(Pop(s)) = Len(s) - 1
           /\ \A i \in 1..(Len(s) - 1) : Pop(s)[i] = s[i]
<1> DEFINE m == Len(s) - 1
<1>1. Len(s) \in Nat /\ Len(s) # 0 /\ Len(s) \in 1..Len(s)
  OBVIOUS
<1>2. m \in Nat /\ \A i \in 1..m : s[i] \in Nat
  BY <1>1
<1> HIDE DEF m
<1>3. 1 \in Int /\ m \in Int /\ m <= Len(s)
  BY <1>1, <1>2 DEF m
<1>4. SubSeq(s, 1, m) \in Seq(Nat)
  BY <1>2, <1>3, SubSeqProperties, SMT
<1>5. Len(SubSeq(s, 1, m)) = m
  BY <1>2
<1>6. \A i \in 1..m : SubSeq(s, 1, m)[i] = s[i]
  BY <1>2, <1>3
<1> QED
  BY <1>1, <1>4, <1>5, <1>6 DEF Top, Pop, m

\* The node a Capture call works on is an internal node.
LEMMA TopInternal ==
    ASSUME IInv, NEW th \in Threads, cur[th] # <<>>
    PROVE  Internal(tgraph_nodes, Top(cur[th]))
<1>1. cur[th] \in Seq(Nat)
  BY DEF IInv, GraphTypeOK
<1> QED
  BY <1>1, StackFacts DEF IInv, OpenNodesInternal

-----------------------------------------------------------------------------
\* A call that only grows the tree and the map.  It pushes at most an internal
\* node of the new tree on one stack and captures at most one task.
LEMMA GrowingStep ==
    ASSUME IInv, NEW th \in Threads, NEW id \in TaskIds, NEW node, NEW phase,
           WellFormed(tgraph_nodes'), Extends(tgraph_nodes', tgraph_nodes),
           Internal(tgraph_nodes', node), tgraph_nodes'[node].cur_step # 0,
           Internal(tgraph_nodes', phase),
           \/ cur' = cur
           \/ cur' = [cur EXCEPT ![th] = Push(@, phase)],
           temp_cur_map' = MapInsert(temp_cur_map, id, node),
           UNCHANGED tidToTaskIdMap
    PROVE  IInv'
<1>0. /\ node \in Nat /\ phase \in Nat
      /\ cur \in [Threads -> Seq(Nat)]
      /\ \A t \in Threads : \A i \in 1..Len(cur[t]) : Internal(tgraph_nodes', cur[t][i])
  <2>1. node \in Nat /\ phase \in Nat
    BY DEF Internal
  <2> QED
    BY <2>1, InternalExtends DEF IInv, GraphTypeOK, OpenNodesInternal
<1>1. cur' \in [Threads -> Seq(Nat)]
      /\ \A t \in Threads : \A i \in 1..Len(cur'[t]) : Internal(tgraph_nodes', cur'[t][i])
  <2>1. CASE cur' = cur
    BY <2>1, <1>0
  <2>2. CASE cur' = [cur EXCEPT ![th] = Push(@, phase)]
    <3>1. Append(cur[th], phase) \in Seq(Nat) /\ Len(cur[th]) \in Nat
      BY <1>0
    <3>2. cur' \in [Threads -> Seq(Nat)]
      BY <2>2, <3>1, <1>0 DEF Push
    <3>3. ASSUME NEW t \in Threads, NEW i \in 1..Len(cur'[t])
          PROVE  Internal(tgraph_nodes', cur'[t][i])
      <4>1. CASE t # th
        BY <4>1, <2>2, <1>0
      <4>2. CASE t = th
        <5>1. cur'[t] = Append(cur[th], phase)
          BY <4>2, <2>2, <1>0 DEF Push
        <5>2. CASE i = Len(cur[th]) + 1
          BY <5>1, <5>2, <3>1, <1>0
        <5>3. CASE i \in 1..Len(cur[th])
          BY <5>1, <5>3, <3>1, <1>0
        <5> QED
          BY <5>1, <5>2, <5>3, <3>1, <1>0
      <4> QED
        BY <4>1, <4>2
    <3> QED
      BY <3>2, <3>3
  <2> QED
    BY <2>1, <2>2
<1>2. /\ temp_cur_map' \in [DOMAIN temp_cur_map' -> Nat]
      /\ DOMAIN temp_cur_map' = DOMAIN temp_cur_map \cup {id}
      /\ \A x \in DOMAIN temp_cur_map' :
            temp_cur_map'[x] = IF x \in DOMAIN temp_cur_map THEN temp_cur_map[x] ELSE node
  BY <1>0 DEF MapInsert, IInv, GraphTypeOK
<1>3. \A x \in DOMAIN temp_cur_map' :
         /\ Internal(tgraph_nodes', temp_cur_map'[x])
         /\ tgraph_nodes'[temp_cur_map'[x]].cur_step # 0
  BY <1>2, InternalExtends DEF IInv, OpenNodesInternal
<1>4. GraphTypeOK'
  <2>1. tgraph_nodes' \in Seq(AFTask)
    BY DEF WellFormed
  <2> QED
    BY <2>1, <1>1, <1>2 DEF IInv, GraphTypeOK
<1>5. OpenNodesInternal'
  BY <1>1, <1>3 DEF OpenNodesInternal
<1> QED
  BY <1>4, <1>5 DEF IInv

-----------------------------------------------------------------------------
\* A call of the tree that captures a task.
LEMMA SpawnStep ==
    ASSUME IInv, NEW th \in Threads, NEW id \in TaskIds, CaptureSpawnOnly(th, id)
    PROVE  IInv' /\ Extends(tgraph_nodes', tgraph_nodes)
<1> DEFINE top == Top(cur[th])
           s == SpawnTree(tgraph_nodes, top, id)
<1>1. Internal(tgraph_nodes, top) /\ top \in 1..Len(tgraph_nodes)
      /\ tgraph_nodes[top].type # "STEP" /\ WellFormed(tgraph_nodes) /\ id \in Nat
  BY TopInternal, GraphAssumption DEF CaptureSpawnOnly, Internal, IInv
<1>2. /\ WellFormed(s.tree) /\ Extends(s.tree, tgraph_nodes)
      /\ s.phase \in 1..Len(s.tree) /\ s.tree[s.phase].type # "STEP"
      /\ s.node \in 1..Len(s.tree) /\ s.tree[s.node].type # "STEP"
      /\ s.tree[s.node].cur_step # 0
  BY <1>1, SpawnTreeWellFormed
<1>3. /\ tgraph_nodes' = s.tree
      /\ cur' = cur \/ cur' = [cur EXCEPT ![th] = Push(@, s.phase)]
      /\ temp_cur_map' = MapInsert(temp_cur_map, id, s.node)
      /\ UNCHANGED tidToTaskIdMap
  BY DEF CaptureSpawnOnly
<1> HIDE DEF s
<1>4. Internal(tgraph_nodes', s.node) /\ Internal(tgraph_nodes', s.phase)
  BY <1>2, <1>3 DEF Internal
<1> QED
  BY <1>2, <1>3, <1>4, GrowingStep

\* CaptureSpawnRootAndWait keeps the invariant and extends the tree.
LEMMA RootStep ==
    ASSUME IInv, NEW th \in Threads, NEW id \in TaskIds, CaptureSpawnAndWait(th, id)
    PROVE  IInv' /\ Extends(tgraph_nodes', tgraph_nodes)
<1> DEFINE top == Top(cur[th])
           r == RootTree(tgraph_nodes, top, id)
<1>1. Internal(tgraph_nodes, top) /\ top \in 1..Len(tgraph_nodes)
      /\ tgraph_nodes[top].type # "STEP" /\ WellFormed(tgraph_nodes) /\ id \in Nat
  BY TopInternal, GraphAssumption DEF CaptureSpawnAndWait, Internal, IInv
<1>2. /\ WellFormed(r.tree) /\ Extends(r.tree, tgraph_nodes)
      /\ r.node \in 1..Len(r.tree) /\ r.tree[r.node].type # "STEP"
      /\ r.tree[r.node].cur_step # 0
  BY <1>1, RootTreeWellFormed
<1>3. /\ tgraph_nodes' = r.tree
      /\ cur' = cur
      /\ temp_cur_map' = MapInsert(temp_cur_map, id, r.node)
      /\ UNCHANGED tidToTaskIdMap
  BY DEF CaptureSpawnAndWait
<1> HIDE DEF r
<1>4. Internal(tgraph_nodes', r.node)
  BY <1>2, <1>3 DEF Internal
<1> QED
  BY <1>2, <1>3, <1>4, GrowingStep

\* Beginning a task moves its node from the map to the stack of the thread.
LEMMA ExecuteStep ==
    ASSUME IInv, NEW th \in Threads, NEW id \in TaskIds, CaptureExecute(th, id)
    PROVE  IInv' /\ Extends(tgraph_nodes', tgraph_nodes)
<1> DEFINE node == temp_cur_map[id]
           task == tgraph_nodes[node].taskId
<1>1. /\ Internal(tgraph_nodes, node) /\ node \in Nat
      /\ cur \in [Threads -> Seq(Nat)] /\ tidToTaskIdMap \in [Threads -> Seq(Nat)]
  BY DEF CaptureExecute, IInv, OpenNodesInternal, GraphTypeOK, Internal
<1>2. task \in Nat
  BY <1>1, NodeInTree DEF IInv, Internal
<1>3. /\ tgraph_nodes' = tgraph_nodes
      /\ cur' = [cur EXCEPT ![th] = Append(@, node)]
      /\ tidToTaskIdMap' = [tidToTaskIdMap EXCEPT ![th] = Append(@, task)]
      /\ temp_cur_map' = [x \in DOMAIN temp_cur_map \ {id} |-> temp_cur_map[x]]
  BY DEF CaptureExecute, Push, Restrict
<1> HIDE DEF node, task
<1>4. /\ cur' \in [Threads -> Seq(Nat)]
      /\ tidToTaskIdMap' \in [Threads -> Seq(Nat)]
  BY <1>1, <1>2, <1>3
<1>5. \A t \in Threads : \A i \in 1..Len(cur'[t]) : Internal(tgraph_nodes, cur'[t][i])
  <2> SUFFICES ASSUME NEW t \in Threads, NEW i \in 1..Len(cur'[t])
               PROVE  Internal(tgraph_nodes, cur'[t][i])
    OBVIOUS
  <2>1. CASE t # th
    BY <2>1, <1>1, <1>3 DEF IInv, OpenNodesInternal
  <2>2. CASE t = th
    <3>1. cur'[t] = Append(cur[th], node) /\ cur[th] \in Seq(Nat) /\ Len(cur[th]) \in Nat
      BY <2>2, <1>1, <1>3
    <3>2. i = Len(cur[th]) + 1 \/ i \in 1..Len(cur[th])
      BY <3>1, <1>1
    <3>3. cur'[t][i] = node \/ (i \in 1..Len(cur[th]) /\ cur'[t][i] = cur[th][i])
      BY <3>1, <3>2, <1>1
    <3> QED
      BY <3>3, <1>1 DEF IInv, OpenNodesInternal
  <2> QED
    BY <2>1, <2>2
<1>6. /\ temp_cur_map' \in [DOMAIN temp_cur_map' -> Nat]
      /\ DOMAIN temp_cur_map' \subseteq TaskIds
      /\ \A x \in DOMAIN temp_cur_map' :
            x \in DOMAIN temp_cur_map /\ temp_cur_map'[x] = temp_cur_map[x]
  BY <1>3 DEF IInv, GraphTypeOK
<1>7. GraphTypeOK'
  BY <1>3, <1>4, <1>6 DEF IInv, GraphTypeOK
<1>8. OpenNodesInternal'
  BY <1>3, <1>5, <1>6 DEF IInv, OpenNodesInternal
<1>9. Extends(tgraph_nodes', tgraph_nodes)
  BY <1>3 DEF Extends, IInv, WellFormed
<1> QED
  BY <1>3, <1>7, <1>8, <1>9 DEF IInv

\* What CaptureReturn and CaptureWaitOnly leave of the stacks.
LEMMA StacksShrink ==
    ASSUME NEW g, cur \in [Threads -> Seq(Nat)],
           \A t \in Threads : \A i \in 1..Len(cur[t]) : Internal(g, cur[t][i]),
           NEW th \in Threads, cur[th] # <<>>, NEW c,
           \/ c = [cur EXCEPT ![th] = Pop(@)]
           \/ Len(cur[th]) > 1 /\ c = [cur EXCEPT ![th] = Pop(Pop(@))]
    PROVE  /\ c \in [Threads -> Seq(Nat)]
           /\ \A t \in Threads : \A i \in 1..Len(c[t]) : Internal(g, c[t][i])
<1>1. /\ Pop(cur[th]) \in Seq(Nat)
      /\ Len(Pop(cur[th])) = Len(cur[th]) - 1 /\ Len(cur[th]) \in Nat
      /\ \A i \in 1..(Len(cur[th]) - 1) : Pop(cur[th])[i] = cur[th][i]
  BY StackFacts
<1>2. \A i \in 1..Len(Pop(cur[th])) : Internal(g, Pop(cur[th])[i])
  <2> SUFFICES ASSUME NEW i \in 1..Len(Pop(cur[th]))
               PROVE  Internal(g, Pop(cur[th])[i])
    OBVIOUS
  <2>1. i \in 1..(Len(cur[th]) - 1) /\ i \in 1..Len(cur[th])
    BY <1>1
  <2>2. Pop(cur[th])[i] = cur[th][i]
    BY <1>1, <2>1
  <2> QED
    BY <2>1, <2>2
<1>3. CASE c = [cur EXCEPT ![th] = Pop(@)]
  BY <1>1, <1>2, <1>3
<1>4. CASE Len(cur[th]) > 1 /\ c = [cur EXCEPT ![th] = Pop(Pop(@))]
  <2> DEFINE p == Pop(cur[th])
  <2> HIDE DEF p
  <2>0. p \in Seq(Nat) /\ Len(p) # 0 /\ \A i \in 1..Len(p) : Internal(g, p[i])
    BY <1>1, <1>2, <1>4 DEF p
  <2>1. p # <<>>
    BY <2>0
  <2>2. /\ Pop(p) \in Seq(Nat) /\ Len(Pop(p)) = Len(p) - 1 /\ Len(p) \in Nat
        /\ \A i \in 1..(Len(p) - 1) : Pop(p)[i] = p[i]
    BY <2>0, <2>1, StackFacts
  <2>3. \A i \in 1..Len(Pop(p)) : Internal(g, Pop(p)[i])
    BY <2>0, <2>2
  <2>4. c = [cur EXCEPT ![th] = Pop(p)]
    BY <1>4 DEF p
  <2> QED
    BY <2>2, <2>3, <2>4
<1> QED
  BY <1>3, <1>4

\* CaptureReturn keeps the invariant; the tree stays as it is.
LEMMA ReturnStep ==
    ASSUME IInv, NEW th \in Threads, CaptureReturn(th)
    PROVE  IInv' /\ Extends(tgraph_nodes', tgraph_nodes)
<1>1. /\ cur \in [Threads -> Seq(Nat)] /\ tidToTaskIdMap \in [Threads -> Seq(Nat)]
      /\ \A t \in Threads : \A i \in 1..Len(cur[t]) : Internal(tgraph_nodes, cur[t][i])
  BY DEF IInv, GraphTypeOK, OpenNodesInternal
<1>2. /\ tidToTaskIdMap[th] # <<>> /\ cur[th] # <<>>
      /\ tidToTaskIdMap' = [tidToTaskIdMap EXCEPT ![th] = Pop(@)]
      /\ UNCHANGED <<tgraph_nodes, temp_cur_map>>
      /\ \/ cur' = [cur EXCEPT ![th] = Pop(@)]
         \/ Len(cur[th]) > 1 /\ cur' = [cur EXCEPT ![th] = Pop(Pop(@))]
  BY DEF CaptureReturn
<1>3. /\ cur' \in [Threads -> Seq(Nat)]
      /\ \A t \in Threads : \A i \in 1..Len(cur'[t]) : Internal(tgraph_nodes, cur'[t][i])
  BY <1>1, <1>2, StacksShrink
<1>4. tidToTaskIdMap' \in [Threads -> Seq(Nat)]
  BY <1>1, <1>2, StackFacts
<1>5. GraphTypeOK' /\ OpenNodesInternal'
  BY <1>2, <1>3, <1>4 DEF IInv, GraphTypeOK, OpenNodesInternal
<1>6. Extends(tgraph_nodes', tgraph_nodes)
  BY <1>2 DEF Extends, IInv, WellFormed
<1> QED
  BY <1>2, <1>5, <1>6 DEF IInv

\* CaptureWait keeps the invariant and extends the tree by a step.
LEMMA WaitStep ==
    ASSUME IInv, NEW th \in Threads, CaptureWaitOnly(th)
    PROVE  IInv' /\ Extends(tgraph_nodes', tgraph_nodes)
<1> DEFINE below == Top(Pop(cur[th]))
           g == AddStep(tgraph_nodes, below)
<1>1. /\ cur \in [Threads -> Seq(Nat)]
      /\ \A t \in Threads : \A i \in 1..Len(cur[t]) : Internal(tgraph_nodes, cur[t][i])
      /\ WellFormed(tgraph_nodes)
  BY DEF IInv, GraphTypeOK, OpenNodesInternal
<1>2. Len(cur[th]) > 1 /\ cur[th] # <<>>
  BY DEF CaptureWaitOnly
<1>3. /\ tgraph_nodes' = g
      /\ cur' = [cur EXCEPT ![th] = Pop(@)]
      /\ UNCHANGED <<temp_cur_map, tidToTaskIdMap>>
  BY DEF CaptureWaitOnly
<1>4. Internal(tgraph_nodes, below)
  <2>1. /\ Pop(cur[th]) \in Seq(Nat) /\ Len(Pop(cur[th])) = Len(cur[th]) - 1
        /\ Len(cur[th]) \in Nat
        /\ \A i \in 1..(Len(cur[th]) - 1) : Pop(cur[th])[i] = cur[th][i]
    BY <1>1, <1>2, StackFacts
  <2>2. below = cur[th][Len(cur[th]) - 1]
    BY <1>2, <2>1 DEF Top
  <2>3. Len(cur[th]) - 1 \in 1..Len(cur[th])
    BY <1>2, <2>1
  <2> QED
    BY <1>1, <2>2, <2>3
<1> HIDE DEF below
<1>5. below \in 1..Len(tgraph_nodes) /\ tgraph_nodes[below].type # "STEP"
  BY <1>4 DEF Internal
<1>6. WellFormed(g) /\ Extends(g, tgraph_nodes)
  BY <1>1, <1>5, AddStepWellFormed
<1> HIDE DEF g
<1>7. \A t \in Threads : \A i \in 1..Len(cur[t]) : Internal(g, cur[t][i])
  BY <1>1, <1>6, InternalExtends
<1>8. /\ cur' \in [Threads -> Seq(Nat)]
      /\ \A t \in Threads : \A i \in 1..Len(cur'[t]) : Internal(g, cur'[t][i])
  BY <1>1, <1>2, <1>3, <1>7, StacksShrink
<1>9. \A id \in DOMAIN temp_cur_map :
         Internal(g, temp_cur_map[id]) /\ g[temp_cur_map[id]].cur_step # 0
  BY <1>1, <1>6, InternalExtends DEF IInv, OpenNodesInternal
<1>10. g \in Seq(AFTask)
  BY <1>6 DEF WellFormed
<1>11. GraphTypeOK' /\ OpenNodesInternal'
  BY <1>3, <1>8, <1>9, <1>10 DEF IInv, GraphTypeOK, OpenNodesInternal
<1> QED
  BY <1>3, <1>6, <1>11 DEF IInv

-----------------------------------------------------------------------------
\* The initial state: the root alone, on the stack of the main thread.
LEMMA InitIInv == GraphInit => IInv
<1> SUFFICES ASSUME GraphInit PROVE IInv
  OBVIOUS
<1>1. WellFormed(tgraph_nodes)
  BY HeadTreeWellFormed DEF GraphInit
<1>2. Internal(tgraph_nodes, 1)
  BY DEF GraphInit, HeadTree, NewNode, Internal
<1>3. GraphTypeOK
  <2>1. tgraph_nodes \in Seq(AFTask)
    BY <1>1 DEF WellFormed
  <2>2. <<1>> \in Seq(Nat) /\ <<>> \in Seq(Nat)
    OBVIOUS
  <2>3. /\ cur \in [Threads -> Seq(Nat)]
        /\ tidToTaskIdMap \in [Threads -> Seq(Nat)]
    BY <2>2 DEF GraphInit
  <2>4. DOMAIN temp_cur_map = {} /\ temp_cur_map \in [DOMAIN temp_cur_map -> Nat]
    BY DEF GraphInit
  <2> QED
    BY <2>1, <2>3, <2>4 DEF GraphTypeOK
<1>4. OpenNodesInternal
  <2>1. ASSUME NEW th \in Threads, NEW i \in 1..Len(cur[th])
        PROVE  Internal(tgraph_nodes, cur[th][i])
    <3>1. th = MainThread /\ cur[th] = <<1>>
      BY DEF GraphInit
    <3> QED
      BY <1>2, <3>1
  <2>2. DOMAIN temp_cur_map = {}
    BY DEF GraphInit
  <2> QED
    BY <2>1, <2>2 DEF OpenNodesInternal
<1> QED
  BY <1>1, <1>3, <1>4 DEF IInv

\* Every call keeps the invariant and extends the tree.
LEMMA NextIInv ==
    ASSUME IInv, [GraphNext]_graphVars
    PROVE  IInv' /\ Extends(tgraph_nodes', tgraph_nodes)
<1>1. CASE UNCHANGED graphVars
  <2>1. UNCHANGED <<tgraph_nodes, cur, temp_cur_map, tidToTaskIdMap>>
    BY <1>1 DEF graphVars
  <2>2. IInv'
    BY <2>1 DEF IInv, GraphTypeOK, OpenNodesInternal
  <2>3. Extends(tgraph_nodes', tgraph_nodes)
    BY <2>1 DEF IInv, WellFormed, Extends
  <2> QED
    BY <2>2, <2>3
<1>2. ASSUME NEW th \in Threads, NEW id \in TaskIds, NEW spOnly \in BOOLEAN,
             CaptureSetTaskId(th, id, spOnly)
      PROVE  IInv' /\ Extends(tgraph_nodes', tgraph_nodes)
  <2>1. CaptureSpawnOnly(th, id) \/ CaptureSpawnAndWait(th, id)
    BY <1>2, Zenon DEF CaptureSetTaskId
  <2> QED
    BY <2>1, SpawnStep, RootStep
<1>3. ASSUME NEW th \in Threads, NEW id \in TaskIds, CaptureExecute(th, id)
      PROVE  IInv' /\ Extends(tgraph_nodes', tgraph_nodes)
  BY <1>3, ExecuteStep
<1>4. ASSUME NEW th \in Threads, CaptureReturn(th)
      PROVE  IInv' /\ Extends(tgraph_nodes', tgraph_nodes)
  BY <1>4, ReturnStep
<1>5. ASSUME NEW th \in Threads, CaptureWaitOnly(th)
      PROVE  IInv' /\ Extends(tgraph_nodes', tgraph_nodes)
  BY <1>5, WaitStep
<1> QED
  BY <1>1, <1>2, <1>3, <1>4, <1>5, Zenon DEF GraphNext

\* The strengthened invariant holds throughout every sequence of Capture* calls.
THEOREM GraphInvariant == GraphSpec => []IInv
<1>1. GraphInit => IInv
  BY InitIInv
<1>2. IInv /\ [GraphNext]_graphVars => IInv'
  BY NextIInv
<1> QED
  BY <1>1, <1>2, PTL DEF GraphSpec

\* Type correctness of the structure AFTaskGraph keeps.
THEOREM GraphTypes == GraphSpec => []GraphTypeOK
<1>1. IInv => GraphTypeOK
  BY DEF IInv
<1> QED
  BY <1>1, GraphInvariant, PTL

\* The walks of LCA() and parallel() go up: a node's parent was allocated before
\* it, is no step, and is one level nearer to the root.
THEOREM GraphParents == GraphSpec => []ParentsBefore
<1>1. IInv => ParentsBefore
  BY DEF IInv, WellFormed, ParentsBefore
<1> QED
  BY <1>1, GraphInvariant, PTL

\* Siblings have distinct sequence numbers, in the order of their creation, so
\* that the comparison in parallel() finds the left branch.
THEOREM GraphSiblings == GraphSpec => []SiblingsOrdered
<1>1. IInv => SiblingsOrdered
  BY DEF IInv, WellFormed, SiblingsOrdered
<1> QED
  BY <1>1, GraphInvariant, PTL

\* cur_step is the youngest STEP child: what getCurTask asserts.
THEOREM GraphCurSteps == GraphSpec => []CurStepsAreSteps
<1>1. IInv => CurStepsAreSteps
  BY DEF IInv, WellFormed, CurStepsAreSteps
<1> QED
  BY <1>1, GraphInvariant, PTL

\* The stacks and the map hold internal nodes, a captured task has a step: the
\* assertions `type != STEP' of the Capture* calls.
THEOREM GraphOpenNodes == GraphSpec => []OpenNodesInternal
<1>1. IInv => OpenNodesInternal
  BY DEF IInv
<1> QED
  BY <1>1, GraphInvariant, PTL

\* No call removes, moves, retypes or renumbers a node: cached verdicts of
\* parallel() and the steps kept in the access history stay valid.
THEOREM GraphGrows == GraphSpec => TreeGrows
<1>1. IInv /\ [GraphNext]_graphVars => [Extends(tgraph_nodes', tgraph_nodes)]_graphVars
  BY NextIInv
<1> QED
  BY <1>1, GraphInvariant, PTL DEF GraphSpec, TreeGrows

\* Whatever calls were made, LCA() and parallel() find two branches with different
\* sequence numbers for any two steps, and one answer for both orders of them: the
\* asserts that parallel() has commented out hold.
THEOREM GraphQueries == GraphSpec => []QueriesWellFormed
<1>1. IInv => QueriesWellFormed
  BY StepQueries DEF IInv, QueriesWellFormed
<1> QED
  BY <1>1, GraphInvariant, PTL

\* No call changes an answer the tree has given about two steps.
VerdictsStay ==
    [][\A a, b \in StepsOf(tgraph_nodes) :
          a # b => /\ LCA(tgraph_nodes', a, b) = LCA(tgraph_nodes, a, b)
                   /\ parallel(tgraph_nodes', a, b) = parallel(tgraph_nodes, a, b)]_graphVars

\* So a cached verdict, and one the detector has acted on, is right for ever.
THEOREM GraphVerdictsStay == GraphSpec => VerdictsStay
<1>1. IInv /\ [GraphNext]_graphVars =>
         [\A a, b \in StepsOf(tgraph_nodes) :
             a # b => /\ LCA(tgraph_nodes', a, b) = LCA(tgraph_nodes, a, b)
                      /\ parallel(tgraph_nodes', a, b) = parallel(tgraph_nodes, a, b)]_graphVars
  <2> SUFFICES ASSUME IInv, [GraphNext]_graphVars, ~UNCHANGED graphVars,
                      NEW a \in StepsOf(tgraph_nodes), NEW b \in StepsOf(tgraph_nodes), a # b
               PROVE  /\ LCA(tgraph_nodes', a, b) = LCA(tgraph_nodes, a, b)
                      /\ parallel(tgraph_nodes', a, b) = parallel(tgraph_nodes, a, b)
    OBVIOUS
  <2>1. IInv' /\ Extends(tgraph_nodes', tgraph_nodes)
    BY NextIInv
  <2>2. WellFormed(tgraph_nodes) /\ WellFormed(tgraph_nodes')
    BY <2>1 DEF IInv
  <2> QED
    BY <2>1, <2>2, GrowthKeepsQueries
<1> QED
  BY <1>1, GraphInvariant, PTL DEF GraphSpec, VerdictsStay

=============================================================================
