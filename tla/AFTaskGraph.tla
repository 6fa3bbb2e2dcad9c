---------------------------- MODULE AFTaskGraph ----------------------------
(***************************************************************************)
(* The dynamic program structure tree (DPST) of the PTRacer runtime,       *)
(* tdebug-lib/src/AFTaskGraph.cpp, and of the SPD3 baseline, spd3-lib.     *)
(* The Capture* calls grow the tree; each runs entirely under the global   *)
(* `lock', hence is one action here.  areParallel answers whether a step   *)
(* may run in parallel with the calling thread's current step.             *)
(***************************************************************************)
EXTENDS Dpst, FiniteSets, Functions

CONSTANTS
    Threads,          \* values of get_cur_tid()
    MainThread,       \* the thread that ran the AFTaskGraph constructor
    TaskIds,          \* values of task_id_ctr given to tasks
    MaxNodes,         \* NUM_GRAPH_NODES, the size of the mmapped node array
    PopsOpenFinish    \* TRUE: CaptureReturn as in spd3-lib, FALSE: tdebug-lib

ASSUME GraphAssumption ==
    /\ MainThread \in Threads
    /\ TaskIds \subseteq Nat \ {0}
    /\ MaxNodes \in Nat \ {0}
    /\ PopsOpenFinish \in BOOLEAN

VARIABLES
    tgraph_nodes,     \* the node array; Len is last_allocated_node
    cur,              \* per thread, the stack of open non-STEP nodes (top = last)
    temp_cur_map,     \* task id -> node, for tasks captured and not yet executed
    tidToTaskIdMap    \* per thread, the stack of executing task ids

graphVars == <<tgraph_nodes, cur, temp_cur_map, tidToTaskIdMap>>

-----------------------------------------------------------------------------
Top(s)  == s[Len(s)]
Pop(s)  == SubSeq(s, 1, Len(s) - 1)
Push(s, x) == Append(s, x)

-----------------------------------------------------------------------------
\* Queries: read without `lock'.

\* The step that accesses of the thread are attributed to; 0 is "none yet".
getCurTask(th) == tgraph_nodes[Top(cur[th])].cur_step

\* areParallel(cur_task, remote_task, threadid) of the calling thread.
areParallel(th, remote) ==
    LET curNode == tgraph_nodes[Top(cur[th])]
        id == tgraph_nodes[remote].taskId
    IN  /\ Top(tidToTaskIdMap[th]) # id
        /\ curNode.taskId # id
        /\ parallel(tgraph_nodes, curNode.cur_step, remote)

-----------------------------------------------------------------------------
GraphInit ==
    /\ tgraph_nodes = HeadTree
    /\ cur = [t \in Threads |-> IF t = MainThread THEN <<1>> ELSE <<>>]
    /\ temp_cur_map = <<>>
    /\ tidToTaskIdMap = [t \in Threads |-> <<>>]

\* insert() leaves an entry that is already there alone.
MapInsert(m, k, v) ==
    [x \in DOMAIN m \cup {k} |-> IF x \in DOMAIN m THEN m[x] ELSE v]

\* Mutant of CaptureSpawnOnly: the opened phase is not pushed.
CaptureSpawnOnlyNoPush(th, id) ==
    LET s == SpawnTree(tgraph_nodes, Top(cur[th]), id) IN
    /\ cur[th] # <<>>
    /\ Len(s.tree) <= MaxNodes
    /\ tgraph_nodes' = s.tree
    /\ temp_cur_map' = MapInsert(temp_cur_map, id, s.node)
    /\ UNCHANGED <<cur, tidToTaskIdMap>>

\* A spawn pushes the FINISH of the phase it opens, if it opens one.
CaptureSpawnOnly(th, id) ==
    LET top == Top(cur[th])
        s == SpawnTree(tgraph_nodes, top, id)
    IN  /\ cur[th] # <<>>
        /\ Len(s.tree) <= MaxNodes
        /\ tgraph_nodes' = s.tree
        /\ cur' = IF s.phase = top THEN cur ELSE [cur EXCEPT ![th] = Push(@, s.phase)]
        /\ temp_cur_map' = MapInsert(temp_cur_map, id, s.node)
        /\ UNCHANGED tidToTaskIdMap

CaptureSpawnAndWait(th, id) ==
    LET r == RootTree(tgraph_nodes, Top(cur[th]), id)
    IN  /\ cur[th] # <<>>
        /\ Len(r.tree) <= MaxNodes
        /\ tgraph_nodes' = r.tree
        /\ temp_cur_map' = MapInsert(temp_cur_map, id, r.node)
        /\ UNCHANGED <<cur, tidToTaskIdMap>>

CaptureSetTaskId(th, id, spOnly) ==
    IF spOnly THEN CaptureSpawnOnly(th, id) ELSE CaptureSpawnAndWait(th, id)

\* __exec_begin__: temp_cur_map.at() throws when the task was not captured.
CaptureExecute(th, id) ==
    /\ id \in DOMAIN temp_cur_map
    /\ cur' = [cur EXCEPT ![th] = Push(@, temp_cur_map[id])]
    /\ tidToTaskIdMap' = [tidToTaskIdMap EXCEPT
                            ![th] = Push(@, tgraph_nodes[temp_cur_map[id]].taskId)]
    /\ temp_cur_map' = Restrict(temp_cur_map, DOMAIN temp_cur_map \ {id})
    /\ UNCHANGED tgraph_nodes

\* Mutants of CaptureReturn: no node is popped; one node is popped whatever it is.
CaptureReturnKeepsNode(th) ==
    /\ tidToTaskIdMap[th] # <<>>
    /\ tidToTaskIdMap' = [tidToTaskIdMap EXCEPT ![th] = Pop(@)]
    /\ UNCHANGED <<tgraph_nodes, cur, temp_cur_map>>
CaptureReturnOne(th) ==
    /\ tidToTaskIdMap[th] # <<>>
    /\ cur[th] # <<>>
    /\ tidToTaskIdMap' = [tidToTaskIdMap EXCEPT ![th] = Pop(@)]
    /\ cur' = [cur EXCEPT ![th] = Pop(@)]
    /\ UNCHANGED <<tgraph_nodes, temp_cur_map>>

\* __exec_end__.  spd3-lib also pops the FINISH of a spawn phase that no
\* wait closed; tdebug-lib pops one node whatever it is.
CaptureReturn(th) ==
    LET top == tgraph_nodes[Top(cur[th])]
        open == PopsOpenFinish /\ top.type = "FINISH" /\ ~top.sp_root_n_wt_flag
    IN  /\ tidToTaskIdMap[th] # <<>>
        /\ cur[th] # <<>>
        /\ open => Len(cur[th]) > 1
        /\ tidToTaskIdMap' = [tidToTaskIdMap EXCEPT ![th] = Pop(@)]
        /\ cur' = [cur EXCEPT ![th] = IF open THEN Pop(Pop(@)) ELSE Pop(@)]
        /\ UNCHANGED <<tgraph_nodes, temp_cur_map>>

\* Mutant of CaptureWaitOnly: the phase stays open.
CaptureWaitOnlyKeeps(th) ==
    /\ Len(cur[th]) > 1
    /\ Len(tgraph_nodes) + 1 <= MaxNodes
    /\ tgraph_nodes' = AddStep(tgraph_nodes, Top(Pop(cur[th])))
    /\ UNCHANGED <<cur, temp_cur_map, tidToTaskIdMap>>

\* After wait_for_all(): close the phase, continue in a new step.
CaptureWaitOnly(th) ==
    /\ Len(cur[th]) > 1
    /\ Len(tgraph_nodes) + 1 <= MaxNodes
    /\ cur' = [cur EXCEPT ![th] = Pop(@)]
    /\ tgraph_nodes' = AddStep(tgraph_nodes, Top(Pop(cur[th])))
    /\ UNCHANGED <<temp_cur_map, tidToTaskIdMap>>

\* Any caller, restricted only by the assertions of the calls.
GraphNext ==
    \E th \in Threads :
       \/ \E id \in TaskIds, spOnly \in BOOLEAN : CaptureSetTaskId(th, id, spOnly)
       \/ \E id \in TaskIds : CaptureExecute(th, id)
       \/ CaptureReturn(th)
       \/ CaptureWaitOnly(th)

GraphSpec == GraphInit /\ [][GraphNext]_graphVars

-----------------------------------------------------------------------------
GraphTypeOK ==
    /\ tgraph_nodes \in Seq(AFTask)
    /\ cur \in [Threads -> Seq(Nat)]
    /\ temp_cur_map \in [DOMAIN temp_cur_map -> Nat]
    /\ DOMAIN temp_cur_map \subseteq TaskIds
    /\ tidToTaskIdMap \in [Threads -> Seq(Nat)]

\* The tree invariants (Dpst) of the node array: parents before children and
\* consistent depths, so that the walks of LCA() and parallel() end at a common
\* ancestor; siblings without ties (rem_index != cur_index in parallel());
\* cur_step the youngest step (the assertion of getCurTask).
ParentsBefore == ParentsFirst(tgraph_nodes)
SiblingsOrdered == SiblingsInOrder(tgraph_nodes)
CurStepsAreSteps == StepsCurrent(tgraph_nodes)

\* What the stacks and the map hold are internal nodes of the tree (the assertions
\* `type != STEP'); a task that awaits its execution already has a step, so that
\* getCurTask finds one from its first access on.
OpenNodesInternal ==
    /\ \A th \in Threads : \A i \in 1..Len(cur[th]) : Internal(tgraph_nodes, cur[th][i])
    /\ \A id \in DOMAIN temp_cur_map :
          /\ Internal(tgraph_nodes, temp_cur_map[id])
          /\ tgraph_nodes[temp_cur_map[id]].cur_step # 0

\* Any two distinct steps are a well-formed query: neither is above the other,
\* their branches below the LCA have different sequence numbers, and the answer
\* does not depend on which of the two is the current step.
QueriesWellFormed ==
    \A a, b \in StepsOf(tgraph_nodes) :
       a # b => /\ WellFormedQuery(tgraph_nodes, a, b)
                /\ parallel(tgraph_nodes, a, b) = parallel(tgraph_nodes, b, a)

\* The tree only grows, so that a verdict once given stays true, which lca_hash
\* relies on when it caches it and the access history when it keeps a pointer.
TreeGrows == [][Extends(tgraph_nodes', tgraph_nodes)]_graphVars
=============================================================================
