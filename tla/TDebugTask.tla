---------------------------- MODULE TDebugTask ----------------------------
(***************************************************************************)
(* The task interface of PTRacer, t_debug_task.h and exec_calls.cpp, on    *)
(* top of the DPST of AFTaskGraph and of the TBB scheduler (external).     *)
(*                                                                         *)
(* The program is any program of the shape `Styles' allows: a running task *)
(* spawns, spawns and waits, starts a nested root, waits or returns.  The  *)
(* scheduler is any scheduler that executes a published task once, on an   *)
(* idle thread or on a thread whose innermost task waits.                  *)
(*                                                                         *)
(* Next to the program runs the ground truth: a strand is a stretch of one *)
(* task between two task operations, `strands' records the step to which   *)
(* the tree attributes its accesses, and past[t] holds the strands that    *)
(* happen before or are the current point of task t.                       *)
(***************************************************************************)
EXTENDS AFTaskGraph

CONSTANTS
    MaxTasks,     \* bound on the tasks a behaviour creates
    Styles        \* departures from "a task waits for its children": see below

\* "nested_root": spawn_root_and_wait between a spawn and its wait;
\* "continuation": a task returns before its children, which its parent's wait
\*    then also awaits (TBB continuation passing, as start_for in parallel_for.h);
\* "bare_wait": wait_for_all by a task that spawned nothing.
ASSUME TaskAssumption ==
    /\ MaxTasks \in Nat
    /\ TaskIds = 1..MaxTasks
    /\ Styles \subseteq {"nested_root", "continuation", "bare_wait"}

VARIABLES
    task_id_ctr,  \* the last task id handed out
    frames,       \* per thread, its stack of started tasks (the C++ call stack)
    ready,        \* tasks given to the scheduler and not yet executing
    returned,     \* tasks whose execute() has ended
    strands,      \* ground truth: the strands so far, [task, step]
    past          \* ground truth: task -> strands before or at its current point

schedVars == <<task_id_ctr, frames, ready, returned>>
truthVars == <<strands, past>>
vars == <<graphVars, schedVars, truthVars>>

-----------------------------------------------------------------------------
\* A started task.  pc: "run" its own code, "named" id drawn, "captured" in the
\* tree, "waiting" in the scheduler.  kind, child: the call it is in.  pending:
\* children its next wait joins.  awaited: what the wait it is in joins.
Frame(task) ==
    [task |-> task, pc |-> "run", kind |-> "none", child |-> 0,
     pending |-> {}, awaited |-> {}]

Kinds == {"spawn", "root", "spawn_and_wait"}

Running(th) == frames[th] # <<>> /\ Top(frames[th]).pc = "run"
Idle(th)    == frames[th] # <<>> => Top(frames[th]).pc = "waiting"

SetTop(th, f) == [frames EXCEPT ![th] = Append(Pop(@), f)]

\* The current point of task t moves to a new strand that follows `base' and whose
\* accesses thread th attributes to getCurTask.  Task 0, the program outside any
\* task, is not monitored (exceptions() in DR_Detector.cpp).
StartStrand(th, t, base) ==
    IF t = 0
    THEN /\ past' = [past EXCEPT ![0] = base]
         /\ UNCHANGED strands
    ELSE /\ strands' = Append(strands,
                [task |-> t, step |-> tgraph_nodes'[Top(cur'[th])].cur_step])
         /\ past' = [past EXCEPT ![t] = base \cup {Len(strands) + 1}]

-----------------------------------------------------------------------------
Init ==
    /\ GraphInit
    /\ task_id_ctr = 0
    /\ frames = [t \in Threads |-> IF t = MainThread THEN <<Frame(0)>> ELSE <<>>]
    /\ ready = {}
    /\ returned = {}
    /\ strands = <<>>
    /\ past = [t \in TaskIds \cup {0} |-> {}]

\* Mutant of SetTaskId: the task is visible to other threads before its capture.
SetTaskIdEarly(th, kind) ==
    LET f == Top(frames[th]) IN
    /\ Running(th)
    /\ task_id_ctr < MaxTasks
    /\ f.task = 0 => kind = "root"
    /\ kind = "root" /\ f.pending # {} => "nested_root" \in Styles
    /\ task_id_ctr' = task_id_ctr + 1
    /\ ready' = ready \cup {task_id_ctr + 1}
    /\ frames' = SetTop(th, [f EXCEPT !.pc = "named", !.kind = kind,
                                      !.child = task_id_ctr + 1])
    /\ UNCHANGED <<graphVars, returned, truthVars>>

\* setTaskId(++task_id_ctr).  The program outside any task starts roots only.
SetTaskId(th, kind) ==
    LET f == Top(frames[th]) IN
    /\ Running(th)
    /\ task_id_ctr < MaxTasks
    /\ f.task = 0 => kind = "root"
    /\ kind = "root" /\ f.pending # {} => "nested_root" \in Styles
    /\ task_id_ctr' = task_id_ctr + 1
    /\ frames' = SetTop(th, [f EXCEPT !.pc = "named", !.kind = kind,
                                      !.child = task_id_ctr + 1])
    /\ UNCHANGED <<graphVars, ready, returned, truthVars>>

\* CaptureSetTaskId(get_cur_tid(), id, sp_only): the child's past is the parent's;
\* a spawn ends the parent's strand, a root runs inside it.
Capture(th) ==
    LET f == Top(frames[th]) IN
    /\ frames[th] # <<>>
    /\ f.pc = "named"
    /\ CaptureSetTaskId(th, f.child, f.kind # "root")
    /\ frames' = SetTop(th, [f EXCEPT !.pc = "captured"])
    /\ IF f.kind = "root"
       THEN /\ past' = [past EXCEPT ![f.child] = past[f.task]]
            /\ UNCHANGED strands
       ELSE /\ strands' = Append(strands,
                  [task |-> f.task, step |-> tgraph_nodes'[Top(cur'[th])].cur_step])
            /\ past' = [past EXCEPT ![f.child] = past[f.task],
                                    ![f.task] = @ \cup {Len(strands) + 1}]
    /\ UNCHANGED <<task_id_ctr, ready, returned>>

\* Mutant of Publish: spawn() captures the task and forgets to hand it to TBB.
PublishForgets(th) ==
    LET f == Top(frames[th]) IN
    /\ frames[th] # <<>>
    /\ f.pc = "captured"
    /\ ready' = IF f.kind = "spawn" THEN ready ELSE ready \cup {f.child}
    /\ frames' = SetTop(th,
          IF f.kind = "spawn" THEN [f EXCEPT !.pc = "run", !.kind = "none", !.child = 0]
          ELSE [f EXCEPT !.pc = "waiting", !.awaited = {f.child} \cup f.pending])
    /\ UNCHANGED <<graphVars, task_id_ctr, returned, truthVars>>

\* The call into TBB that follows: task::spawn, spawn_root_and_wait or
\* spawn_and_wait_for_all.  From here another thread can steal the child.
Publish(th) ==
    LET f == Top(frames[th])
        own == f.pending \cup (IF f.kind = "root" THEN {} ELSE {f.child})
    IN  /\ frames[th] # <<>>
        /\ f.pc = "captured"
        /\ ready' = ready \cup {f.child}
        /\ frames' = SetTop(th,
              IF f.kind = "spawn"
              THEN [f EXCEPT !.pc = "run", !.kind = "none", !.child = 0, !.pending = own]
              ELSE [f EXCEPT !.pc = "waiting", !.pending = own,
                             !.awaited = IF f.kind = "root" THEN {f.child} ELSE own])
        /\ UNCHANGED <<graphVars, task_id_ctr, returned, truthVars>>

\* wait_for_all() enters the scheduler.
WaitForAll(th) ==
    LET f == Top(frames[th]) IN
    /\ Running(th)
    /\ f.task # 0
    /\ f.pending = {} => "bare_wait" \in Styles
    /\ frames' = SetTop(th, [f EXCEPT !.pc = "waiting", !.kind = "wait",
                                      !.awaited = f.pending])
    /\ UNCHANGED <<graphVars, task_id_ctr, ready, returned, truthVars>>

\* The scheduler runs a published task on a free thread, whose first call is
\* __exec_begin__.
Execute(th, id) ==
    /\ Idle(th)
    /\ id \in ready
    /\ CaptureExecute(th, id)
    /\ ready' = ready \ {id}
    /\ frames' = [frames EXCEPT ![th] = Append(@, Frame(id))]
    /\ StartStrand(th, id, past[id])
    /\ UNCHANGED <<task_id_ctr, returned>>

\* Whoever joins task id joins the children it leaves behind as well.
Inherit(f, id, left) ==
    [f EXCEPT !.pending = IF id \in @ THEN @ \cup left ELSE @,
              !.awaited = IF id \in @ THEN @ \cup left ELSE @]

\* __exec_end__, then the scheduler counts the task as complete.
Return(th) ==
    LET f == Top(frames[th]) IN
    /\ Running(th)
    /\ f.task # 0
    /\ f.pending # {} => "continuation" \in Styles
    /\ CaptureReturn(th)
    /\ returned' = returned \cup {f.task}
    /\ frames' = [t \in Threads |->
          LET s == IF t = th THEN Pop(frames[t]) ELSE frames[t] IN
          [i \in DOMAIN s |-> Inherit(s[i], f.task, f.pending)]]
    /\ UNCHANGED <<task_id_ctr, ready, truthVars>>

\* TBB returns from the wait: everything awaited is complete.  All calls but
\* spawn_root_and_wait report it to the tree.
Resume(th) ==
    LET f == Top(frames[th])
        joined == past[f.task] \cup UNION {past[c] : c \in f.awaited}
    IN  /\ frames[th] # <<>>
        /\ f.pc = "waiting"
        /\ f.awaited \subseteq returned
        /\ IF f.kind = "root" THEN UNCHANGED graphVars ELSE CaptureWaitOnly(th)
        /\ frames' = SetTop(th,
              [f EXCEPT !.pc = "run", !.kind = "none", !.child = 0, !.awaited = {},
                        !.pending = IF f.kind = "root" THEN @ ELSE {}])
        /\ StartStrand(th, f.task, joined)
        /\ UNCHANGED <<task_id_ctr, ready, returned>>

\* The program may stop when main is out of tasks and every thread is free.
Finished ==
    /\ task_id_ctr = MaxTasks
    /\ frames = [t \in Threads |-> IF t = MainThread THEN <<Frame(0)>> ELSE <<>>]

Next ==
    \/ \E th \in Threads :
          \/ \E kind \in Kinds : SetTaskId(th, kind)
          \/ Capture(th)
          \/ Publish(th)
          \/ WaitForAll(th)
          \/ \E id \in TaskIds : Execute(th, id)
          \/ Return(th)
          \/ Resume(th)
    \/ Finished /\ UNCHANGED vars

Spec == Init /\ [][Next]_vars

-----------------------------------------------------------------------------
FrameType ==
    [task : 0..MaxTasks, pc : {"run", "named", "captured", "waiting"},
     kind : Kinds \cup {"none", "wait"}, child : 0..MaxTasks,
     pending : SUBSET TaskIds, awaited : SUBSET TaskIds]

SchedTypeOK ==
    /\ task_id_ctr \in 0..MaxTasks
    /\ frames \in [Threads -> Seq(FrameType)]
    /\ ready \subseteq TaskIds
    /\ returned \subseteq TaskIds

TypeOK ==
    /\ GraphTypeOK
    /\ SchedTypeOK
    /\ \A i \in DOMAIN strands : strands[i] \in [task : TaskIds, step : Nat]
    /\ past \in [TaskIds \cup {0} -> SUBSET (1..Len(strands))]

\* Whenever a task runs its own code, areParallel answers exactly for every strand
\* recorded so far: "parallel" if and only if that strand does not happen before
\* the running one.  A wrong yes is a false race, a wrong no a missed one.
ParallelExact ==
    \A th \in Threads :
       Running(th) /\ Top(frames[th]).task # 0 =>
          \A q \in DOMAIN strands :
             areParallel(th, strands[q].step) <=> q \notin past[Top(frames[th]).task]

\* What the access history takes from the tree besides its shape.  Strands run in the
\* order of their steps in the tree, but for a task that goes on in its old step when
\* a root it started is done, which is not before all strands of that root; and the
\* steps of a task are serial, as areParallel takes for granted.
StrandsInOrder ==
    /\ RunInOrder(tgraph_nodes, [q \in DOMAIN strands |-> strands[q].step])
    /\ TaskStepsSerial(tgraph_nodes)

\* The child of a call between its capture and its publication.
BeingPublished ==
    {id \in TaskIds : \E th \in Threads : \E i \in DOMAIN frames[th] :
        frames[th][i].pc = "captured" /\ frames[th][i].child = id}

\* temp_cur_map.at() of __exec_begin__ finds every task a thread may pick up, and
\* the map holds nothing else but the tasks being published (no leak).
MapMatchesScheduler == DOMAIN temp_cur_map = ready \cup BeingPublished

\* When a task resumes after a wait the node on top of the thread's stack is its
\* own; the nodes of tasks executed meanwhile are gone.  A task always has a
\* step to attribute its accesses to (the assertion in getCurTask).
OwnNodeOnTop ==
    \A th \in Threads :
       Running(th) /\ Top(frames[th]).task # 0 =>
          /\ cur[th] # <<>>
          /\ Top(tidToTaskIdMap[th]) = Top(frames[th]).task
          /\ tgraph_nodes[Top(cur[th])].taskId = Top(frames[th]).task
          /\ getCurTask(th) # 0

\* A thread without a frame has no node left on its stack, and outside any task
\* the stack of the main thread is the root alone.
StacksDrain ==
    \A th \in Threads :
       /\ frames[th] = <<>> => cur[th] = <<>>
       /\ Len(frames[th]) = 1 /\ Top(frames[th]).task = 0 => cur[th] = <<1>>

\* The assertion of CaptureWaitOnly: a wait that is over leaves a node on the stack.
WaitLeavesNode ==
    \A th \in Threads :
       /\ frames[th] # <<>>
       /\ Top(frames[th]).kind \in {"wait", "spawn_and_wait"}
       /\ Top(frames[th]).pc = "waiting"
       => Len(cur[th]) > 1

\* Every captured task is eventually executed.
CapturedIsExecuted ==
    \A id \in TaskIds : id \in DOMAIN temp_cur_map ~> id \in returned
=============================================================================
