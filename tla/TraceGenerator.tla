--------------------------- MODULE TraceGenerator ---------------------------
(***************************************************************************)
(* Trace_Generator.cpp: one file of events per task, written through the   *)
(* stream on top of the stack of the thread that runs the task, and the    *)
(* file br_checks of the branches.  Every event carries a number of its    *)
(* thread.                                                                 *)
(*                                                                         *)
(* A stream keeps what is written to it until it is closed: the events of  *)
(* the small programs fit in its buffer, and a program that ends while     *)
(* tasks still run loses them.  Main calls RecordTReturn(0) itself before  *)
(* it ends, and it does not wait for all its tasks: the tests spin.        *)
(*                                                                         *)
(* A call and the statement of the program that it announces are one step: *)
(* the order of calls of different tasks is not recorded.  Which thread    *)
(* runs a task, and what it runs while a task waits, is the choice of the  *)
(* TBB scheduler.                                                          *)
(***************************************************************************)
EXTENDS TracedProgram, TLC

CONSTANTS
    Threads,        \* indices of get_cur_tid; main is thread 0
    Programs        \* the programs to trace

ASSUME TraceAssumption == Threads \subseteq Nat /\ 0 \in Threads

VARIABLES
    program,        \* external: the program traced
    state,          \* external: its state
    tidToTaskIdMap, \* per thread, the stack of its tasks
    traces,         \* per thread, the stack of streams [task, events]
    thd_ins_ctr,    \* per thread, the number of its next event
    files,          \* task id -> what is in traces/Trace_<id>
    br_check,       \* what was written to traces/br_checks
    taken,          \* per thread, the number RecordTSpawn read, or None
    exited          \* main has ended

vars == <<program, state, tidToTaskIdMap, traces, thd_ins_ctr, files, br_check, taken,
          exited>>

None == -1

-----------------------------------------------------------------------------
Last(s) == s[Len(s)]
Front(s) == SubSeq(s, 1, Len(s) - 1)

\* TraceGenActivate() and init_common().
Init ==
    /\ program \in Programs
    /\ state = Start(program)
    /\ tidToTaskIdMap = [th \in Threads |-> IF th = 0 THEN <<0>> ELSE <<>>]
    /\ traces = [th \in Threads |->
                    IF th = 0 THEN <<[task |-> 0, events |-> <<>>]>> ELSE <<>>]
    /\ thd_ins_ctr = [th \in Threads |-> 0]
    /\ files = 0 :> <<>>
    /\ br_check = <<>>
    /\ taken = [th \in Threads |-> None]
    /\ exited = FALSE

\* The task that thread th runs, and that its next statement, of one of the kinds ops,
\* can be performed.
Cur(th) == Last(tidToTaskIdMap[th])
At(th, ops) ==
    /\ ~exited
    /\ tidToTaskIdMap[th] # <<>>
    /\ taken[th] = None
    /\ CanStep(program, state, Cur(th))
    /\ Stmt(program, state, Cur(th)).op \in ops
Statement(th) == Stmt(program, state, Cur(th))
Perform(th) == state' = Step(program, state, Cur(th))

\* *(traces[th].top()) << e
Appended(str, e) == [str EXCEPT !.events = Append(@, e)]
Write(th, e) ==
    traces' = [traces EXCEPT ![th] = Append(Front(@), Appended(Last(@), e))]

Event(op, at, id, val) == [op |-> op, at |-> at, id |-> id, val |-> val]

-----------------------------------------------------------------------------
\* External: the scheduler gives a spawned task to a thread that has none or whose
\* task waits.  __exec_begin__ pushes its id, RecordTExecute its stream.
RecordTExecute(th) ==
    /\ ~exited
    /\ tidToTaskIdMap[th] = <<>> => th # 0
    /\ tidToTaskIdMap[th] # <<>> =>
          /\ ~Ended(program, state, Cur(th))
          /\ Statement(th).op = "wait"
          /\ ~CanStep(program, state, Cur(th))
    /\ \E t \in state.spawned \ DOMAIN files :
          /\ tidToTaskIdMap' = [tidToTaskIdMap EXCEPT ![th] = Append(@, t)]
          /\ traces' = [traces EXCEPT ![th] = Append(@, [task |-> t, events |-> <<>>])]
          /\ files' = (t :> <<>>) @@ files
    /\ UNCHANGED <<program, state, thd_ins_ctr, br_check, taken, exited>>

\* Mutant of Popped: the stream is closed and stays on the stack.
PoppedNot(s) == s

\* The stack of streams after RecordTReturn.
Popped(s) == Front(s)

\* Its caller is the task itself, and __exec_end__ follows; main calls it at its end.
RecordTReturn(th) ==
    /\ ~exited
    /\ tidToTaskIdMap[th] # <<>> /\ traces[th] # <<>>
    /\ Ended(program, state, Cur(th)) /\ taken[th] = None
    /\ files' = [files EXCEPT ![Last(traces[th]).task] = Last(traces[th]).events]
    /\ traces' = [traces EXCEPT ![th] = Popped(@)]
    /\ IF Cur(th) = 0
       THEN exited' = TRUE /\ UNCHANGED tidToTaskIdMap
       ELSE tidToTaskIdMap' = [tidToTaskIdMap EXCEPT ![th] = Front(@)]
            /\ UNCHANGED exited
    /\ UNCHANGED <<program, state, thd_ins_ctr, br_check, taken>>

\* Mutant of Bumped: `thd_ins_ctr[th]--'.
BumpedDown(th) == [thd_ins_ctr EXCEPT ![th] = @ - 1]

\* The counters after `thd_ins_ctr[th]++'.
Bumped(th) == [thd_ins_ctr EXCEPT ![th] = @ + 1]

\* RecordTLoad, RecordTStore, RecordTLockAcq, RecordTLockRel by the task of thread th,
\* and RecordTLoadMain, RecordTStoreMain by main on thread 0.
Recorded(th, op) ==
    /\ At(th, {op})
    /\ Write(th, Event(op, Statement(th).at, thd_ins_ctr[th], Statement(th).val))
    /\ thd_ins_ctr' = Bumped(th)
    /\ Perform(th)
    /\ UNCHANGED <<program, tidToTaskIdMap, files, br_check, taken, exited>>

RecordTLoad(th) == Recorded(th, "R")
RecordTStore(th) == Recorded(th, "W")
RecordTLockAcq(th) == Recorded(th, "L")
RecordTLockRel(th) == Recorded(th, "U")

\* RecordTSpawnMain, called by main after the spawn.
RecordTSpawnMain(th) ==
    /\ th = 0 /\ Cur(0) = 0
    /\ Recorded(0, "S")

\* RecordTSpawn increments the counter of thread 0 from whatever thread it is called on:
\* it reads the counter, and it writes it and the event.
RecordTSpawnReads(th) ==
    /\ At(th, {"S"})
    /\ Cur(th) # 0
    /\ taken' = [taken EXCEPT ![th] = thd_ins_ctr[0]]
    /\ UNCHANGED <<program, state, tidToTaskIdMap, traces, thd_ins_ctr, files, br_check,
                   exited>>

RecordTSpawnWrites(th) ==
    /\ ~exited
    /\ taken[th] # None
    /\ thd_ins_ctr' = [thd_ins_ctr EXCEPT ![0] = taken[th] + 1]
    /\ Write(th, Event("S", Statement(th).at, taken[th], 0))
    /\ taken' = [taken EXCEPT ![th] = None]
    /\ Perform(th)
    /\ UNCHANGED <<program, tidToTaskIdMap, files, br_check, exited>>

\* The condition that RecordTBrCheck writes, the negation of the one that held.
Negated(cType) ==
    [c \in Comparisons |->
        CASE c = "==" -> "!=" [] c = "!=" -> "==" [] c = ">" -> "<="
          [] c = "<" -> ">=" [] c = ">=" -> "<" [] c = "<=" -> ">"][cType]

\* Mutant of CheckId: the number of the next event.
CheckIdNext(th) == thd_ins_ctr[th]

\* The number a check is written with: `--thd_ins_ctr', restored at the end of the call.
CheckId(th) == thd_ins_ctr[th] - 1

\* A program passes the comparison that held: EQ in one branch, NEQ in the other.
RecordTBrCheck(th) ==
    /\ At(th, Comparisons)
    /\ LET o == Statement(th)
           held == Holds(state.loaded[Cur(th)][o.at], o.op, o.val)
           cType == IF held THEN o.op ELSE Negated(o.op)
       IN  br_check' = Append(br_check,
               [task |-> Cur(th), at |-> o.at, id |-> CheckId(th),
                cmp |-> Negated(cType), val |-> o.val])
    /\ Perform(th)
    /\ UNCHANGED <<program, tidToTaskIdMap, traces, thd_ins_ctr, files, taken, exited>>

\* External: a spawn, and the end of a wait.
Untraced(th) ==
    /\ At(th, {"spawn", "wait"})
    /\ Perform(th)
    /\ UNCHANGED <<program, tidToTaskIdMap, traces, thd_ins_ctr, files, br_check, taken,
                   exited>>

Exited == exited /\ UNCHANGED vars

Next ==
    \/ \E th \in Threads :
          \/ RecordTExecute(th)
          \/ RecordTReturn(th)
          \/ RecordTLoad(th)
          \/ RecordTStore(th)
          \/ RecordTLockAcq(th)
          \/ RecordTLockRel(th)
          \/ RecordTSpawnMain(th)
          \/ RecordTSpawnReads(th)
          \/ RecordTSpawnWrites(th)
          \/ RecordTBrCheck(th)
          \/ Untraced(th)
    \/ Exited

Spec == Init /\ [][Next]_vars
=============================================================================
