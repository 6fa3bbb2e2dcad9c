# TLA+ models of PTRacer

PTRacer finds data races of task-parallel (Intel TBB) programs.  An LLVM pass inserts
calls into a runtime library, the runtime builds a tree of the program's tasks while the
program runs, and every memory access is compared with a bounded history of earlier
accesses to the same address.  Two accesses race when one writes, they hold no common
lock, and the tree says that their steps may run in parallel.  The repository holds that
runtime (`tdebug-lib`), the SPD3 baseline it is compared with (`spd3-lib`), a trace
solver (`PTRacer-solver`), the passes and a modified TBB.

The models answer five questions.

1. Is the tree right?  Whatever the program and the schedule, does `areParallel` say
   "parallel" exactly for the accesses that are not ordered by the program?
2. Is the bounded history enough?  Two writers and two readers are kept per lockset, the
   rest is forgotten; is a race ever missed or invented because of that?
3. Which programs does the answer cover?  Where the code departs from the tree of its
   own design (returns without waits, roots between spawns), what goes wrong?
4. What do the parts that threads share without a common lock - thread ids, locksets, the
   shadow table, the map of violations - lose or invent?
5. Does the solver's verdict on a branch, from the traces of one run, hold of all runs?

## Inventory

| part | state | operations | interacts through |
|---|---|---|---|
| `AFTaskGraph` (DPST) | node array, per-thread stack `cur`, `temp_cur_map` | `CaptureSetTaskId` (`CaptureSpawnOnly`, `CaptureSpawnAndWait`), `CaptureExecute`, `CaptureReturn`, `CaptureWaitOnly`; queries `getCurTask`, `areParallel`, `LCA` | global `lock` for updates; queries take no lock |
| `t_debug_task`, `exec_calls` | `task_id_ctr`, `tidToTaskIdMap`, `tid_map` | `spawn`, `spawn_root_and_wait`, `spawn_and_wait_for_all`, `wait_for_all`, `__exec_begin__`, `__exec_end__`, `get_cur_tid` | calls the DPST, then TBB |
| `DR_Detector` | shadow table, per address an entry of fixed and overflow locksets with two writers and two readers, `all_violations` | `RecordMem`, `RecordAccess`, `CaptureLockAcquire/Release`, `Fini` | `addr_lock` per address; queries the DPST |
| `Lockset_data` | lock ids; per task a stack and a mask of held locks | `getLockId`, `addLockToLockset`, `removeLockFromLockset`, `createLockset` | called by `DR_Detector`; `lockmap_lock` for the ids |
| `lca_hash` | a table of cached verdicts | `checkParallel`, `getLCA`, `updateEntry` | called by the DPST, no lock |
| `Trace_Generator` | per thread a stack of open trace files and an event counter, one file per task, the file of branch checks | `RecordTExecute`, `RecordTReturn`, `RecordTLoad`, `RecordTStore`, `RecordTSpawn`, `RecordTLockAcq/Rel`, `RecordTBrCheck`, the `...Main` variants | called by the program; no lock; its files are read by the solver |
| `spd3-lib` | as above with one writer, two readers, no locksets | as above | |
| `PTRacer-solver` | operations by task and kind, one unknown per event, constraints | `create_operations`, `create_*_consts`, Z3 | reads the traces of a run that has ended |
| LLVM passes | function summaries | instrument accesses, locks, branches | emit the calls above |
| TBB headers | | `parallel_for`, `parallel_reduce`, ... on `t_debug_task` | call `t_debug_task` |

Hard behaviour: the Capture calls of many threads interleave and threads run other tasks
while they wait, on the same stack; queries run without the lock of the updates; the
history forgets; the cache and the shadow table are written without lock; and all of it
relies on an order of calls that no type enforces.  `PROJECT.json` lists the hazards with
their lines.

What makes each part correct:

- DPST: a well-formed growing tree; queries of two steps are well defined and
  symmetric; answers agree with the order the program imposes.
- Task interface: a task is in `temp_cur_map` from before it can be stolen until it
  begins; stacks are balanced across nested execution.
- Detectors: reports exactly when a detector that remembers everything reports.
- Cache: a query answers as the walk it stands for would, whatever collides in the table.
- Lock sets: the masks of two accesses meet exactly when the tasks hold a common lock.
- Thread ids: every thread has one index of its own, main has 0, no index is skipped.
- Shadow table and violations: every race is reported, and what is reported conflicts.
- Trace: each event is in the trace of the task that made it, each check names its load.
- Solver: no answer from an incomplete trace; "unsat" and "sat" hold of all executions.

## Modules

- `Dpst` - the tree as a value: `NewNode`, `AddChild`, `SpawnTree`, `RootTree` translate
  the creation code of `AFTaskGraph.cpp`; `Climb`, `LCA`, `parallel` its walks.  The
  predicates `ParentsFirst`, `SiblingsInOrder`, `StepsCurrent` say what a well-formed
  tree is, `Extends` what growing means, `Answers` is all a detector can learn of a tree;
  `RunInOrder` and `TaskStepsSerial` are what the detectors need beyond the shape: strands run
  in an order that the tree allows, and the steps of one task are serial.
- `AFTaskGraph` - the state of the class and one action per Capture call.  Each call
  holds the global `lock` throughout, hence is atomic.  `PopsOpenFinish` selects the
  `CaptureReturn` of `spd3-lib` (which also pops the FINISH of an unclosed spawn phase)
  or of `tdebug-lib`.  `GraphSpec` lets any thread make any call that passes the
  assertions of the code.
- `TDebugTask` - programs and scheduler on top.  A task call is three steps, as in
  `t_debug_task.h`: draw the id (`SetTaskId`), `Capture`, hand over to TBB (`Publish`,
  after which any other thread may begin the child).  `WaitForAll`/`Resume` are the two
  ends of a wait, `Execute`/`Return` are `__exec_begin__`/`__exec_end__`.  TBB is
  external: an idle thread, or a thread whose innermost task waits, takes any published
  task.  Which programs exist is chosen by `Styles`.  Beside the code's state the module
  carries the ground truth: strands and the set of strands that happen before each
  task's current point, computed from spawns and joins only.
- `RaceOracle` - the abstract detector of one address: it remembers every access.
- `AccessHistory` - `RecordMem` of `tdebug-lib` for one address, a refinement of
  `RaceOracle`.  The program enters as the `Answers` of its tree and the list of its strands,
  each with its step.  `Spd3History` is the same for `spd3-lib`.

  A strand is a stretch of a task between two task operations, a step a node of the tree.
  They are not the same: `spawn_root_and_wait` puts the task in no new step, so that after a
  nested root it goes on in its old one (`Resume` of `TDebugTask`), whose number is lower than
  those of the steps that ran inside the root.  Accesses are therefore ordered by strands
  (`MayFollow`), while the code chooses what to keep by the numbers of steps.
- `LcaHash` - `lca_hash.cpp` as `areParallel` and `LCA` use it, on a finished DPST.  One
  action is one read or write of shared memory: a query looks up the entry of its first
  step (`Look`), compares its other step (`Match`), takes the verdict (`Read`), else turns
  to the second step; a query of `parallel` that found nothing then updates the two
  entries (`Update`, `Create` or `SetRemAddr`, `SetResult`, `SetLca`).  A table slot is
  the node index modulo `TableSize`, for the pointer modulo 16000 of the code; entries are
  never freed, a displaced one may still be written by a query that holds it.
- `Lockset` - `Lockset_data.cpp`, the stack of locksets in `DR_Detector.cpp` and the part of
  `RecordAccess` that applies the summary of a branch.  A mask is the set of its zero bits.
  Beside it run the locks really held.  A `Region` is what a branch does before an access;
  `addFunctionSummaries` of the pass `TaskDebugBranchCheck` turns it into two arrays, an
  acquired and a released one (`ArrayIds`, a loop that may enter a lock in `lockid_map`
  each turn), and `RecordAccess` applies the first, then the second.
- `ThreadIds` - `get_cur_tid`: look-up and insertion under `tid_map_lock`, `at()` outside.
- `ShadowSpace` - composes `ThreadIds` with the path of `RecordMem` around the history:
  `exceptions()`, the first touch of a region (`ReadTable`, `StoreTable`), the lock of the
  address (`Compare`), the insertion into `all_violations`.  Each unlocked access to shared
  memory is a step.  A `std::map` that is read during an insertion may miss a key
  (`Exceptions`, `At`), and of two insertions at a time one may be lost
  (`InsertViolation`); that such a race can also corrupt the map or crash is not
  enumerated.  The history of a cell is the set of its accesses, which is what the
  refinement of `RaceOracle` by `AccessHistory` justifies.
- `TracedProgram` - external: programs in the shape of the `dr_branch` tests, as data, and
  their steps (`CanStep`, `Step`).
- `TraceGenerator` - `Trace_Generator.cpp` while such a program runs on any scheduler: the
  stack of streams of a thread grows and shrinks with its nested tasks, events are numbered
  by the thread, `RecordTSpawn` reads and writes the counter of thread 0 in two steps.  What
  a stream holds reaches its file when it is closed; when main ends (it calls
  `RecordTReturn(0)` and does not wait for its tasks) the rest is lost.
- `Solver` - `solver.py` on what is left: the operations of the traces, then the
  constraints as formulas in disjunctive form, one operator per `create_*` function; an
  alternative is a set of "before" pairs and of comparisons, and has a solution if the
  pairs have no cycle and each read a value.  The iteration order of Python's
  dictionaries is a choice.  `Fails` lists the exceptions.
- `MCSolver` - the programs, and, by running them in every order (`OutcomesOf`), what they
  can really do.
- `MCPrograms` enumerates the trees and strands of all programs of n tasks in which a spawning
  task waits (`Executed`) and pairs them with locksets and a number of accesses (`ProgramsOf`);
  `MCTask`, `MCHistory`, `MCSpd3`, `MCLcaHash`, `MCLockset` are the instances for TLC.
  `MCTask` runs `TDebugTask` with either library: as its constants say, or (`Spd3`, an
  INSTANCE) with the return of spd3-lib and continuation passing.
- `Dpst_proofs`, `AFTaskGraph_proofs`, `TDebugTask_proofs`, `AccessHistory_proofs`,
  `Spd3History_proofs`, `LcaHash_proofs`, `Lockset_proofs`, `ShadowSpace_proofs` - the
  theorems about the module of that name (those about `ThreadIds` are with `ShadowSpace`,
  which instantiates it), see below.

How the modules compose: `TDebugTask` extends `AFTaskGraph`, its actions call the Capture
actions; `AccessHistory` and `Spd3History` take the trees `TDebugTask` can build, as
values, and instantiate `RaceOracle`.  That the answers of the tree are right is checked
in `TDebugTask`, that right answers make a right detector in the history modules, and
when the cache in between is transparent in `LcaHash`; `Lockset` says what the locksets are
worth that `AccessHistory` takes as given, `ShadowSpace` what becomes of the history when
calls overlap.  `LcaHash` can take the DPST as
finished because it only grows and a call changes no answer about earlier steps
(`TreeGrows`, proved of every program in `TDebugTask_proofs`).

Definitions whose name is another definition's with a suffix and whose comment says
"Mutant" are plausible mistakes; each property is known to fail when the definition is
replaced by the mutant `PROJECT.json` names for it.

## Runs

| run | instance | what it shows |
|---|---|---|
| `graph_calls` | 2 threads, 2 task ids, 9 nodes | the tree and its queries are well formed whatever the callers do |
| `task_exact` | 2 threads, 4 tasks; tdebug-lib with `Styles = {}`, spd3-lib with continuation passing | `areParallel` is exact for every strand at every moment; strands run in an order that the tree allows (`StrandsInOrder`); stacks are balanced; the map is exact; captured tasks are executed; no deadlock |
| `history` | all programs of 5 tasks with 4 accesses and no locks; all of 4 tasks with nested roots, with 4 accesses and no locks, and with one lock, one fixed entry and 3 accesses | the pairs of writers and readers suffice; with locksets and overflow the history implements the oracle |
| `cache` | 2 threads, all programs of 3 tasks, 4 slots, 3 queries | the cache is transparent unless two queries with a common step overlap |
| `spd3_writers` | all programs of 4 tasks with nested roots, 4 accesses | no false race; no missed race of two writes |
| `lockset` | 2 threads, 2 nested tasks each, 3 locks on masks of 2 bits, regions of up to 3 operations | masks tell common locks as long as locks fit the mask and releases are last-in first-out; summaries hide no race; each bit of a mask is of a lock held, even when locks share bits |
| `shadow` | 2 threads, 2 calls each, 4 addresses in 2 regions of 2 (two addresses share a cell) | only overlapping first touches and overlapping insertions lose a race; indices are unique; calls return |
| `solver` | 2 threads, 109 programs of 2 or 3 tasks beside main | traces are the tasks' own; checks name their loads; answers come from complete traces of the tasks whose spawn counts; "unsat" from complete, soundly numbered traces is right |
| `solver_infeasible` | as `solver` | violation: "sat" for a branch no execution takes |
| `task_continuation` | continuation passing with tdebug-lib | violation: wrong answers of `areParallel` |
| `history_garbage` | uninitialized pointers may point to steps | violation: a false race |
| `cache_overlap` | as `cache` | violation: a stale verdict when two queries with a common step overlap |

Bounds and why they suffice.  Four tasks give a root, two children of one phase and a
grandchild, or two successive phases, or a nested root beside a spawn: every pair of
creation rules meets, and every departure already shows with four.  Two threads let a
waiting thread run foreign tasks while another thread works; a third thread adds only
schedules of independent calls.  A pair is full with two accesses, replaced by the third
and tested by the fourth: hence four accesses; five tasks are the least in which three
mutually parallel steps and a later one exist at different depths.  `NumFixed = 1` makes
the second lockset overflow.  In the cache three queries are one that fills an entry, one
that rewrites it and one that reads it; with 4 slots and more nodes than that, steps of
different tasks collide, so that entries are displaced while a query holds them.  The two
threads of the cache are interchangeable (symmetry); no liveness is checked there.

Three locks on masks of two bits give both masks that tell and a lock that has no bit of
its own; with nested tasks and regions, accesses of a task, of the task below it and of an
untaken branch are compared.  One recorded access is enough, as it is compared with what
every running task would record now.  Locks are interchangeable (symmetry).  Four addresses
on two regions of two cells: 0 and 4 share a cell, 0 and 1 a region, 0 and 2 neither.  Two
calls of each of two threads are the first touch of a region, a race with it and a call that
finds the violation; with `MaxCalls` used up the behaviour ends, hence no deadlock check.
The traced programs store, load and branch on one variable under one or two locks: what the
constraints of a read (which write, what lies between), of a lock (which pair) and of a spawn
speak of; the three-task programs nest on a thread and call `RecordTSpawn` while another
thread records.  Programs of four more kinds are there for the premises of the solver's
properties: a task of several events on thread 0 beside a `RecordTSpawn` on the other thread
(`SharedNumberPrograms`), a spawn as the first event of main's or of a child's trace
(`SilentPrograms`), a release, a store or a load of another variable between a load and its
check (`LateCheckPrograms`), and locks taken once.  They end at any moment after main's last statement, which covers the loss
of any set of open traces.  A stream is taken to be flushed only when closed: the traces are
far shorter than its buffer.

`MaxNodes = 40` is never reached with four tasks; `MaxNodes = 9` cuts `graph_calls`, which
has no other bound on its length.  Outside the task runs a behaviour ends when its
accesses, queries or nodes are used up, so that deadlock is not checked there; in the task
runs the only state without a real step is the end of the program (`Finished`).

Fairness.  In the task runs (`EitherSpec`) it is weak fairness of the whole next-state
relation: something happens as long as something can.  TBB runs ready tasks, resumes completed
waits, and the tasks themselves terminate; no order among threads is assumed.  In
`ShadowSpace` it is weak fairness of each thread: the operating system lets every thread run,
and since a thread makes finitely many calls and holds a mutex for finitely many steps, a
waiting one finds it free for good at some point.

## What the violations mean

- `task_continuation`: `start_for::execute` in `parallel_for.h` spawns and returns, its
  continuation waits.  `CaptureReturn` of tdebug-lib pops one node; the FINISH opened by
  the spawn is on top, so that the task's own ASYNC stays on the stack of the thread.
- `cache_overlap`: `updateEntry` stores `remAddr`, `lca_result` and `lca` of an existing
  entry one after the other, without lock.  A query of the new pair that runs between the
  first two stores finds the pair and the verdict of the former one.  When that verdict is
  "serial", the race is missed.  The model keeps the program order of the stores; a
  compiler or machine that reorders them only adds ways to the same mix.
- `history_garbage`: an overflow entry has one initialized task pointer of four.
- `solver_infeasible`: a task stores 1 and 0 to a variable under a lock, another loads it under
  the same lock.  No execution loads 1, but among the constraints there is neither the order
  of the two stores (`create_mo_consts` skips every event) nor the exclusion of the two
  regions (one release before one acquisition is all that `create_sync_consts` asks).

Three more departures show with these modules, each with one change to a configuration:

- `Styles = {"nested_root"}` in `task_continuation` violates `ParallelExact`: of
  `spawn; spawn_root_and_wait; spawn; wait_for_all` the root makes the youngest non-step
  child a FINISH, the second spawn opens a phase inside the open one, one wait closes one.
- `Styles = {"bare_wait"}` there violates `WaitLeavesNode`: `wait_for_all` without a spawn pops
  the task's own node.
- `NoMissedRace` of `Spd3History` with the programs of `spd3_writers` is violated: two serial
  readers fill the reader slots of the baseline, a reader parallel to one is dropped.

What `CheckNamesItsLoad`, `NoVerdictOnPartialTrace` and `UnsatIsRight` do not claim is what
their premises name.  Programs of the run `solver` meet each of them, and without it TLC
refutes the property:

- `LocksShared`: with a lock taken once `create_sync_consts` builds an empty disjunction, and
  the verdict is "unsat" whatever the branch.  (A program without any lock makes `solver.py`
  fail: the loop variable it reads after the loop is unbound.)
- `NumbersTell`, distinct numbers: `RecordTSpawn` on thread 1 counts up the numbers of thread 0
  (`Trace_Generator.cpp:80`), and two events of one task on thread 0 get the same.  For
  `solver.py` they are one unknown: of two stores with one name neither comes before the other
  and no load takes the value of either, a store with the name of a load is neither before nor
  after it, and the verdict is a wrong "unsat".  No test calls `RecordTSpawn`; they call
  `RecordTSpawnMain`, on thread 0.
- `NumbersTell`, checks name their loads, and `ChecksNextToLoads`: `RecordTBrCheck` takes the
  number of the thread's last event.  If the program records another event between the load and
  the check, `solver.py` either fails or, if that event is a load too, compares the value of the
  other variable, and a wrong "unsat" comes out.  The tests record the check next to the load.
- `Heard` and `CompleteTrace`: a spawn before which its task has recorded nothing is skipped
  (`solver.py:308-309`), so that nothing refers to the child.  If main ends first and the
  child's trace is lost, there is a verdict, and it may be "unsat" because the store that the
  branch needs is in the lost trace.

## Proofs

TLC checks small instances; the theorems below hold for every value of the constants that
meets the named assumptions.  Each invariant named here was first checked on a run.

### The tree

`Dpst_proofs` has two parts.  The first is about the creation code: one creation keeps a tree
well formed and extends it (`AddChildWellFormed`), and so do the composed ones
(`SpawnTreeWellFormed`, `RootTreeWellFormed`).  The second is about the walk of `LCA()` and
`parallel()`.  `Climb` is a recursive function, so that it must first be shown to exist: the
sum of the two nodes shrinks with every move, and by taking the least sum for which it fails,
no function to compute it can fail to exist (`WalkExists`, `ClimbStep`).  What it returns
follows the same way: the walk ends in the deepest common ancestor, on the two branches below
it that lead to the two steps (`ClimbResult`, `StepsPart`).  Hence every query about two steps
has an answer, whichever comes first (`StepQueries`), and no growth of the tree changes it
(`GrowthKeepsQueries`).  `Cut` is the fact about three steps that everything later rests on:
one of them leaves the other two above or at the place where these part.

`AFTaskGraph_proofs` proves for any set of threads, any task ids, any size of the node
array and either `CaptureReturn`, from `GraphAssumption` alone, what `graph_calls` checks on
a small instance.  None of the invariants is inductive alone: a spawn keeps the tree well
formed because the top of the caller's stack is an internal node, which in turn stays true
because the tree only grows.  `IInv` joins types, well-formedness and the stacks, and each
Capture call has a lemma that it preserves `IInv` and extends the tree.  With the second part
of `Dpst_proofs` follows that the queries are well formed at every moment (`GraphQueries`) and
that a verdict once given stays (`GraphVerdictsStay`), which is what lets a detector query
without the lock of the updates and a cache keep what it was told.

### Tasks

`TDebugTask_proofs` proves of every program - any set of threads, number of tasks and
choice of `Styles`, the undisciplined ones included - that the task interface implements
`GraphSpec` (`TaskImplementsGraph`): each call of `t_debug_task` and `exec_calls` is a
Capture call whose assertions hold, or leaves the DPST alone.  Hence what is proved of
`GraphSpec` holds of it (`TaskTreeInvariant`, `TaskTreeGrows`).  The assertion that needs an
argument is the one of `__exec_begin__`: the task must be in `temp_cur_map`.  `SchedInv`
says that the map holds exactly the tasks between their capture and their begin
(`MapMatchesScheduler`, `TaskMapMatches`); it is inductive together with the types and
`CallsHoldIds`: a call in progress holds an id that no other call and no task has.

The stacks of nodes are balanced only in disciplined programs. `Discipline` says which the library
at hand copes with: with `CaptureReturn` of tdebug-lib those in which a task waits for what it
spawned before it returns, waits only if it spawned, and starts no root in between; with that of
spd3-lib (`PopsOpenFinish`) also those in which a task leaves its children to its parent. The
assumption is needed: with tdebug-lib each departure breaks one of these properties in the
instance of `task_continuation` - continuation passing `OwnNodeOnTop` and `StacksDrain`, nested
roots `StacksDrain`, bare waits `OwnNodeOnTop` and `WaitLeavesNode`. (`TypeOK` survives the first
two there; it is proved only with the discipline, as its proof goes by the own node on top.) For
all disciplined programs, threads and numbers of tasks the own node is on top (`TopNodeIsOwn`),
nothing stays on the stacks (`StacksAreDrained`), the assertion of `CaptureWaitOnly` holds
(`WaitKeepsNode`) and everything keeps its type (`Types`).

None of these is inductive, as the top of a stack now says nothing about what is below it when
the task above returns.  `DInv` (`DisciplineInvariant`) joins `SchedInv`, `IInv` and `Tidy`,
which has six parts:

- `Shaped`: a task has one node, a spawn phase is a FINISH of the task it belongs to, and the
  test of the code (`checkForStep`: the youngest child that is no step is an ASYNC) tells phases
  from nodes of tasks;
- `Control`: each started task is on one stack, every task is joined by one other, which began
  before it, and is captured, on a stack or returned; captured children are new to the tree;
- `Stacks`: below the innermost frame of a thread all frames wait;
- `Layouts`: the stack of nodes of a thread is the concatenation of what its frames hold - the
  node of the task and, while it has something to join, its open phase - and the last step of a
  task is the current step of the upper one;
- `TidsOK` and `MapOK`: the ids of the thread are those of its frames, and the map leads to the
  nodes of the captured tasks.

That only the innermost task of a thread moves, and that others grow the tree beside what a task
holds (`GrowsBeside`), makes each action a local change: `TopLayouts`, `LaidPush` and `LaidPop`
say what a step does to a layout, and one lemma per action (`SpawnTidy`, `RootTidy`,
`ExecuteTidy`, `ReturnTidy`, `ResumeWaitTidy`, ...) that `Tidy` is kept.

On top of `DInv` rests what the library is for: of disciplined programs, `areParallel` answers
exactly (`AnswersAreExact`) and the strands run as the tree says (`StrandsRunInOrder`).
The discipline is needed here too: `nested_root` breaks `ParallelExact` in `task_continuation`.
Two more invariants carry it, both about live tasks: those that are captured, on a stack, or
returned and yet to be joined.  The last step of a task is `Last`, the place it grows the tree at
is `At`, its open phase or else its own node.

`OrderInv` (`OrderInvariant`) says how live tasks lie in the tree:

- `Nested` and `Below`: a live task lies below a started one exactly if that one is to join it, or
  joins one that has not returned and that it lies below; nothing lies below a captured task;
- `RightMost`: the place of each live task is open on the right - every node on the way from it
  to the root is an ASYNC or the youngest child of its parent;
- `Spawned`: below a live task others lie in its phase, or in a root it waits for.

The tree grows at the place of the innermost task of a thread only (`TopSpot`).

`TruthInv` (`TruthInvariant`) relates the tree to the happens-before order, which the model keeps
beside the code's variables as `past` and `strands`.  `Exact`: the past of a live task is what the
tree calls serial to its last step, except for strands in a root it waits for, which it has not
joined yet though the tree, rightly for the code after the root, calls them serial.
`Covered`: what ran below a started task is in its past or in that of a task it is to join; a
wait therefore adds just the strands below the phase it closes, and those are what its next step
becomes serial to.  When a strand is recorded, `AliveApart` says of every other live task that it
is in parallel, or waits for the root the strand is in.  Each kind of step has a lemma:
`TruthStrand` for an access, `TruthBegun`, `TruthEnded`, `TruthCalled` and `TruthResumed` for begin,
return, call and join.  A task that runs its own code waits for no root, so `Exact` is the answer
itself, the shortcut of `areParallel` for steps of one task being right by `TaskStepsSerial`.
Both invariants were checked by TLC in the instances of `task_exact`, on both libraries, before
they were proved.

`StrandInv` is the order of the strands.  `InOrder` says that of two strands in different steps
the later one is to the right of the earlier, parallel to it, or goes on in a step inside which
the earlier one ran, as part of a root; `Closed` that once it went on nothing more runs in that
root.  An access is recorded in the last step of the innermost task, which is the rightmost of
what it is serial to (`RightOfLast`), except for the roots that ran within that very step; these
have all returned when the task goes on, and what is captured later is placed elsewhere
(`LastFollows`, `OrderStrand`).

### Detectors

`AccessHistory_proofs` proves that what the history forgets is never missed
(`ForgettingIsSafe`, `TwoStepsCover`), that what it reports is a race (`ReportsAreTrue`), and
that it reports exactly when the detector that remembers everything does
(`HistoryImplementsOracle`), for any programs whose strands obey
`DpstLaws`, locksets, `NumFixed` and number of accesses.  The argument has three steps.  `DpstLaws` says what is used of a tree.  `UpdatePairCovers`: if two
kept steps of one type and lockset stand for all earlier ones - whatever may still run and is
parallel to one of those is parallel to a kept one - then so do the two that `RecordAccess`
keeps after the next access; this is where the depths of the LCAs are compared.
`HistoryInv` then adds that entries have distinct locksets and keep only what was performed.
All of it holds while no uninitialized pointer is read (`Initialized`): overflow entries are
never allocated, or the garbage is NULL.  `FewLocksets` (an address is taken under at most
`NumFixed` locksets) makes that true for good; `history_garbage` shows what happens otherwise.

The pairs are compared by step numbers, but what is to come is a matter of strands.  The two
part ways when an old step goes on after a root: the laws are therefore stated of strands, and
the invariant keeps for every kept step a strand of it that may still precede what is to come
(`StrandOf`, `MayPrecede` in the proof).

`TreesObeyLaws` closes the gap to the tree: the answers of any well-formed tree obey
`DpstLaws`, if `TaskStepsSerial` holds of it and its strands are in an order that it allows
(`RunInOrder`).  Both are proved of every tree and every strand of a disciplined program
(`StrandsRunInOrder`), and TLC checks them of the programs of the history runs as the assumption
`LawfulTrees`.  `AnswersAreExact` says that the tree tells what happens in parallel,
`StrandsRunInOrder` and `TreesObeyLaws` that its answers have the form the history needs,
`HistoryImplementsOracle` that the history makes the right reports of them.  No theorem joins the
four: the history modules take the finished tree as a value, and one access at a time.

`Spd3History_proofs` proves for the baseline that reports are true and that no race of two
writes is missed.  One writer is enough because, as long as nothing was reported, all
writers so far are serial and the kept one runs last.  `TreesAreOrdered` is the counterpart
of `TreesObeyLaws`; only the transitivity of the serial order of strands is used.

### Shared tables

`LcaHash_proofs` proves `TransparentApart` for any well-formed trees, threads, queries and
table size.  (That queries give the same for either order of two steps is a theorem now,
`StepQueries`, no longer an assumption.)  The invariant `CacheInv` rests on one fact that no
overlap can break: a query looks at, and writes to, entries of its own steps only
(`EntriesOwned`).  While queries with a common step exclude each other, no two queries
therefore hold the same entry (`EntriesApart`), an entry is coherent unless the query that
holds it is between its first and its last store (`EntriesCoherent`), and what a query has
compared stays so (`Progress`).  Steps that leave the table alone, that write to the held
entry and that publish a new one each have a lemma (`QuietStep`, `WritingStep`, `CreateStep`).

`Lockset_proofs` proves what masks tell, for any threads, nested tasks, locks, width of a mask
and regions.  `lockid_map` only grows, and while the locks fit the mask it is one to one
(`GoodMap`); the stack of locks of a task whose releases are last-in first-out is the image of
the locks it holds, with any number of locks, and its lockset is if they fit (`FrameOk`); each access recorded has the same relation to what was really
held (`AccessOk`).  The loop over the operations of a branch is again shown to exist by its
first failing turn (`LoopExists`), and each turn to keep the map good (`RegionFacts`).

`ShadowSpace_proofs` proves that a thread's index is its own (`OwnIndex`, from `TidInv`:
an index is drawn under the lock, for a thread that had none) and that a race is
lost only by overlapping first touches or overlapping insertions (`MissedOnlyByOverlap`), and
reports are conflicts.  `ShadowInv` says who may use which table: a table serves one index
(`OneIndex`); unless first touches of an index overlapped everybody uses the table that is
published (`Published`), and who is about to publish is alone (`Alone`); in a cell nothing
unreported conflicts (`Peaceful`); a race is recorded or on its way (`Noted`), and a writer of
`all_violations` that is alone loses nothing (`OneAtATime`).

### What is only model-checked

The trace and the solver: `MCSolver` enumerates executions with a recursive operator, which the
prover cannot take.  All liveness (`CapturedIsExecuted`, `CallsReturn`): the prover has no rules
for fairness, and neither for ENABLED, so that the absence of deadlocks stays with TLC as well.
That some undisciplined programs keep `TypeOK` (see Tasks) is known of the small instance only.

## Not modelled

See the components in `PROJECT.json`.  The TBB scheduler and the programs under test are
environments.  By far most of the repository is vendored: LLVM and clang with two small passes
added, and TBB with changed headers.  PTRacer's own code is some five thousand lines, and the
models cover its runtime, its solver and the summary of branches; a share of all lines in
the tree says little about that.

Left out of PTRacer's own code: the walk of the passes over LLVM IR; recycled tasks of
`parallel_scan.h`, which begin without having been captured; the versions of locks in spd3-lib,
which nothing reads; the older task graph, which nothing calls; printing.

One address is modelled at a time in the history modules: addresses share nothing but what
`ShadowSpace` models.  An access that passed `exceptions()` just before another thread recorded
a violation may still change the history; nothing reads it any more, and `insert` keeps the
first violation.  In `TraceGenerator` the stores of a program are of constants, as those to the
branch variables of the tests are: a value that depends on another run's order is not in the
trace, and no verdict could be right of it.

## Plan

Done: every component listed as modelled; the proofs above.  Next:

1. Recycled tasks: a style of `TDebugTask` in which a task begins that was never captured.
2. Lock ids and steps of untaken branches together: the summaries across a spawn.
3. The executions of `MCSolver` as a recursive function instead of an operator, so that what holds
   of a trace by construction of the recorder (`OwnTrace`, `NoVerdictOnPartialTrace`) can be proved.
