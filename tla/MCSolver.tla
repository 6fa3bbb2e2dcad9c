------------------------------ MODULE MCSolver ------------------------------
(***************************************************************************)
(* Programs for the trace generator and the solver, what they can do in    *)
(* all executions, and what the verdict says about it.                     *)
(***************************************************************************)
EXTENDS Solver

S(op, at, val) == [op |-> op, at |-> at, val |-> val]
Spawned(t) == <<S("spawn", t, 0), S("S", t, 0)>>
RootAndWait(t) == <<S("spawn", t, 0), S("wait", t, 0), S("S", t, 0)>>
Under(m, body) == <<S("L", m, 0)>> \o body \o <<S("U", m, 0)>>
Locked(body) == Under("m", body)
Load(x) == <<S("R", x, 0)>>
Check(cmp, v) == <<S(cmp, "c", v)>>
Checked(cmp, v) == Load("c") \o Check(cmp, v)
Store(v) == <<S("W", "c", v)>>

\* Main stores 0, spawns two tasks, and waits for the second or not.
Mains == {Store(0) \o Spawned(1) \o RootAndWait(2),
          Store(0) \o Spawned(1) \o Spawned(2)}

Writers == {Locked(Store(1)), Locked(Store(1) \o Store(0)), Locked(Store(1)) \o Store(0),
            Under("n", Locked(Store(1)) \o Store(2)), Store(2) \o Locked(<<>>) \o Locked(Store(1))}
Checkers == {Locked(Checked("==", 0)), Locked(Checked(">", 0)),
             Locked(Checked("<=", 1)), Locked(Checked("<", 0)),
             Locked(<<>>) \o Checked("!=", 0), Checked(">=", 1),
             Locked(Checked("==", 1)) \o Store(1),
             Under("n", Checked("<", 2)) \o Locked(Checked("!=", 1)),
             Locked(Checked("<=", 0)) \o Locked(Checked("==", 2))}
WriterPrograms == {(0 :> m @@ 1 :> w @@ 2 :> k) : m \in Mains, w \in Writers, k \in Checkers}

\* A task that spawns and waits, so that tasks nest on a thread.
Parents == {Store(1) \o RootAndWait(3) \o Locked(Checked("==", 1)),
            Store(1) \o Spawned(3) \o Locked(<<>>)}
NestedPrograms == {(0 :> Store(0) \o Spawned(1) \o RootAndWait(2)
                    @@ 1 :> p @@ 2 :> k @@ 3 :> w) :
                      p \in Parents, w \in {Locked(Store(0)), Locked(Store(2)) \o Checked("==", 2)},
                      k \in {Locked(Checked("==", 0)), Locked(Checked("<", 1))}}

\* A child that spawns while main runs a task of several events: both count up the numbers
\* of thread 0.
SharedNumberPrograms ==
    {(0 :> Store(0) \o Spawned(1) \o RootAndWait(2)
      @@ 1 :> Store(1) \o Spawned(3) @@ 2 :> k @@ 3 :> Locked(<<>>)) :
        k \in {Locked(Store(2) \o Store(0)) \o Checked(">", 0),
               Locked(<<>>) \o Checked("==", 1) \o Store(2)}}

\* The first thing that a trace records is a spawn: main's before it stores, or a child's.
SilentPrograms ==
    {(0 :> m @@ 1 :> Locked(Store(1)) @@ 2 :> Locked(Checked("==", 0))) :
        m \in {Spawned(1) \o Store(0) \o Spawned(2), Spawned(1) \o Store(0) \o RootAndWait(2)}}
    \cup {(0 :> Store(0) \o Spawned(1) \o RootAndWait(2)
           @@ 1 :> p @@ 2 :> Locked(Checked("==", 0)) @@ 3 :> Locked(Store(2))) :
             p \in {Spawned(3) \o Store(1), RootAndWait(3) \o Store(1), Spawned(3)}}

\* An event comes between the load and the check: a release, a store, a load of another
\* variable.
LateChecks == {Locked(Load("c")) \o Check("==", 0),
               Locked(Load("c") \o Store(2) \o Check("==", 0)),
               Locked(Load("c") \o Load("d") \o Check("==", 0)),
               Locked(Load("d") \o Load("c") \o Check("<", 1))}
LateCheckPrograms ==
    {(0 :> <<S("W", "d", 1)>> \o Store(0) \o Spawned(1) \o RootAndWait(2)
      @@ 1 :> Locked(Store(1)) @@ 2 :> k) : k \in LateChecks}

MCPrograms == WriterPrograms \cup NestedPrograms \cup SharedNumberPrograms
              \cup SilentPrograms \cup LateCheckPrograms

-----------------------------------------------------------------------------
(* What a program can do *)

\* The branches in all executions of p from s on, any task going next.
RECURSIVE Outcomes(_, _)
Outcomes(p, s) ==
    LET ready == {t \in DOMAIN p : CanStep(p, s, t)}
    IN  IF ready = {} THEN {s.branches}
        ELSE UNION {Outcomes(p, Step(p, s, t)) : t \in ready}

OutcomesOf == [p \in MCPrograms |-> Outcomes(p, Start(p))]

\* In some execution every branch the run took goes the other way.
CanDiffer ==
    \E o \in OutcomesOf[program] :
        \A b \in state.branches : <<b[1], b[2], ~b[3]>> \in o

Places(p) == UNION {{<<t, i>> : i \in DOMAIN p[t]} : t \in DOMAIN p}
Acquires(at, m) ==
    program[at[1]][at[2]].op = "L" /\ program[at[1]][at[2]].at = m

\* Each lock is taken twice or more in the program.
LocksShared ==
    \A m \in Mutexes(program) :
        \E a, b \in Places(program) : a # b /\ Acquires(a, m) /\ Acquires(b, m)

-----------------------------------------------------------------------------
(* Properties *)

TypeOK ==
    /\ program \in Programs
    /\ \A th \in Threads :
          /\ \A i \in DOMAIN tidToTaskIdMap[th] : tidToTaskIdMap[th][i] \in state.spawned
          /\ \A i \in DOMAIN traces[th] : traces[th][i].task \in DOMAIN files
          /\ thd_ins_ctr[th] \in Nat /\ taken[th] \in Nat \cup {None}
    /\ DOMAIN files \subseteq state.spawned
    /\ \A i \in DOMAIN br_check : br_check[i].cmp \in Comparisons
    /\ verdict \in {"none", "error", "sat", "unsat"}

\* The events a trace must hold when its task is at statement n.
Announced(t, n) ==
    SelectSeq(SubSeq(program[t], 1, n - 1), LAMBDA s : s.op \in {"R", "W", "L", "U", "S"})
Shape(es) == [i \in DOMAIN es |-> <<es[i].op, es[i].at>>]

\* Whatever the scheduler nests on a thread, each trace holds exactly what its own task
\* did, in the order it did it: the streams of a thread and its task ids are stacked
\* alike (RecordTExecute, RecordTReturn).
OwnTrace ==
    \A th \in Threads :
        /\ exited \/ Len(traces[th]) = Len(tidToTaskIdMap[th])
        /\ \A i \in DOMAIN traces[th] \cap DOMAIN tidToTaskIdMap[th] :
            LET t == tidToTaskIdMap[th][i]
            IN  /\ traces[th][i].task = t
                /\ Shape(traces[th][i].events) = Shape(Announced(t, state.pc[t]))

\* What has been written for task t, in its file or in its stream.
EventsOf(t) ==
    ({files[u] : u \in {t} \cap DOMAIN files}
     \cup {str.events : str \in {str \in UNION {Range(traces[th]) : th \in Threads} :
                                    str.task = t}}) \ {<<>>}

\* The statement of task t that its check at statement i is about: the last load of the
\* variable.
LoadOf(t, i) ==
    Max({k \in 1..(i - 1) : program[t][k].op = "R" /\ program[t][k].at = program[t][i].at})
Checks(t) == {i \in DOMAIN program[t] : program[t][i].op \in Comparisons}

\* The dr_branch tests record the check of a load next to it.
ChecksNextToLoads(t) ==
    \A i \in Checks(t) : \A k \in (LoadOf(t, i) + 1)..i : k \in Checks(t)

\* A branch check names, by the number of the event before it, a load of its own task of
\* the variable it compares, and no other event of the trace has that number.  Not so
\* when the program records another event between the load and the check, nor once a
\* task on another thread has counted up the numbers of thread 0 (RecordTSpawn).
CheckNamesItsLoad ==
    (\A t \in DOMAIN program \ {0} : \A s \in Range(program[t]) : s.op # "S") =>
    \A c \in {c \in Range(br_check) : ChecksNextToLoads(c.task)} :
        \A es \in EventsOf(c.task) :
            \E i \in DOMAIN es :
                /\ es[i].op = "R" /\ es[i].at = c.at /\ es[i].id = c.id
                /\ \A j \in DOMAIN es \ {i} : es[j].id # c.id

CompleteTrace(t) ==
    t \in DOMAIN files /\ Shape(files[t]) = Shape(Announced(t, Len(program[t]) + 1))

\* The tasks whose spawn solver.py takes in: main, and a child of such a task that has
\* recorded another event before the spawn.  The others it skips (solver.py:308-309).
Heard ==
    LET recordsBefore(u, i) ==
            \E k \in 1..(i - 1) : program[u][k].op \in {"R", "W", "L", "U"}
        heard[t \in DOMAIN program] ==
            \/ t = 0
            \/ \E u \in {u \in DOMAIN program : u < t} :
                 /\ heard[u]
                 /\ \E i \in DOMAIN program[u] : /\ program[u][i].op = "S" /\ program[u][i].at = t
                                               /\ recordsBefore(u, i)
    IN  {t \in DOMAIN program : heard[t]}

\* When the solver answers, it answers from the complete traces of all the tasks whose
\* spawn it takes in, although main ends without waiting for them: such a trace lost with
\* its stream makes the solver fail.
NoVerdictOnPartialTrace ==
    verdict \in {"sat", "unsat"} => \A t \in Heard : CompleteTrace(t)

\* The numbers mean what solver.py takes them for: they tell the events of a trace apart,
\* and each check has the number of its load.
NumbersTell ==
    \A t \in DOMAIN program \cap DOMAIN files :
        LET checks == SelectSeq(br_check, LAMBDA c : c.task = t)
            opers == opersByTask(files, t)
        IN  /\ \A i, j \in DOMAIN opers : opers[i].id = opers[j].id => i = j
            /\ \A i \in Checks(t) :
                  checks[Cardinality(Checks(t) \cap 1..i)].id
                      = files[t][Len(Announced(t, LoadOf(t, i) + 1))].id

\* "unsat" is right: if the solver finds no order in which the branches go the other way,
\* no execution of the program takes them.  The stores are of constants.  The traces are
\* complete, their numbers sound, and each lock is taken more than once: with a single
\* pair the constraint of the lock is false.
UnsatIsRight ==
    /\ verdict = "unsat"
    /\ \A t \in DOMAIN program : CompleteTrace(t)
    /\ NumbersTell
    /\ LocksShared
    => ~CanDiffer

\* "sat" is right: solver.py:8 says that it solves constraints to check the feasibility of
\* branches.
SatIsRight == verdict = "sat" => CanDiffer
=============================================================================
