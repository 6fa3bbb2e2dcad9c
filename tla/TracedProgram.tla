--------------------------- MODULE TracedProgram ---------------------------
(***************************************************************************)
(* The programs that Trace_Generator.cpp traces, as the dr_branch_* tests  *)
(* write them: main, task 0, stores initial values and spawns tasks;       *)
(* tasks load and store shared variables, take locks, and tell the library *)
(* which way a branch on a loaded value went.  All of it is external to    *)
(* the library.  A program is a function from task ids to sequences of     *)
(* statements [op, at, val], op one of                                     *)
(*   "spawn" at a task      "S" record the spawn of a task                 *)
(*   "wait"  for a task     "R" load, "W" store of val                     *)
(*   "L", "U" a lock        "=="..."<=" a branch on the value last loaded  *)
(*                          of at, compared with val                       *)
(***************************************************************************)
EXTENDS Integers, Sequences, FiniteSets, Functions

Comparisons == {"==", "!=", ">", "<", ">=", "<="}

Holds(v, cmp, k) ==
    \/ cmp = "==" /\ v = k
    \/ cmp = "!=" /\ v # k
    \/ cmp = ">" /\ v > k
    \/ cmp = "<" /\ v < k
    \/ cmp = ">=" /\ v >= k
    \/ cmp = "<=" /\ v <= k

\* Who may hold a lock besides the tasks.
Free == -1

Ats(p, ops) == {s.at : s \in {s \in UNION {Range(p[t]) : t \in DOMAIN p} : s.op \in ops}}
Variables(p) == Ats(p, {"R", "W"})
Mutexes(p) == Ats(p, {"L", "U"})

\* A state of the program: how far each task is, memory, the holders of the locks, the
\* tasks spawned, the value each task loaded last of each variable, and how its
\* branches went: <<task, statement, taken>>.
Start(p) == [pc |-> [t \in DOMAIN p |-> 1],
             mem |-> [x \in Variables(p) |-> 0],
             holder |-> [m \in Mutexes(p) |-> Free],
             spawned |-> {0},
             loaded |-> [t \in DOMAIN p |-> [x \in Variables(p) |-> 0]],
             branches |-> {}]

Ended(p, s, t) == s.pc[t] > Len(p[t])
Finished(p, s, t) == t \in s.spawned /\ Ended(p, s, t)
Stmt(p, s, t) == p[t][s.pc[t]]

CanStep(p, s, t) ==
    /\ t \in s.spawned
    /\ ~Ended(p, s, t)
    /\ Stmt(p, s, t).op = "L" => s.holder[Stmt(p, s, t).at] = Free
    /\ Stmt(p, s, t).op = "wait" => Finished(p, s, Stmt(p, s, t).at)

\* The state after task t performs its statement.
Step(p, s, t) ==
    LET o == Stmt(p, s, t)
        n == [s EXCEPT !.pc[t] = @ + 1]
    IN  CASE o.op = "spawn" -> [n EXCEPT !.spawned = @ \cup {o.at}]
          [] o.op = "R" -> [n EXCEPT !.loaded[t][o.at] = s.mem[o.at]]
          [] o.op = "W" -> [n EXCEPT !.mem[o.at] = o.val]
          [] o.op = "L" -> [n EXCEPT !.holder[o.at] = t]
          [] o.op = "U" -> [n EXCEPT !.holder[o.at] = Free]
          [] o.op \in Comparisons ->
                 [n EXCEPT !.branches =
                     @ \cup {<<t, s.pc[t], Holds(s.loaded[t][o.at], o.op, o.val)>>}]
          [] OTHER -> n
=============================================================================
