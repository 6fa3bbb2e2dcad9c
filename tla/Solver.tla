------------------------------- MODULE Solver -------------------------------
(***************************************************************************)
(* solver.py of PTRacer-solver: from the traces and the branches taken, is *)
(* there an order of the events in which every branch goes the other way?  *)
(*                                                                         *)
(* A z3 formula over the positions of events and the values of reads is    *)
(* the set of its alternatives, each a conjunction: a set of pairs of      *)
(* events, the first before the second, and a set of comparisons of reads. *)
(* An event is named by its task and number.  The order in which Python 2  *)
(* goes through a dictionary is arbitrary: which read of a variable,       *)
(* which lock and which event of a child come last or first is a choice.   *)
(***************************************************************************)
EXTENDS TraceGenerator, FiniteSetsExt

VARIABLE verdict    \* "none" until sat_check.out is written or solver.py fails

solverVars == <<vars, verdict>>

-----------------------------------------------------------------------------
(* Formulas *)
True == {[order |-> {}, values |-> {}]}
False == {}
Before(a, b) == {[order |-> {<<a, b>>}, values |-> {}]}
Value(r, cmp, v) == {[order |-> {}, values |-> {<<r, cmp, v>>}]}
And(F, G) == {[order |-> a.order \cup b.order, values |-> a.values \cup b.values] :
                 a \in F, b \in G}
AndAll(Fs) == FoldSet(And, True, Fs)
OrAll(Fs) == UNION Fs

\* Strict inequalities of integers have a solution exactly if they have no cycle.
Acyclic(E) ==
    \A S \in SUBSET {e[1] : e \in E} : S # {} => \E b \in S : \A a \in S : <<a, b>> \notin E

\* One value of a read meets all its comparisons; a value next to one compared with is as
\* good as any other.
HasValue(cs) ==
    \E v \in UNION {{c[3] - 1, c[3], c[3] + 1} : c \in cs} :
        \A c \in cs : Holds(v, c[2], c[3])

Satisfiable(F) ==
    \E a \in F : /\ \A r \in {c[1] : c \in a.values} :
                        HasValue({c \in a.values : c[1] = r})
                 /\ Acyclic(a.order)

-----------------------------------------------------------------------------
(* create_operations: the events of the traces f, by kind *)
Name(t, e) == <<t, e.id>>
opersByTask(f, t) == SelectSeq(f[t], LAMBDA e : e.op # "S")

\* pos tells operations apart that share a name: they are objects of their own, and one
\* unknown of the formula.
Opers(f, op, at) ==
    UNION {{[name |-> Name(t, f[t][i]), val |-> f[t][i].val, pos |-> <<t, i>>] :
               i \in {i \in DOMAIN f[t] : f[t][i].op = op /\ f[t][i].at = at}} :
           t \in DOMAIN f}
Subjects(f, op) == UNION {{e.at : e \in {e \in Range(f[t]) : e.op = op}} : t \in DOMAIN f}

\* lockPairSet[m]: an acquisition in a task and the next release there.
lockPairs(f, m) ==
    UNION {LET acquires == SelectSeq(f[t], LAMBDA e : e.op = "L" /\ e.at = m)
               releases == SelectSeq(f[t], LAMBDA e : e.op = "U" /\ e.at = m)
           IN  {[id |-> Name(t, acquires[i]), unlockId |-> Name(t, releases[i]), pos |-> <<t, i>>] :
                   i \in DOMAIN releases} : t \in DOMAIN f}

\* Mutant of spawnOpers: the condition is the other way round.
spawnOpersFirst(f) ==
    UNION {{[last |-> Name(t, opersByTask(f, t)[1]), child |-> f[t][i].at] :
               i \in {i \in DOMAIN f[t] : f[t][i].op = "S"
                                          /\ ~\E j \in 1..(i - 1) : f[t][j].op # "S"}} :
           t \in DOMAIN f}

\* spawnOpers: a spawn counts only if an event of another kind comes before it in the
\* trace, and its lastOperId is the first event of the task: the loop over the reversed
\* list does not stop.
spawnOpers(f) ==
    UNION {{[last |-> Name(t, opersByTask(f, t)[1]), child |-> f[t][i].at] :
               i \in {i \in DOMAIN f[t] : f[t][i].op = "S"
                                          /\ \E j \in 1..(i - 1) : f[t][j].op # "S"}} :
           t \in DOMAIN f}

-----------------------------------------------------------------------------
(* The constraints *)

\* The index never leaves 0: the loop skips every event.
create_mo_consts == True

\* Mutant of ReadsFrom: every other write comes before the one read.
ReadsFromLast(r, writes) ==
    OrAll({And(And(Value(r, "==", w.val), Before(w.name, r)),
               AndAll({Before(o.name, w.name) : o \in writes \ {w}})) :
              w \in writes})

\* A read r takes the value of a write before it that no other write comes between.
ReadsFrom(r, writes) ==
    OrAll({And(And(Value(r, "==", w.val), Before(w.name, r)),
               AndAll({OrAll({Before(o.name, w.name), Before(r, o.name)}) :
                          o \in writes \ {w}})) :
              w \in writes})

\* middle_formula is joined after the loop over the reads of a variable: only that of the
\* last read, lastRead[x], counts.
create_rw_consts(f, lastRead) ==
    AndAll({ReadsFrom(lastRead[x], Opers(f, "W", x)) : x \in DOMAIN lastRead})

\* Likewise only the lock that is last counts, and of its pairs it is enough that some
\* two are in order.
create_sync_consts(f, lastLock) ==
    LET pairs == lockPairs(f, lastLock)
    IN  OrAll({Before(p.unlockId, q.id) : <<p, q>> \in
                  {pq \in pairs \X pairs : pq[1] # pq[2]}})

create_branch_consts(checks) ==
    AndAll({Value(<<c.task, c.id>>, c.cmp, c.val) : c \in Range(checks)})

\* The event of the child is the first that the dictionary gives, firstOf[child].
create_spsync_consts(f, firstOf) ==
    AndAll({Before(s.last, firstOf[s.child]) : s \in spawnOpers(f)})

\* An exception ends solver.py: a variable that is read and never written, no pair for
\* any lock, a check of a read that is in no trace, a child without events.
Fails(f, checks) ==
    \/ \E x \in Subjects(f, "R") : Opers(f, "W", x) = {}
    \/ \A m \in Subjects(f, "U") : lockPairs(f, m) = {}
    \/ \E c \in Range(checks) :
          c.task \notin DOMAIN f \/ ~\E e \in Range(f[c.task]) : e.op = "R" /\ e.id = c.id
    \/ \E s \in spawnOpers(f) : s.child \notin DOMAIN f \/ opersByTask(f, s.child) = <<>>

\* The choices of the dictionaries.
LastReads(f) ==
    LET lastsOf(x) == {Name(t, Last(SelectSeq(f[t], LAMBDA e : e.op = "R" /\ e.at = x))) :
                          t \in {t \in DOMAIN f : \E e \in Range(f[t]) :
                                                      e.op = "R" /\ e.at = x}}
    IN  {g \in [Subjects(f, "R") -> UNION {lastsOf(x) : x \in Subjects(f, "R")}] :
            \A x \in DOMAIN g : g[x] \in lastsOf(x)}
FirstEvents(f) ==
    LET children == {s.child : s \in spawnOpers(f)}
        eventsOf(t) == {Name(t, e) : e \in Range(opersByTask(f, t))}
    IN  {g \in [children -> UNION {eventsOf(t) : t \in children}] :
            \A t \in children : g[t] \in eventsOf(t)}

create_check_formula(f, checks, lastRead, lastLock, firstOf) ==
    And(And(create_mo_consts, create_rw_consts(f, lastRead)),
        And(create_sync_consts(f, lastLock),
            And(create_branch_consts(checks), create_spsync_consts(f, firstOf))))

-----------------------------------------------------------------------------
\* solver.py runs on what the program left behind.
Solve ==
    /\ exited
    /\ verdict = "none"
    /\ IF Fails(files, br_check)
       THEN verdict' = "error"
       ELSE \E lastRead \in LastReads(files), lastLock \in Subjects(files, "U"),
               firstOf \in FirstEvents(files) :
               verdict' = IF Satisfiable(create_check_formula(files, br_check, lastRead,
                                                              lastLock, firstOf))
                          THEN "sat" ELSE "unsat"
    /\ UNCHANGED vars

SolverInit == Init /\ verdict = "none"
SolverNext == (Next /\ UNCHANGED verdict) \/ Solve
SolverSpec == SolverInit /\ [][SolverNext]_solverVars
=============================================================================
