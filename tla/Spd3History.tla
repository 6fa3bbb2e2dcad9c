---------------------------- MODULE Spd3History ----------------------------
(***************************************************************************)
(* RecordMem of the SPD3 baseline, spd3-lib/src/DR_Detector.cpp, for one   *)
(* address: one writer and two readers, no locksets (the lock calls of     *)
(* spd3-lib do nothing).  A call runs under addr_lock and is one action.   *)
(***************************************************************************)
EXTENDS Integers, Sequences, FiniteSets

CONSTANTS
    Programs, AccessTypes      \* see RaceOracle; all locksets are empty

VARIABLES
    prog,                       \* the program, one of Programs
    accesses,                   \* ground truth: the accesses performed
    wr_task, r1_task, r2_task,  \* the access history; 0 is NULL
    all_violations              \* the violations recorded for this address

vars == <<prog, accesses, wr_task, r1_task, r2_task, all_violations>>

Oracle == INSTANCE RaceOracle WITH reported <- all_violations # {}

\* Mutant of Races: any two different steps race.
RacesDistinct(s, r) == r # 0 /\ s # r

Races(s, r) == r # 0 /\ Oracle!AreParallel(prog, s, r)

\* Strand a runs before strand b, in every execution of p.
Serial(p, a, b) == a < b /\ <<p.strands[a], p.strands[b]>> \notin p.par

\* What every DPST gives: parallelism of steps is symmetric, and the serial order of
\* strands is transitive.
SerialOrder(p) ==
    /\ p.steps \subseteq Nat \ {0}
    /\ p.strands \in Seq(p.steps)
    /\ p.par \subseteq p.steps \X p.steps
    /\ \A s, r \in p.steps : <<s, r>> \in p.par => s # r /\ <<r, s>> \in p.par
    /\ \A a, b, c \in DOMAIN p.strands :
          Serial(p, a, b) /\ Serial(p, b, c) => Serial(p, a, c)

ASSUME Spd3Assumption ==
    /\ AccessTypes \subseteq {"READ", "WRITE"}
    /\ \A p \in Programs : SerialOrder(p) /\ p.locksets = {{}}

-----------------------------------------------------------------------------
Init ==
    /\ prog \in Programs
    /\ accesses = {}
    /\ wr_task = 0 /\ r1_task = 0 /\ r2_task = 0
    /\ all_violations = {}

\* The kept access the call reports.  insert() keeps the first of a call.
Reported(a) ==
    IF Races(a.step, wr_task) THEN {[step |-> wr_task, type |-> "WRITE"]}
    ELSE IF a.type = "READ" THEN {}
    ELSE IF Races(a.step, r1_task) THEN {[step |-> r1_task, type |-> "READ"]}
    ELSE IF Races(a.step, r2_task) THEN {[step |-> r2_task, type |-> "READ"]}
    ELSE {}

\* The second reader is taken without asking whether it is parallel to the first; a
\* reader parallel to one of two serial ones is dropped.
UpdateReaders(s) ==
    LET par1 == Races(s, r1_task)
        par2 == Races(s, r2_task)
        higher == prog.lcaDepth[<<r1_task, s>>] < prog.lcaDepth[<<r1_task, r2_task>>]
        pair == IF r1_task = 0 THEN <<s, r2_task>>
                ELSE IF r2_task = 0 THEN <<r1_task, s>>
                ELSE IF ~par1 /\ ~par2 THEN <<s, 0>>
                ELSE IF par1 /\ par2 /\ higher THEN <<s, r2_task>>
                ELSE <<r1_task, r2_task>>
    IN  r1_task' = pair[1] /\ r2_task' = pair[2]

\* Mutant of RecordMem: the first writer is kept.
RecordMemFirstWriter(a) ==
    /\ all_violations = {}
    /\ Cardinality(accesses) < prog.bound
    /\ Oracle!MayFollow(prog, accesses, a.strand)
    /\ accesses' = accesses \cup {a}
    /\ all_violations' =
          {[a1 |-> [step |-> a.step, type |-> a.type], a2 |-> r] : r \in Reported(a)}
    /\ wr_task' = IF a.type = "WRITE" /\ wr_task = 0 THEN a.step ELSE wr_task
    /\ UNCHANGED <<prog, r1_task, r2_task>>

\* RecordMem(threadid, addr, accessType); the history is updated after a race, too.
RecordMem(a) ==
    /\ all_violations = {}
    /\ Cardinality(accesses) < prog.bound
    /\ Oracle!MayFollow(prog, accesses, a.strand)
    /\ accesses' = accesses \cup {a}
    /\ all_violations' =
          {[a1 |-> [step |-> a.step, type |-> a.type], a2 |-> r] : r \in Reported(a)}
    /\ IF a.type = "WRITE"
       THEN wr_task' = a.step /\ UNCHANGED <<r1_task, r2_task>>
       ELSE UpdateReaders(a.step) /\ UNCHANGED wr_task
    /\ UNCHANGED prog

Next == \E a \in Oracle!Accesses(prog) : RecordMem(a)

Spec == Init /\ [][Next]_vars

-----------------------------------------------------------------------------
\* No false race: a recorded violation names two accesses that were performed and
\* conflict.
NoFalseRace ==
    \A v \in all_violations :
       \E a, b \in accesses :
          /\ a.step = v.a1.step /\ a.type = v.a1.type
          /\ b.step = v.a2.step /\ b.type = v.a2.type
          /\ Oracle!Conflict(prog, a, b)

\* No missed race: a conflict among the accesses performed is reported.
NoMissedRace ==
    Oracle!Racy(prog, accesses) => all_violations # {}

\* What SPD3 does keep of that promise: one writer is enough to find any race of two
\* writes, whatever reads come between them.
NoMissedWriteRace ==
    Oracle!Racy(prog, {a \in accesses : a.type = "WRITE"}) => all_violations # {}
=============================================================================
