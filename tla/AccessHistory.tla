--------------------------- MODULE AccessHistory ---------------------------
(***************************************************************************)
(* RecordMem and RecordAccess of tdebug-lib/src/DR_Detector.cpp for one    *)
(* address.  The shadow entry keeps, per lockset, two writers and two      *)
(* readers, the first NumFixed locksets in f_entries, the others in the    *)
(* vector access_list.  f_entries fill from the front and are never freed, *)
(* so that `entries' stands for the used f_entries followed by             *)
(* access_list.  A call runs under the addr_lock of the address and is one *)
(* action; the lockset of an access is the set of held locks, the          *)
(* complement of the bit mask of the code.                                 *)
(***************************************************************************)
EXTENDS Integers, Sequences, FiniteSets

CONSTANTS
    Programs, AccessTypes,    \* see RaceOracle
    NumFixed,         \* NUM_FIXED_ENTRIES
    GarbageTasks      \* what an uninitialized task pointer may hold; 0 is NULL

VARIABLES
    prog,             \* the program, one of Programs
    accesses,         \* ground truth: the accesses performed
    entries,          \* the access history
    all_violations    \* the violations recorded for this address, at most one

vars == <<prog, accesses, entries, all_violations>>

Oracle == INSTANCE RaceOracle WITH reported <- all_violations # {}

AreParallel(s, r) == Oracle!AreParallel(prog, s, r)

-----------------------------------------------------------------------------
\* Strand a runs before strand b, in every execution of p.
Serial(p, a, b) == a < b /\ <<p.strands[a], p.strands[b]>> \notin p.par

\* The laws of a DPST that the history relies on, p being the program.  Parallelism
\* of steps is symmetric; the serial order of strands is transitive and has no
\* N-shaped suborder; the LCA depths tell which of three parallel strands is between
\* the others.
DpstLaws(p) ==
    LET all == DOMAIN p.strands
        par(a, b) == <<p.strands[a], p.strands[b]>> \in p.par
        depth(a, b) == p.lcaDepth[<<p.strands[a], p.strands[b]>>]
        late(t, S) == \A s \in S : ~Serial(p, t, s)
    IN  /\ p.steps \subseteq Nat \ {0}
        /\ p.strands \in Seq(p.steps)
        /\ p.par \subseteq p.steps \X p.steps
        /\ p.lcaDepth \in [p.steps \X p.steps -> Nat]
        /\ \A s, r \in p.steps : <<s, r>> \in p.par => s # r /\ <<r, s>> \in p.par
        /\ \A a, b, c \in all :
              Serial(p, a, b) /\ Serial(p, b, c) => Serial(p, a, c)
        /\ \A a, b, c, d \in all :
              ~(/\ Serial(p, a, c) /\ Serial(p, b, c) /\ Serial(p, b, d)
                /\ par(a, b) /\ par(a, d) /\ par(c, d))
        /\ \A x, y, s, t \in all :
              par(x, y) /\ par(x, s) /\ par(y, s) /\ late(t, {x, y, s}) =>
                 IF depth(x, s) < depth(x, y)
                 THEN par(t, x) => par(t, s) \/ par(t, y)
                 ELSE par(t, s) => par(t, x) \/ par(t, y)

ASSUME HistoryAssumption ==
    /\ \A p \in Programs : DpstLaws(p)
    /\ AccessTypes \subseteq {"READ", "WRITE"}
    /\ NumFixed \in Nat
    /\ 0 \in GarbageTasks

-----------------------------------------------------------------------------
\* Slots 1 and 2 of an entry are w1_task and w2_task, 3 and 4 r1_task and r2_task.
Slots == 1..4
Kept(e, k) == IF k <= 2 THEN e.w[k] ELSE e.r[k - 2]

\* Mutant of FreshTasks: a new overflow entry points to no node.
FreshTasksDangling == IF Len(entries) < NumFixed THEN {0} ELSE {0, 999}

\* A new entry: zeroed in f_entries (mmap), `struct Address_data address_data;'
\* without initializer in access_list.
FreshTasks == IF Len(entries) < NumFixed THEN {0} ELSE GarbageTasks

\* Mutants of Races: locks are ignored; a write is not compared with the readers.
RacesAnyLock(a) ==
    {u \in (DOMAIN entries) \X Slots :
        /\ u[2] <= 2 \/ a.type = "WRITE"
        /\ Kept(entries[u[1]], u[2]) # 0
        /\ AreParallel(a.step, Kept(entries[u[1]], u[2]))}
RacesWritersOnly(a) ==
    {u \in (DOMAIN entries) \X Slots :
        /\ entries[u[1]].lockset \cap a.held = {}
        /\ u[2] <= 2
        /\ Kept(entries[u[1]], u[2]) # 0
        /\ AreParallel(a.step, Kept(entries[u[1]], u[2]))}

\* The kept accesses the loops compare the access with and find racing: the writers,
\* and for a write also the readers, of the entries with a disjoint lockset.
Races(a) ==
    {u \in (DOMAIN entries) \X Slots :
        /\ entries[u[1]].lockset \cap a.held = {}
        /\ u[2] <= 2 \/ a.type = "WRITE"
        /\ Kept(entries[u[1]], u[2]) # 0
        /\ AreParallel(a.step, Kept(entries[u[1]], u[2]))}

\* The loops stop at the first one.
FirstRace(a) ==
    CHOOSE u \in Races(a) :
       \A v \in Races(a) : u[1] < v[1] \/ (u[1] = v[1] /\ u[2] <= v[2])

\* Mutants of UpdatePair: a third parallel access is dropped wherever it is in the
\* tree; the newest access replaces the others.
UpdatePairNoLca(p, s) ==
    LET par == [i \in {1, 2} |-> p[i] # 0 /\ AreParallel(s, p[i])]
    IN  IF ~par[1] /\ ~par[2] THEN <<s, 0>>
        ELSE IF p[2] = 0 THEN <<p[1], s>>
        ELSE p
UpdatePairNewest(p, s) == <<s, 0>>

\* The two writers (or readers) kept after an access by step s that does not race.
UpdatePair(p, s) ==
    LET par == [i \in {1, 2} |-> p[i] # 0 /\ AreParallel(s, p[i])]
        higher == prog.lcaDepth[<<p[1], s>>] < prog.lcaDepth[<<p[1], p[2]>>]
    IN  IF ~par[1] /\ ~par[2] THEN <<s, 0>>
        ELSE IF par[1] /\ par[2] THEN (IF higher THEN <<s, p[2]>> ELSE p)
        ELSE IF p[2] = 0 THEN <<p[1], s>>
        ELSE p

UpdateEntry(e, a) ==
    IF a.type = "WRITE" THEN [e EXCEPT !.w = UpdatePair(@, a.step)]
    ELSE [e EXCEPT !.r = UpdatePair(@, a.step)]

FirstUse(a, w1, w2, r1, r2) ==
    [lockset |-> a.held,
     w |-> <<IF a.type = "WRITE" THEN a.step ELSE w1, w2>>,
     r |-> <<IF a.type = "READ" THEN a.step ELSE r1, r2>>]

\* Mutant of Remember: every access starts an entry.
RememberAnew(a) ==
    \E w1, w2, r1, r2 \in FreshTasks :
       entries' = Append(entries, FirstUse(a, w1, w2, r1, r2))

\* Update the entry of this lockset, or start one.
Remember(a) ==
    LET same == {i \in DOMAIN entries : entries[i].lockset = a.held} IN
    IF same # {}
    THEN \E i \in same : entries' = [entries EXCEPT ![i] = UpdateEntry(@, a)]
    ELSE \E w1, w2, r1, r2 \in FreshTasks :
            entries' = Append(entries, FirstUse(a, w1, w2, r1, r2))

-----------------------------------------------------------------------------
Init ==
    /\ prog \in Programs
    /\ accesses = {}
    /\ entries = <<>>
    /\ all_violations = {}

\* RecordMem(threadid, addr, accessType).  exceptions() turns every later access to
\* an address with a violation into a no-operation.
RecordMem(a) ==
    /\ all_violations = {}
    /\ Cardinality(accesses) < prog.bound
    /\ Oracle!MayFollow(prog, accesses, a.strand)
    /\ accesses' = accesses \cup {a}
    /\ IF Races(a) # {}
       THEN LET f == FirstRace(a) IN
            /\ all_violations' =
                  {[a1 |-> [step |-> a.step, type |-> a.type],
                    a2 |-> [step |-> Kept(entries[f[1]], f[2]),
                            type |-> IF f[2] <= 2 THEN "WRITE" ELSE "READ"]]}
            /\ UNCHANGED entries
       ELSE Remember(a) /\ UNCHANGED all_violations
    /\ UNCHANGED prog

Next == \E a \in Oracle!Accesses(prog) : RecordMem(a)

Spec == Init /\ [][Next]_vars

-----------------------------------------------------------------------------
MaybeStep == prog.steps \cup {0}

TypeOK ==
    /\ accesses \subseteq Oracle!Accesses(prog)
    /\ entries \in Seq([lockset : prog.locksets, w : MaybeStep \X MaybeStep,
                        r : MaybeStep \X MaybeStep])

\* No false race: a recorded violation names two accesses that were performed and
\* conflict.  (report_DR prints them as a data race.)
NoFalseRace ==
    \A v \in all_violations :
       \E a, b \in accesses :
          /\ a.step = v.a1.step /\ a.type = v.a1.type
          /\ b.step = v.a2.step /\ b.type = v.a2.type
          /\ Oracle!Conflict(prog, a, b)

\* No missed race: the accesses forgotten never hide a conflict between any two of
\* the accesses performed.
NoMissedRace ==
    Oracle!Racy(prog, accesses) => all_violations # {}

\* Why accesses may be forgotten: whatever strand can still run and is parallel to an
\* access, an old step continued after a nested root included, is parallel to one that
\* is kept, of the same type and lockset.
Covered ==
    all_violations = {} =>
       \A a \in accesses : \E i \in DOMAIN entries :
          /\ entries[i].lockset = a.held
          /\ \A t \in DOMAIN prog.strands :
                Oracle!MayFollow(prog, accesses, t) /\ AreParallel(prog.strands[t], a.step)
                   => \E k \in (IF a.type = "WRITE" THEN {1, 2} ELSE {3, 4}) :
                         /\ Kept(entries[i], k) # 0
                         /\ AreParallel(prog.strands[t], Kept(entries[i], k))

\* The entries have distinct locksets; what they keep was accessed with that lockset
\* and type; a second writer (reader) is kept only beside a parallel first one.
WellFormedHistory ==
    /\ \A i, j \in DOMAIN entries :
          i # j => entries[i].lockset # entries[j].lockset
    /\ \A i \in DOMAIN entries : \A k \in Slots :
          Kept(entries[i], k) # 0 =>
             \E a \in accesses :
                /\ a.step = Kept(entries[i], k) /\ a.held = entries[i].lockset
                /\ a.type = IF k <= 2 THEN "WRITE" ELSE "READ"
    /\ \A i \in DOMAIN entries : \A p \in {entries[i].w, entries[i].r} :
          p[2] # 0 => p[1] # 0 /\ AreParallel(p[1], p[2])

\* The history reports exactly when the oracle that remembers everything does.
ImplementsOracle == Oracle!Spec
=============================================================================
