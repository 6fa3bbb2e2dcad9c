------------------------ MODULE Spd3History_proofs ------------------------
(***************************************************************************)
(* SPD3 finds every race of two writes and reports no false race, for all  *)
(* programs and any number of accesses.  One writer is enough: as long as  *)
(* nothing is reported all writers so far are serial, the kept one last.   *)
(***************************************************************************)
EXTENDS Spd3History, Dpst_proofs

AreParallel(s, r) == Oracle!AreParallel(prog, s, r)

Precedes(v, w) == Serial(prog, v, w)

\* What the assumption on programs says of the strands of the one at hand.
LEMMA Order ==
    ASSUME prog \in Programs
    PROVE  /\ prog.steps \subseteq Nat \ {0} /\ DOMAIN prog.strands \subseteq Nat
           /\ \A a, b : AreParallel(a, b) =>
                 a \in prog.steps /\ b \in prog.steps /\ a # b /\ AreParallel(b, a)
           /\ \A v, w : Precedes(v, w) <=>
                 v < w /\ ~AreParallel(prog.strands[v], prog.strands[w])
           /\ \A u, v, w \in DOMAIN prog.strands :
                 Precedes(u, v) /\ Precedes(v, w) => Precedes(u, w)
           /\ \A a \in Oracle!Accesses(prog) :
                 /\ a.strand \in DOMAIN prog.strands /\ a.step = prog.strands[a.strand]
                 /\ a.step \in prog.steps /\ a.held = {} /\ a.type \in {"READ", "WRITE"}
<1>1. SerialOrder(prog) /\ prog.locksets = {{}}
  BY Spd3Assumption
<1>2. \A a, b : AreParallel(a, b) =>
         a \in prog.steps /\ b \in prog.steps /\ a # b /\ AreParallel(b, a)
  <2> SUFFICES ASSUME NEW a, NEW b, <<a, b>> \in prog.par
               PROVE  a \in prog.steps /\ b \in prog.steps /\ a # b /\ <<b, a>> \in prog.par
    BY DEF AreParallel, Oracle!AreParallel
  <2>1. prog.par \subseteq prog.steps \X prog.steps
    BY <1>1 DEF SerialOrder
  <2>2. a \in prog.steps /\ b \in prog.steps
    BY <2>1
  <2> QED
    BY <1>1, <2>2 DEF SerialOrder
<1>3. \A v, w : Precedes(v, w) <=> v < w /\ ~AreParallel(prog.strands[v], prog.strands[w])
  BY DEF AreParallel, Oracle!AreParallel, Precedes, Serial
<1>4. /\ prog.strands \in Seq(prog.steps) /\ prog.steps \subseteq Nat \ {0}
      /\ DOMAIN prog.strands \subseteq Nat
      /\ \A v \in DOMAIN prog.strands : prog.strands[v] \in prog.steps
  BY <1>1 DEF SerialOrder
<1>5. ASSUME NEW a \in Oracle!Accesses(prog)
      PROVE  /\ a.strand \in DOMAIN prog.strands /\ a.step = prog.strands[a.strand]
             /\ a.step \in prog.steps /\ a.held = {} /\ a.type \in {"READ", "WRITE"}
  <2>1. PICK t \in DOMAIN prog.strands, y \in AccessTypes, h \in prog.locksets :
           a = [strand |-> t, step |-> prog.strands[t], type |-> y, held |-> h]
    BY DEF Oracle!Accesses
  <2>2. AccessTypes \subseteq {"READ", "WRITE"}
    BY Spd3Assumption
  <2> QED
    BY <1>1, <1>4, <2>1, <2>2
<1>6. \A u, v, w \in DOMAIN prog.strands : Precedes(u, v) /\ Precedes(v, w) => Precedes(u, w)
  BY <1>1 DEF SerialOrder, Precedes
<1> QED
  BY <1>2, <1>3, <1>4, <1>5, <1>6

\* The answers of any tree are such an order, if steps of one task are serial and the
\* strands run in an order that the tree allows.
THEOREM TreesAreOrdered ==
    ASSUME NEW g, WellFormed(g), TaskStepsSerial(g),
           NEW st \in Seq(StepsOf(g)), RunInOrder(g, st),
           NEW p, p.steps = Answers(g).steps, p.par = Answers(g).par, p.strands = st
    PROVE  SerialOrder(p)
<1> DEFINE S == StepsOf(g)
           Q == DOMAIN st
<1>1. /\ p.steps = S
      /\ p.par = {ab \in S \X S : /\ g[ab[1]].taskId # g[ab[2]].taskId
                                  /\ parallel(g, ab[1], ab[2])}
  BY DEF Answers
<1>2. /\ S \subseteq Nat \ {0} /\ \A a \in S : a \in Nat
      /\ \A i \in Q : st[i] \in S
  BY TreeNodes DEF StepsOf, Nodes
<1>3. \A a, b \in S : <<a, b>> \in p.par <=> Par(g, a, b)
  <2> SUFFICES ASSUME NEW a \in S, NEW b \in S
               PROVE  <<a, b>> \in p.par <=> Par(g, a, b)
    OBVIOUS
  <2>1. <<a, b>> \in p.par <=> g[a].taskId # g[b].taskId /\ parallel(g, a, b)
    BY <1>1
  <2>2. a # b /\ g[a].taskId = g[b].taskId => ~parallel(g, a, b)
    BY DEF TaskStepsSerial
  <2> QED
    BY <2>1, <2>2 DEF Par
<1>4. Strands(g, Q, st)
  <2>1. Ordered(g, Q, st)
    BY <1>2, OrderedIs
  <2>2. Q \subseteq Nat
    OBVIOUS
  <2> QED
    BY <1>2, <2>1, <2>2 DEF Strands
<1>5. p.par \subseteq S \X S
  BY <1>1
<1> HIDE DEF S, Q
<1>6. \A a, b \in S : <<a, b>> \in p.par => a # b /\ <<b, a>> \in p.par
  <2>1. \A a, b \in S : Par(g, a, b) => a # b /\ Par(g, b, a)
    BY ParSymmetric DEF S, Par
  <2> QED
    BY <1>3, <2>1
<1>7. \A a, b, c \in Q : Serial(p, a, b) /\ Serial(p, b, c) => Serial(p, a, c)
  <2>1. \A i, j \in Q : Serial(p, i, j) <=> Runs(g, st, i, j)
    BY <1>2, <1>3 DEF Serial, Runs
  <2>2. \A a, b, c \in Q : Runs(g, st, a, b) /\ Runs(g, st, b, c) => Runs(g, st, a, c)
    BY <1>4, RunsTransitive
  <2> QED
    BY <2>1, <2>2
<1> QED
  BY <1>1, <1>2, <1>5, <1>6, <1>7 DEF SerialOrder, S, Q

-----------------------------------------------------------------------------
(* The history *)

Performed(s, type) == \E b \in accesses : b.step = s /\ b.type = type

Writes == {a \in accesses : a.type = "WRITE"}

\* Strand v is strand w or runs before it.
NotAfter(v, w) == v = w \/ Precedes(v, w)

\* What is kept was accessed; as long as nothing is reported the writers are serial and
\* none runs after some strand that wrote as part of the kept step.
Inv ==
    /\ prog \in Programs
    /\ accesses \subseteq Oracle!Accesses(prog)
    /\ wr_task # 0 => Performed(wr_task, "WRITE")
    /\ r1_task # 0 => Performed(r1_task, "READ")
    /\ r2_task # 0 => Performed(r2_task, "READ")
    /\ NoFalseRace
    /\ all_violations = {} =>
          /\ \A a, b \in Writes : ~AreParallel(a.step, b.step)
          /\ Writes # {} => \E b \in Writes :
                b.step = wr_task /\ \A a \in Writes : NotAfter(a.strand, b.strand)

\* An empty history satisfies the invariant.
LEMMA InitInv == Init => Inv
BY DEF Init, Inv, Writes, NoFalseRace

\* A kept reader stays, is replaced by the new one or is dropped.
LEMMA ReadersKept ==
    ASSUME NEW s, UpdateReaders(s)
    PROVE  r1_task' \in {r1_task, s} /\ r2_task' \in {r2_task, s, 0}
BY DEF UpdateReaders

\* What a call reports is kept, parallel to the access, and one of the two writes.
LEMMA ReportedFacts ==
    ASSUME NEW a, a.type \in {"READ", "WRITE"}, NEW r \in Reported(a)
    PROVE  /\ AreParallel(a.step, r.step) /\ "WRITE" \in {a.type, r.type}
           /\ \/ r.step = wr_task /\ r.type = "WRITE"
              \/ r.step = r1_task /\ r.type = "READ"
              \/ r.step = r2_task /\ r.type = "READ"
           /\ r.step # 0
BY DEF Reported, Races, AreParallel

\* Every RecordMem keeps the invariant.
LEMMA RecordMemStep ==
    ASSUME Inv, NEW a \in Oracle!Accesses(prog), RecordMem(a)
    PROVE  Inv'
<1>1. /\ all_violations = {} /\ Oracle!MayFollow(prog, accesses, a.strand)
      /\ accesses' = accesses \cup {a} /\ prog' = prog
      /\ all_violations' =
           {[a1 |-> [step |-> a.step, type |-> a.type], a2 |-> r] : r \in Reported(a)}
      /\ \/ a.type = "WRITE" /\ wr_task' = a.step /\ UNCHANGED <<r1_task, r2_task>>
         \/ a.type # "WRITE" /\ UpdateReaders(a.step) /\ UNCHANGED wr_task
  BY DEF RecordMem
<1>2. /\ prog \in Programs /\ accesses \subseteq Oracle!Accesses(prog)
      /\ a.step \in prog.steps /\ a.held = {} /\ a.type \in {"READ", "WRITE"}
      /\ a.step # 0 /\ a.strand \in DOMAIN prog.strands /\ a.step = prog.strands[a.strand]
  <2>1. prog \in Programs /\ accesses \subseteq Oracle!Accesses(prog)
    BY DEF Inv
  <2> QED
    BY <2>1, Order
<1>3. prog' \in Programs /\ accesses' \subseteq Oracle!Accesses(prog)'
  BY <1>1, <1>2 DEF Oracle!Accesses
<1>4. /\ (wr_task # 0 => Performed(wr_task, "WRITE"))'
      /\ (r1_task # 0 => Performed(r1_task, "READ"))'
      /\ (r2_task # 0 => Performed(r2_task, "READ"))'
  <2>1. \A s, t : Performed(s, t) => Performed(s, t)'
    BY <1>1 DEF Performed
  <2>2. Performed(a.step, a.type)'
    BY <1>1, <1>2 DEF Performed
  <2>3. /\ wr_task # 0 => Performed(wr_task, "WRITE")
        /\ r1_task # 0 => Performed(r1_task, "READ")
        /\ r2_task # 0 => Performed(r2_task, "READ")
    BY DEF Inv
  <2>4. CASE a.type = "WRITE" /\ wr_task' = a.step /\ UNCHANGED <<r1_task, r2_task>>
    BY <1>1, <1>2, <2>3, <2>4 DEF Performed
  <2>5. CASE a.type # "WRITE" /\ UpdateReaders(a.step) /\ UNCHANGED wr_task
    <3>1. a.type = "READ" /\ r1_task' \in {r1_task, a.step} /\ r2_task' \in {r2_task, a.step, 0}
      BY <1>2, <2>5, ReadersKept
    <3> QED
      BY <1>1, <1>2, <2>3, <2>5, <3>1 DEF Performed
  <2> QED
    BY <1>1, <2>4, <2>5
<1>5. NoFalseRace'
  <2> SUFFICES ASSUME NEW v \in all_violations'
               PROVE  \E x, y \in accesses' :
                         /\ x.step = v.a1.step /\ x.type = v.a1.type
                         /\ y.step = v.a2.step /\ y.type = v.a2.type
                         /\ Oracle!Conflict(prog, x, y)
    BY <1>1 DEF NoFalseRace, Oracle!Conflict, Oracle!AreParallel
  <2>1. PICK r \in Reported(a) :
           v = [a1 |-> [step |-> a.step, type |-> a.type], a2 |-> r]
    BY <1>1
  <2>2. /\ AreParallel(a.step, r.step) /\ "WRITE" \in {a.type, r.type}
        /\ Performed(r.step, r.type)
    BY <1>2, ReportedFacts DEF Inv
  <2>3. PICK y \in accesses : y.step = r.step /\ y.type = r.type
    BY <2>2 DEF Performed
  <2>4. Oracle!Conflict(prog, a, y) /\ y \in accesses' /\ a \in accesses'
    BY <1>1, <1>2, <2>2, <2>3 DEF Oracle!Conflict, AreParallel
  <2>5. /\ v.a1.step = a.step /\ v.a1.type = a.type
        /\ v.a2.step = y.step /\ v.a2.type = y.type
    BY <2>1, <2>3
  <2> QED
    BY <2>4, <2>5
<1>6. ASSUME all_violations' = {}
      PROVE  /\ \A x, y \in Writes' : ~AreParallel(x.step, y.step)
             /\ Writes' # {} => \E b \in Writes' :
                   b.step = wr_task' /\ \A x \in Writes' : NotAfter(x.strand, b.strand)
  <2>1. /\ \A x, y \in Writes : ~AreParallel(x.step, y.step)
        /\ Writes # {} => \E b \in Writes :
              b.step = wr_task /\ \A x \in Writes : NotAfter(x.strand, b.strand)
    BY <1>1 DEF Inv
  <2>2. CASE a.type # "WRITE"
    <3>1. Writes' = Writes /\ wr_task' = wr_task
      BY <1>1, <2>2 DEF Writes
    <3> QED
      BY <2>1, <3>1
  <2>3. CASE a.type = "WRITE"
    <3>1. Writes' = Writes \cup {a} /\ wr_task' = a.step
      BY <1>1, <2>3 DEF Writes
    <3>2. ~Races(a.step, wr_task)
      <4>1. Reported(a) = {}
        BY <1>1, <1>6
      <4> QED
        BY <4>1 DEF Reported
    <3>3. ASSUME NEW x \in Writes
          PROVE  /\ NotAfter(x.strand, a.strand)
                 /\ x.strand \in DOMAIN prog.strands /\ x.step = prog.strands[x.strand]
      <4>1. PICK b \in Writes : /\ b.step = wr_task
                                /\ \A z \in Writes : NotAfter(z.strand, b.strand)
        BY <2>1
      <4>2. /\ \A z \in Writes : /\ z.strand \in DOMAIN prog.strands
                                 /\ z.step = prog.strands[z.strand] /\ z.step \in prog.steps
            /\ prog.steps \subseteq Nat \ {0} /\ DOMAIN prog.strands \subseteq Nat
        BY <1>2, Order DEF Writes
      <4>3. ~AreParallel(a.step, b.step) /\ ~AreParallel(b.step, a.step)
        BY <1>2, <3>2, <4>1, <4>2, Order DEF Races, AreParallel
      <4>4. b.strand <= a.strand
        BY <1>1, <1>2, <4>3 DEF Oracle!MayFollow, AreParallel, Writes
      <4>5. NotAfter(b.strand, a.strand)
        BY <1>2, <4>2, <4>3, <4>4, Order DEF NotAfter
      <4> QED
        BY <1>2, <4>1, <4>2, <4>5, Order DEF NotAfter
    <3>4. \A x \in Writes : ~AreParallel(x.step, a.step) /\ ~AreParallel(a.step, x.step)
      BY <1>2, <3>3, Order DEF NotAfter
    <3>5. ~AreParallel(a.step, a.step)
      BY <1>2, Order
    <3>6. \A x \in Writes' : NotAfter(x.strand, a.strand)
      BY <3>1, <3>3 DEF NotAfter
    <3> QED
      BY <2>1, <3>1, <3>4, <3>5, <3>6
  <2> QED
    BY <2>2, <2>3
<1>7. ASSUME all_violations' = {}
      PROVE  /\ \A x, y \in Writes' : ~AreParallel(x.step, y.step)'
             /\ Writes' # {} => \E b \in Writes' :
                   b.step = wr_task' /\ \A x \in Writes' : NotAfter(x.strand, b.strand)'
  BY <1>1, <1>6, <1>7 DEF AreParallel, Oracle!AreParallel, NotAfter, Precedes, Serial
<1> QED
  BY <1>3, <1>4, <1>5, <1>7 DEF Inv

\* So does every step.
LEMMA StepInv == Inv /\ [Next]_vars => Inv'
<1>1. ASSUME Inv, Next
      PROVE  Inv'
  BY <1>1, RecordMemStep DEF Next
<1>2. ASSUME Inv, UNCHANGED vars
      PROVE  Inv'
  <2>1. UNCHANGED <<prog, accesses, wr_task, r1_task, r2_task, all_violations>>
    BY <1>2 DEF vars
  <2>2. NoFalseRace' <=> NoFalseRace
    BY <2>1 DEF NoFalseRace
  <2>3. Writes' = Writes /\ (\A s, t : Performed(s, t)' <=> Performed(s, t))
        /\ (\A s, t : AreParallel(s, t)' <=> AreParallel(s, t))
        /\ (\A s, t : NotAfter(s, t)' <=> NotAfter(s, t))
        /\ Oracle!Accesses(prog)' = Oracle!Accesses(prog)
    BY <2>1 DEF Writes, Performed, AreParallel, Oracle!AreParallel, NotAfter, Precedes,
                Serial, Oracle!Accesses
  <2> QED
    BY <1>2, <2>1, <2>2, <2>3 DEF Inv, Writes, Performed, AreParallel, Oracle!AreParallel,
                NotAfter, Precedes, Serial
<1> QED
  BY <1>1, <1>2

\* Past writes are not after the kept one, and all reports are real, at all times.
THEOREM Spd3Invariant == Spec => []Inv
<1> QED
  BY InitInv, StepInv, PTL DEF Spec

\* What SPD3 reports are two accesses that were performed and conflict.
THEOREM Spd3ReportsAreTrue == Spec => []NoFalseRace
<1>1. Inv => NoFalseRace
  BY DEF Inv
<1> QED
  BY <1>1, Spd3Invariant, PTL

\* No race of two writes is missed, with one writer kept and for any program and number
\* of accesses.
THEOREM Spd3FindsWriteRaces == Spec => []NoMissedWriteRace
<1>1. Inv => NoMissedWriteRace
  BY DEF Inv, NoMissedWriteRace, Oracle!Racy, Oracle!Conflict, Writes, AreParallel
<1> QED
  BY <1>1, Spd3Invariant, PTL
=============================================================================
