----------------------- MODULE AccessHistory_proofs -----------------------
(***************************************************************************)
(* What AccessHistory forgets is never missed, for all programs whose      *)
(* trees obey DpstLaws, any number of accesses and locksets.               *)
(***************************************************************************)
EXTENDS AccessHistory, Dpst_proofs, FiniteSetTheorems

\* A pair of slots of one type that keeps a step parallel to t.
Cover(p, t) == \E k \in {1, 2} : p[k] # 0 /\ AreParallel(t, p[k])

\* The second slot is used beside a parallel first one only.
GoodPair(p) == p[2] # 0 => p[1] # 0 /\ AreParallel(p[1], p[2])

\* v is a strand of step r, if r is a step.
StrandOf(v, r) == r # 0 => v \in DOMAIN prog.strands /\ prog.strands[v] = r

\* Strand v of step r may run before strand t.
MayPrecede(v, r, t) == r # 0 => v <= t \/ AreParallel(prog.strands[t], r)

Pairs == MaybeStep \X MaybeStep

-----------------------------------------------------------------------------
(* The laws of a DPST, for the program of the behaviour *)

\* What the assumption on programs says of the strands of the one at hand.
LEMMA Laws ==
    ASSUME prog \in Programs
    PROVE  LET all == DOMAIN prog.strands
               at(t) == prog.strands[t]
               par(a, b) == AreParallel(at(a), at(b))
           IN
           /\ prog.steps \subseteq Nat \ {0}
           /\ all \subseteq Nat /\ \A t \in all : at(t) \in prog.steps
           /\ \A a, b : AreParallel(a, b) =>
                 a \in prog.steps /\ b \in prog.steps /\ a # b /\ AreParallel(b, a)
           /\ \A a, b, c \in all :
                 a < b /\ ~par(a, b) /\ b < c /\ ~par(b, c) => ~par(a, c)
           /\ \A a, b, c, d \in all :
                 ~(/\ a < c /\ ~par(a, c) /\ b < c /\ ~par(b, c) /\ b < d /\ ~par(b, d)
                   /\ par(a, b) /\ par(a, d) /\ par(c, d))
           /\ \A x, y, s, t \in all :
                 /\ par(x, y) /\ par(x, s) /\ par(y, s)
                 /\ \A z \in {x, y, s} : z <= t \/ par(t, z)
                 => IF prog.lcaDepth[<<at(x), at(s)>>] < prog.lcaDepth[<<at(x), at(y)>>]
                    THEN par(t, x) => par(t, s) \/ par(t, y)
                    ELSE par(t, s) => par(t, x) \/ par(t, y)
<1> DEFINE all == DOMAIN prog.strands
           at(t) == prog.strands[t]
           par(a, b) == AreParallel(at(a), at(b))
<1>1. DpstLaws(prog)
  BY HistoryAssumption
<1>2. prog.steps \subseteq Nat \ {0} /\ prog.strands \in Seq(prog.steps)
  BY <1>1 DEF DpstLaws
<1>3. all \subseteq Nat /\ \A t \in all : at(t) \in prog.steps
  BY <1>2
<1>4. \A a, b : AreParallel(a, b) =>
         a \in prog.steps /\ b \in prog.steps /\ a # b /\ AreParallel(b, a)
  <2> SUFFICES ASSUME NEW a, NEW b, <<a, b>> \in prog.par
               PROVE  a \in prog.steps /\ b \in prog.steps /\ a # b /\ <<b, a>> \in prog.par
    BY DEF AreParallel, Oracle!AreParallel
  <2>1. prog.par \subseteq prog.steps \X prog.steps
    BY <1>1 DEF DpstLaws
  <2>2. a \in prog.steps /\ b \in prog.steps
    BY <2>1
  <2>3. \A u, v \in prog.steps : <<u, v>> \in prog.par => u # v /\ <<v, u>> \in prog.par
    BY <1>1 DEF DpstLaws
  <2> QED
    BY <2>2, <2>3
<1>5. \A a, b, c \in all :
         a < b /\ ~par(a, b) /\ b < c /\ ~par(b, c) => ~par(a, c)
  BY <1>1 DEF DpstLaws, Serial, AreParallel, Oracle!AreParallel
<1>6. \A a, b, c, d \in all :
         ~(/\ a < c /\ ~par(a, c) /\ b < c /\ ~par(b, c) /\ b < d /\ ~par(b, d)
           /\ par(a, b) /\ par(a, d) /\ par(c, d))
  BY <1>1 DEF DpstLaws, Serial, AreParallel, Oracle!AreParallel
<1>7. ASSUME NEW x \in all, NEW y \in all, NEW s \in all, NEW t \in all,
             par(x, y), par(x, s), par(y, s),
             \A z \in {x, y, s} : z <= t \/ par(t, z)
      PROVE  IF prog.lcaDepth[<<at(x), at(s)>>] < prog.lcaDepth[<<at(x), at(y)>>]
             THEN par(t, x) => par(t, s) \/ par(t, y)
             ELSE par(t, s) => par(t, x) \/ par(t, y)
  <2>1. \A z \in {x, y, s} : ~Serial(prog, t, z)
    <3> SUFFICES ASSUME NEW z \in {x, y, s}, t < z, ~par(t, z)
                 PROVE  FALSE
      BY DEF Serial, AreParallel, Oracle!AreParallel
    <3>1. z <= t
      BY <1>7
    <3> QED
      BY <3>1, <1>3
  <2> QED
    BY <1>1, <1>7, <2>1 DEF DpstLaws, AreParallel, Oracle!AreParallel
<1> QED
  BY <1>2, <1>3, <1>4, <1>5, <1>6, <1>7

-----------------------------------------------------------------------------
(* The laws hold of every tree *)

\* The Answers of any tree obey the laws the history relies on, if steps of one task
\* are serial and the strands run in an order that the tree allows: a step goes on
\* after a root it waited for, and RunInOrder of Dpst says no more.
THEOREM TreesObeyLaws ==
    ASSUME NEW g, WellFormed(g), TaskStepsSerial(g),
           NEW st \in Seq(StepsOf(g)), RunInOrder(g, st),
           NEW p, p.steps = Answers(g).steps, p.par = Answers(g).par,
           p.lcaDepth = Answers(g).lcaDepth, p.strands = st
    PROVE  DpstLaws(p)
<1> DEFINE S == StepsOf(g)
           Q == DOMAIN st
<1>1. /\ p.steps = S
      /\ p.par = {ab \in S \X S : /\ g[ab[1]].taskId # g[ab[2]].taskId
                                  /\ parallel(g, ab[1], ab[2])}
      /\ p.lcaDepth = [ab \in S \X S |-> g[LCA(g, ab[1], ab[2])].depth]
  BY DEF Answers
<1>2. /\ S \subseteq Nat \ {0} /\ S \subseteq Nodes(g)
      /\ \A a \in S : a \in Nat
      /\ \A i \in Q : st[i] \in S
  BY TreeNodes DEF StepsOf, Nodes
<1>3. \A a, b \in S : <<a, b>> \in p.par <=> Par(g, a, b)
  <2> SUFFICES ASSUME NEW a \in S, NEW b \in S
               PROVE  <<a, b>> \in p.par <=> Par(g, a, b)
    OBVIOUS
  <2>1. <<a, b>> \in p.par <=> g[a].taskId # g[b].taskId /\ parallel(g, a, b)
    BY <1>1
  <2>2. a # b /\ g[a].taskId = g[b].taskId => ~parallel(g, a, b)
    BY DEF TaskStepsSerial
  <2> QED
    BY <2>1, <2>2 DEF Par
<1>4. Strands(g, Q, st)
  <2>1. Ordered(g, Q, st)
    BY <1>2, OrderedIs
  <2>2. Q \subseteq Nat
    OBVIOUS
  <2> QED
    BY <1>2, <2>1, <2>2 DEF Strands
<1>5. p.par \subseteq S \X S
  BY <1>1
<1>6. p.lcaDepth \in [S \X S -> Nat]
  <2>1. \A a, b \in S : LCA(g, a, b) \in Nodes(g)
    BY <1>2, ClimbResult
  <2>2. \A a, b \in S : g[LCA(g, a, b)].depth \in Nat
    BY <2>1, TreeNodes
  <2> QED
    BY <1>1, <2>2
<1>7. \A a, b \in S : p.lcaDepth[<<a, b>>] = g[LCA(g, a, b)].depth
  BY <1>1
<1> HIDE DEF S, Q
<1>8. \A a, b \in S : <<a, b>> \in p.par => a # b /\ <<b, a>> \in p.par
  <2>1. \A a, b \in S : Par(g, a, b) => a # b /\ Par(g, b, a)
    BY ParSymmetric DEF S, Par
  <2> QED
    BY <1>3, <2>1
<1>9. \A i, j \in Q : /\ Serial(p, i, j) <=> Runs(g, st, i, j)
                      /\ <<p.strands[i], p.strands[j]>> \in p.par <=> Par(g, st[i], st[j])
  BY <1>2, <1>3 DEF Serial, Runs
<1>10. \A a, b, c \in Q : Serial(p, a, b) /\ Serial(p, b, c) => Serial(p, a, c)
  <2>1. \A a, b, c \in Q : Runs(g, st, a, b) /\ Runs(g, st, b, c) => Runs(g, st, a, c)
    BY <1>4, RunsTransitive
  <2> QED
    BY <1>9, <2>1
<1>11. ASSUME NEW a \in Q, NEW b \in Q, NEW c \in Q, NEW d \in Q,
              Serial(p, a, c), Serial(p, b, c), Serial(p, b, d),
              <<p.strands[a], p.strands[b]>> \in p.par,
              <<p.strands[a], p.strands[d]>> \in p.par,
              <<p.strands[c], p.strands[d]>> \in p.par
       PROVE  FALSE
  <2>1. /\ Runs(g, st, a, c) /\ Runs(g, st, b, c) /\ Runs(g, st, b, d)
        /\ Par(g, st[a], st[b]) /\ Par(g, st[a], st[d]) /\ Par(g, st[c], st[d])
    BY <1>9, <1>11
  <2> QED
    BY <1>4, <2>1, NoN
<1>12. ASSUME NEW x \in Q, NEW y \in Q, NEW s \in Q, NEW t \in Q,
               <<p.strands[x], p.strands[y]>> \in p.par,
               <<p.strands[x], p.strands[s]>> \in p.par,
               <<p.strands[y], p.strands[s]>> \in p.par,
               \A z \in {x, y, s} : ~Serial(p, t, z)
        PROVE  IF p.lcaDepth[<<st[x], st[s]>>] < p.lcaDepth[<<st[x], st[y]>>]
               THEN <<st[t], st[x]>> \in p.par =>
                       <<st[t], st[s]>> \in p.par \/ <<st[t], st[y]>> \in p.par
               ELSE <<st[t], st[s]>> \in p.par =>
                       <<st[t], st[x]>> \in p.par \/ <<st[t], st[y]>> \in p.par
  <2>1. /\ Par(g, st[x], st[y]) /\ Par(g, st[x], st[s]) /\ Par(g, st[y], st[s])
        /\ ~Runs(g, st, t, x) /\ ~Runs(g, st, t, y)
    BY <1>9, <1>12
  <2> DEFINE below == g[LCA(g, st[x], st[s])].depth < g[LCA(g, st[x], st[y])].depth
  <2>2. /\ below /\ Par(g, st[t], st[x]) => Par(g, st[t], st[s]) \/ Par(g, st[t], st[y])
        /\ ~below /\ Par(g, st[t], st[s]) => Par(g, st[t], st[x]) \/ Par(g, st[t], st[y])
    BY <1>4, <2>1, ThirdStep
  <2>3. p.lcaDepth[<<st[x], st[s]>>] < p.lcaDepth[<<st[x], st[y]>>] <=> below
    BY <1>2, <1>7
  <2> HIDE DEF below
  <2>4. \A i, j \in Q : <<st[i], st[j]>> \in p.par <=> Par(g, st[i], st[j])
    BY <1>9
  <2> QED
    BY <2>2, <2>3, <2>4
<1> QED
  BY <1>1, <1>2, <1>5, <1>6, <1>8, <1>10, <1>11, <1>12 DEF DpstLaws, S, Q

-----------------------------------------------------------------------------
(* The two steps kept of one type and lockset *)

\* What UpdatePair makes of pair p for step s, case by case.
LEMMA UpdatePairCases ==
    ASSUME NEW p \in Pairs, NEW s,
           prog \in Programs
    PROVE  LET par(k) == p[k] # 0 /\ AreParallel(s, p[k]) IN
           /\ ~par(1) /\ ~par(2) => UpdatePair(p, s) = <<s, 0>>
           /\ par(1) /\ par(2) =>
                 UpdatePair(p, s) = IF prog.lcaDepth[<<p[1], s>>] < prog.lcaDepth[<<p[1], p[2]>>]
                                    THEN <<s, p[2]>> ELSE p
           /\ par(1) /\ p[2] = 0 => UpdatePair(p, s) = <<p[1], s>>
           /\ par(1) /\ p[2] # 0 /\ ~par(2) => UpdatePair(p, s) = p
           /\ ~par(1) /\ par(2) => UpdatePair(p, s) = p
<1> DEFINE par == [i \in {1, 2} |-> p[i] # 0 /\ AreParallel(s, p[i])]
<1>1. par[1] = (p[1] # 0 /\ AreParallel(s, p[1])) /\ par[2] = (p[2] # 0 /\ AreParallel(s, p[2]))
  OBVIOUS
<1>2. UpdatePair(p, s) =
         IF ~par[1] /\ ~par[2] THEN <<s, 0>>
         ELSE IF par[1] /\ par[2]
              THEN (IF prog.lcaDepth[<<p[1], s>>] < prog.lcaDepth[<<p[1], p[2]>>]
                    THEN <<s, p[2]>> ELSE p)
         ELSE IF p[2] = 0 THEN <<p[1], s>>
         ELSE p
  BY DEF UpdatePair
<1> HIDE DEF par
<1> QED
  BY <1>1, <1>2

\* The invariant of a pair: whatever may still run and is parallel to a step that went
\* into it, is parallel to one of the two that are left.  Strands v and w accessed
\* the steps kept so far, strand i makes the access.
LEMMA UpdatePairCovers ==
    ASSUME prog \in Programs,
           NEW p \in Pairs, GoodPair(p),
           NEW v, NEW w, StrandOf(v, p[1]), StrandOf(w, p[2]),
           NEW i \in DOMAIN prog.strands,
           MayPrecede(v, p[1], i), MayPrecede(w, p[2], i)
    PROVE  LET s == prog.strands[i]
               q == UpdatePair(p, s)
           IN  /\ q \in Pairs
               /\ GoodPair(q)
               /\ \A k \in {1, 2} : q[k] \in {0, s, p[1], p[2]}
               /\ \A t \in DOMAIN prog.strands :
                     /\ MayPrecede(v, p[1], t) /\ MayPrecede(w, p[2], t)
                     /\ i <= t \/ AreParallel(prog.strands[t], s)
                     /\ Cover(p, prog.strands[t]) \/ AreParallel(prog.strands[t], s)
                     => Cover(q, prog.strands[t])
<1> DEFINE x == p[1]
           y == p[2]
           s == prog.strands[i]
           q == UpdatePair(p, s)
           px == x # 0 /\ AreParallel(s, x)
           py == y # 0 /\ AreParallel(s, y)
           higher == prog.lcaDepth[<<x, s>>] < prog.lcaDepth[<<x, y>>]
<1>1. /\ x \in MaybeStep /\ y \in MaybeStep /\ p = <<x, y>>
      /\ prog.steps \subseteq Nat \ {0} /\ s \in Nat /\ s # 0 /\ s \in prog.steps
      /\ i \in Nat /\ DOMAIN prog.strands \subseteq Nat
  BY Laws DEF Pairs, MaybeStep
<1>2. /\ y # 0 => x # 0 /\ AreParallel(x, y)
      /\ x # 0 => /\ x \in prog.steps /\ (v <= i \/ AreParallel(s, x))
                  /\ v \in DOMAIN prog.strands /\ prog.strands[v] = x
      /\ y # 0 => /\ y \in prog.steps /\ (w <= i \/ AreParallel(s, y))
                  /\ w \in DOMAIN prog.strands /\ prog.strands[w] = y
  BY <1>1 DEF GoodPair, MayPrecede, StrandOf, MaybeStep
<1>3. \/ ~px /\ ~py /\ q = <<s, 0>>
      \/ px /\ py /\ higher /\ q = <<s, y>>
      \/ px /\ py /\ ~higher /\ q = <<x, y>>
      \/ px /\ y = 0 /\ q = <<x, s>>
      \/ px /\ y # 0 /\ ~py /\ q = <<x, y>>
      \/ ~px /\ py /\ q = <<x, y>>
  BY <1>1, UpdatePairCases
<1> HIDE DEF q, higher
<1>4. q \in Pairs /\ \A k \in {1, 2} : q[k] \in {0, s, x, y}
  BY <1>1, <1>3 DEF Pairs, MaybeStep
<1>5. GoodPair(q)
  BY <1>1, <1>2, <1>3, Laws DEF GoodPair
<1>6. ASSUME NEW j \in DOMAIN prog.strands, MayPrecede(v, x, j), MayPrecede(w, y, j),
             i <= j \/ AreParallel(prog.strands[j], s),
             Cover(p, prog.strands[j]) \/ AreParallel(prog.strands[j], s)
      PROVE  Cover(q, prog.strands[j])
  <2> DEFINE t == prog.strands[j]
  <2>1. /\ x # 0 => v <= j \/ AreParallel(t, x)
        /\ y # 0 => w <= j \/ AreParallel(t, y)
        /\ \/ x # 0 /\ AreParallel(t, x)
           \/ y # 0 /\ AreParallel(t, y)
           \/ AreParallel(t, s)
        /\ i <= j \/ AreParallel(t, s)
        /\ t \in prog.steps /\ j \in Nat
    BY <1>1, <1>6, Laws DEF MayPrecede, Cover
  <2>2. Cover(q, t) <=> (q[1] # 0 /\ AreParallel(t, q[1])) \/ (q[2] # 0 /\ AreParallel(t, q[2]))
    BY DEF Cover
  <2>3. CASE ~px /\ ~py /\ q = <<s, 0>>
    <3> SUFFICES AreParallel(t, s)
      BY <1>1, <2>2, <2>3
    <3>1. ASSUME NEW z \in DOMAIN prog.strands,
                 AreParallel(t, prog.strands[z]), ~AreParallel(s, prog.strands[z]), z <= i
          PROVE  AreParallel(t, s)
      <4> SUFFICES ASSUME ~AreParallel(t, s) PROVE FALSE
        OBVIOUS
      <4>1. z # i /\ i # j
        BY <3>1
      <4>2. z < i /\ i < j
        BY <1>1, <2>1, <3>1, <4>1
      <4>3. /\ ~AreParallel(prog.strands[z], s) /\ ~AreParallel(s, t)
            /\ AreParallel(prog.strands[z], t)
        BY <3>1, Laws
      <4> QED
        BY <4>2, <4>3, Laws
    <3> QED
      BY <1>2, <2>1, <2>3, <3>1
  <2>4. CASE px /\ py
    <3>1. AreParallel(x, y) /\ AreParallel(x, s) /\ AreParallel(y, s)
      BY <1>2, <2>4, Laws
    <3>2. \A z \in {v, w, i} : z <= j \/ AreParallel(t, prog.strands[z])
      BY <1>2, <2>1, <2>4
    <3>3. IF higher THEN AreParallel(t, x) => AreParallel(t, s) \/ AreParallel(t, y)
          ELSE AreParallel(t, s) => AreParallel(t, x) \/ AreParallel(t, y)
      BY <1>2, <2>4, <3>1, <3>2, Laws DEF higher
    <3> QED
      BY <1>1, <1>3, <2>1, <2>2, <2>4, <3>3
  <2>5. CASE px /\ y = 0 /\ q = <<x, s>>
    BY <1>1, <2>1, <2>2, <2>5
  <2>6. ASSUME NEW m \in DOMAIN prog.strands, NEW n \in DOMAIN prog.strands,
               AreParallel(prog.strands[m], prog.strands[n]),
               AreParallel(s, prog.strands[m]), ~AreParallel(s, prog.strands[n]), n <= i,
               m <= j \/ AreParallel(t, prog.strands[m]),
               n <= j \/ AreParallel(t, prog.strands[n]),
               AreParallel(t, s)
        PROVE  AreParallel(t, prog.strands[m]) \/ AreParallel(t, prog.strands[n])
    <3> SUFFICES ASSUME ~AreParallel(t, prog.strands[m]), ~AreParallel(t, prog.strands[n])
                 PROVE  FALSE
      OBVIOUS
    <3>1. n # i /\ m # j /\ n # j
      BY <2>6, Laws
    <3>2. n < i /\ m < j /\ n < j
      BY <1>1, <2>1, <2>6, <3>1
    <3>3. /\ ~AreParallel(prog.strands[m], t) /\ ~AreParallel(prog.strands[n], t)
          /\ ~AreParallel(prog.strands[n], s) /\ AreParallel(prog.strands[m], s)
      BY <2>6, Laws
    <3> QED
      BY <2>6, <3>2, <3>3, Laws
  <2>7. CASE px /\ y # 0 /\ ~py /\ q = <<x, y>>
    BY <1>1, <1>2, <2>1, <2>2, <2>6, <2>7
  <2>8. CASE ~px /\ py /\ q = <<x, y>>
    <3>1. x # 0 /\ AreParallel(x, y) /\ AreParallel(y, x)
      BY <1>2, <2>8, Laws
    <3> QED
      BY <1>1, <1>2, <2>1, <2>2, <2>6, <2>8, <3>1
  <2> QED
    BY <1>3, <2>3, <2>4, <2>5, <2>7, <2>8
<1> QED
  BY <1>4, <1>5, <1>6 DEF q

-----------------------------------------------------------------------------
(* The invariant *)

\* No overflow entry has an uninitialized pointer: there is none, or it is zeroed.
Initialized == GarbageTasks = {0} \/ Len(entries) <= NumFixed

Tasks == prog.steps \cup GarbageTasks

EntryType == [lockset : prog.locksets, w : Tasks \X Tasks, r : Tasks \X Tasks]

HistoryType ==
    /\ prog \in Programs
    /\ accesses \subseteq Oracle!Accesses(prog)
    /\ entries \in Seq(EntryType)

HistoryInv ==
    /\ HistoryType
    /\ Initialized => WellFormedHistory /\ Covered /\ NoMissedRace /\ NoFalseRace

\* The loops find a race if there is one.
LEMMA FirstRaceIsRace ==
    ASSUME entries \in Seq(EntryType), NEW a, Races(a) # {}
    PROVE  FirstRace(a) \in Races(a)
<1> DEFINE firsts == {u[1] : u \in Races(a)}
<1>1. \A u \in Races(a) : u[1] \in Nat /\ u[2] \in Nat
  BY DEF Races, Slots
<1>2. firsts \in SUBSET Nat /\ firsts # {}
  BY <1>1
<1>3. PICK m \in firsts : \A n \in firsts : m <= n
  BY <1>2, NatMin
<1> DEFINE seconds == {u[2] : u \in {v \in Races(a) : v[1] = m}}
<1>4. seconds \in SUBSET Nat /\ seconds # {}
  BY <1>1, <1>3
<1>5. PICK k \in seconds : \A n \in seconds : k <= n
  BY <1>4, NatMin
<1>6. PICK u \in Races(a) : u[1] = m /\ u[2] = k
  BY <1>5
<1>7. ASSUME NEW v \in Races(a)
      PROVE  u[1] < v[1] \/ (u[1] = v[1] /\ u[2] <= v[2])
  <2>1. m <= v[1] /\ v[1] \in Nat /\ m \in Nat
    BY <1>1, <1>2, <1>3, <1>7
  <2>2. v[1] = m => k <= v[2]
    BY <1>5, <1>7
  <2> QED
    BY <1>6, <2>1, <2>2
<1> QED
  BY <1>7 DEF FirstRace

\* An access is made by a strand, as part of its step.
LEMMA AccessFacts ==
    ASSUME HistoryType
    PROVE  /\ \A a \in Oracle!Accesses(prog) :
                 /\ a.strand \in DOMAIN prog.strands /\ a.step = prog.strands[a.strand]
                 /\ a.step \in prog.steps /\ a.step # 0
                 /\ a.type \in {"READ", "WRITE"} /\ a.held \in prog.locksets
           /\ accesses \subseteq Oracle!Accesses(prog)
<1>1. prog \in Programs /\ accesses \subseteq Oracle!Accesses(prog)
  BY DEF HistoryType
<1>2. ASSUME NEW a \in Oracle!Accesses(prog)
      PROVE  /\ a.strand \in DOMAIN prog.strands /\ a.step = prog.strands[a.strand]
             /\ a.type \in {"READ", "WRITE"} /\ a.held \in prog.locksets
  <2>1. PICK t \in DOMAIN prog.strands, y \in AccessTypes, h \in prog.locksets :
           a = [strand |-> t, step |-> prog.strands[t], type |-> y, held |-> h]
    BY DEF Oracle!Accesses
  <2>2. AccessTypes \subseteq {"READ", "WRITE"}
    BY HistoryAssumption
  <2> QED
    BY <2>1, <2>2
<1>3. prog.steps \subseteq Nat \ {0} /\ \A t \in DOMAIN prog.strands : prog.strands[t] \in prog.steps
  BY <1>1, Laws
<1> QED
  BY <1>1, <1>2, <1>3

\* What is kept has been accessed, so it is a step of the program.
LEMMA KeptAccessed ==
    ASSUME HistoryType, WellFormedHistory, NEW i \in DOMAIN entries, NEW k \in Slots,
           Kept(entries[i], k) # 0
    PROVE  \E b \in accesses :
              /\ b.step = Kept(entries[i], k)
              /\ b.held = entries[i].lockset
              /\ b.type = (IF k <= 2 THEN "WRITE" ELSE "READ")
              /\ b.step \in prog.steps
<1>1. PICK b \in accesses :
         /\ b.step = Kept(entries[i], k) /\ b.held = entries[i].lockset
         /\ b.type = IF k <= 2 THEN "WRITE" ELSE "READ"
  BY DEF WellFormedHistory
<1>2. b.step \in prog.steps
  BY AccessFacts
<1> QED
  BY <1>1, <1>2

\* Hence the pairs are pairs of steps.
LEMMA PairsOfSteps ==
    ASSUME HistoryType, WellFormedHistory, NEW i \in DOMAIN entries
    PROVE  entries[i].w \in Pairs /\ entries[i].r \in Pairs
<1>1. entries[i] \in EntryType
  BY DEF HistoryType
<1>2. /\ entries[i].w = <<entries[i].w[1], entries[i].w[2]>>
      /\ entries[i].r = <<entries[i].r[1], entries[i].r[2]>>
  BY <1>1 DEF EntryType
<1>3. \A k \in Slots : Kept(entries[i], k) \in MaybeStep
  BY KeptAccessed DEF MaybeStep
<1>4. /\ Kept(entries[i], 1) = entries[i].w[1] /\ Kept(entries[i], 2) = entries[i].w[2]
      /\ Kept(entries[i], 3) = entries[i].r[1] /\ Kept(entries[i], 4) = entries[i].r[2]
  BY DEF Kept
<1> QED
  BY <1>2, <1>3, <1>4 DEF Pairs, Slots

-----------------------------------------------------------------------------
(* Entries as two pairs *)

Types == {"READ", "WRITE"}
PairOf(e, type) == IF type = "WRITE" THEN e.w ELSE e.r

\* An access of step r with this lockset and type was performed.
Performed(r, held, type) == \E b \in accesses : b.step = r /\ b.held = held /\ b.type = type

\* The parts of WellFormedHistory, of the pairs.
DistinctLocksets ==
    \A i, j \in DOMAIN entries : i # j => entries[i].lockset # entries[j].lockset
KeptArePerformed ==
    \A i \in DOMAIN entries, type \in Types, k \in {1, 2} :
       PairOf(entries[i], type)[k] # 0 =>
          Performed(PairOf(entries[i], type)[k], entries[i].lockset, type)
GoodPairs == \A i \in DOMAIN entries, type \in Types : GoodPair(PairOf(entries[i], type))

\* Covered, of the pairs.
CoveredBy(b, i) ==
    /\ entries[i].lockset = b.held
    /\ \A t \in DOMAIN prog.strands :
          Oracle!MayFollow(prog, accesses, t) /\ AreParallel(prog.strands[t], b.step)
          => Cover(PairOf(entries[i], b.type), prog.strands[t])
AllCovered == \A b \in accesses : \E i \in DOMAIN entries : CoveredBy(b, i)

\* WellFormedHistory, said pair by pair.
LEMMA WellFormedPairs ==
    WellFormedHistory <=> DistinctLocksets /\ KeptArePerformed /\ GoodPairs
<1>1. ASSUME NEW i \in DOMAIN entries
      PROVE  /\ (\A k \in Slots : Kept(entries[i], k) # 0 =>
                    Performed(Kept(entries[i], k), entries[i].lockset,
                              IF k <= 2 THEN "WRITE" ELSE "READ"))
                <=>
                (\A type \in Types, k \in {1, 2} : PairOf(entries[i], type)[k] # 0 =>
                    Performed(PairOf(entries[i], type)[k], entries[i].lockset, type))
             /\ (\A p \in {entries[i].w, entries[i].r} :
                    p[2] # 0 => p[1] # 0 /\ AreParallel(p[1], p[2]))
                <=> (\A type \in Types : GoodPair(PairOf(entries[i], type)))
  <2>1. /\ Kept(entries[i], 1) = PairOf(entries[i], "WRITE")[1]
        /\ Kept(entries[i], 2) = PairOf(entries[i], "WRITE")[2]
        /\ Kept(entries[i], 3) = PairOf(entries[i], "READ")[1]
        /\ Kept(entries[i], 4) = PairOf(entries[i], "READ")[2]
    BY DEF Kept, PairOf
  <2>2. Slots = {1, 2, 3, 4}
    BY DEF Slots
  <2>3. (\A k \in Slots : Kept(entries[i], k) # 0 =>
                    Performed(Kept(entries[i], k), entries[i].lockset,
                              IF k <= 2 THEN "WRITE" ELSE "READ"))
        <=> \A type \in Types, k \in {1, 2} : PairOf(entries[i], type)[k] # 0 =>
                    Performed(PairOf(entries[i], type)[k], entries[i].lockset, type)
    BY <2>1, <2>2 DEF Types
  <2>4. (\A p \in {entries[i].w, entries[i].r} :
                    p[2] # 0 => p[1] # 0 /\ AreParallel(p[1], p[2]))
                <=> (\A type \in Types : GoodPair(PairOf(entries[i], type)))
    BY DEF GoodPair, PairOf, Types
  <2> QED
    BY <2>3, <2>4
<1> QED
  BY <1>1 DEF WellFormedHistory, DistinctLocksets, KeptArePerformed, GoodPairs, Performed

\* Covered, said pair by pair.
LEMMA CoveredPairs ==
    HistoryType => (Covered <=> (all_violations = {} => AllCovered))
<1>1. ASSUME NEW b \in accesses, NEW i \in DOMAIN entries, NEW t
      PROVE  (\E k \in (IF b.type = "WRITE" THEN {1, 2} ELSE {3, 4}) :
                 Kept(entries[i], k) # 0 /\ AreParallel(t, Kept(entries[i], k)))
             <=> Cover(PairOf(entries[i], b.type), t)
  <2>1. CASE b.type = "WRITE"
    BY <2>1 DEF Kept, PairOf, Cover
  <2>2. CASE b.type # "WRITE"
    BY <2>2 DEF Kept, PairOf, Cover
  <2> QED
    BY <2>1, <2>2
<1> QED
  BY <1>1 DEF Covered, AllCovered, CoveredBy

-----------------------------------------------------------------------------
(* One access *)

\* If the kept accesses do not race with an access, no forgotten one does.
LEMMA NoForgottenRace ==
    ASSUME HistoryType, AllCovered,
           NEW a \in Oracle!Accesses(prog), Oracle!MayFollow(prog, accesses, a.strand),
           Races(a) = {}, NEW b \in accesses
    PROVE  ~Oracle!Conflict(prog, a, b) /\ ~Oracle!Conflict(prog, b, a)
<1> SUFFICES ASSUME "WRITE" \in {a.type, b.type}, a.held \cap b.held = {},
                    AreParallel(a.step, b.step)
             PROVE  FALSE
  <2>1. prog \in Programs
    BY DEF HistoryType
  <2> QED
    BY <2>1, Laws DEF Oracle!Conflict, AreParallel
<1>1. PICK i \in DOMAIN entries : CoveredBy(b, i)
  BY DEF AllCovered
<1>2. a.strand \in DOMAIN prog.strands /\ a.step = prog.strands[a.strand]
  BY AccessFacts
<1>3. PICK k \in {1, 2} : /\ PairOf(entries[i], b.type)[k] # 0
                          /\ AreParallel(a.step, PairOf(entries[i], b.type)[k])
  BY <1>1, <1>2 DEF CoveredBy, Cover
<1>4. entries[i].lockset \cap a.held = {}
  BY <1>1 DEF CoveredBy
<1>5. CASE b.type = "WRITE"
  <2>1. Kept(entries[i], k) = PairOf(entries[i], b.type)[k]
    BY <1>5 DEF Kept, PairOf
  <2>2. <<i, k>> \in Races(a)
    BY <1>3, <1>4, <2>1 DEF Races, Slots
  <2> QED
    BY <2>2
<1>6. CASE b.type # "WRITE"
  <2>1. Kept(entries[i], k + 2) = PairOf(entries[i], b.type)[k] /\ k + 2 \in {3, 4}
    BY <1>6 DEF Kept, PairOf
  <2>2. <<i, k + 2>> \in Races(a)
    BY <1>3, <1>4, <1>6, <2>1 DEF Races, Slots
  <2> QED
    BY <2>2
<1> QED
  BY <1>5, <1>6

\* An access that races leaves a true report.
LEMMA RaceIsTrue ==
    ASSUME HistoryType, WellFormedHistory, NEW a \in Oracle!Accesses(prog),
           NEW u \in Races(a)
    PROVE  \E b \in accesses :
              /\ b.step = Kept(entries[u[1]], u[2])
              /\ b.type = (IF u[2] <= 2 THEN "WRITE" ELSE "READ")
              /\ Oracle!Conflict(prog, a, b)
<1>1. /\ u[1] \in DOMAIN entries /\ u[2] \in Slots
      /\ entries[u[1]].lockset \cap a.held = {}
      /\ u[2] <= 2 \/ a.type = "WRITE"
      /\ Kept(entries[u[1]], u[2]) # 0
      /\ AreParallel(a.step, Kept(entries[u[1]], u[2]))
  BY DEF Races
<1>2. PICK b \in accesses :
         /\ b.step = Kept(entries[u[1]], u[2])
         /\ b.held = entries[u[1]].lockset
         /\ b.type = (IF u[2] <= 2 THEN "WRITE" ELSE "READ")
  BY <1>1, KeptAccessed
<1>3. Oracle!Conflict(prog, a, b)
  BY <1>1, <1>2 DEF Oracle!Conflict, AreParallel
<1> QED
  BY <1>2, <1>3

\* What both cases of Remember have in common: one pair takes in the access, all others
\* stay, and a lockset has no second entry.
TakesIn(i, a) ==
    /\ i \in DOMAIN entries'
    /\ DOMAIN entries \cup {i} = DOMAIN entries'
    /\ \A j \in DOMAIN entries \ {i} : entries'[j] = entries[j]
    /\ entries'[i].lockset = a.held
    /\ \A j \in DOMAIN entries : entries[j].lockset = a.held <=> j = i
    /\ \A type \in Types \ {a.type} :
          PairOf(entries'[i], type) =
             IF i \in DOMAIN entries THEN PairOf(entries[i], type) ELSE <<0, 0>>
    /\ PairOf(entries'[i], a.type) =
          UpdatePair(IF i \in DOMAIN entries THEN PairOf(entries[i], a.type) ELSE <<0, 0>>,
                     a.step)

\* Whoever Remember writes to takes the access in.
LEMMA RememberTakesIn ==
    ASSUME HistoryType, DistinctLocksets, NEW a \in Oracle!Accesses(prog),
           Remember(a),
           FreshTasks = {0} \/ \E i \in DOMAIN entries : entries[i].lockset = a.held
    PROVE  \E i \in Nat : TakesIn(i, a)
<1>1. a.type \in Types /\ a.step # 0
  BY AccessFacts DEF Types
<1> DEFINE same == {i \in DOMAIN entries : entries[i].lockset = a.held}
<1>2. CASE same # {}
  <2>1. PICK i \in same : entries' = [entries EXCEPT ![i] = UpdateEntry(@, a)]
    BY <1>2 DEF Remember
  <2>2. /\ i \in DOMAIN entries /\ entries[i].lockset = a.held /\ DOMAIN entries' = DOMAIN entries
        /\ entries'[i] = UpdateEntry(entries[i], a)
        /\ \A j \in DOMAIN entries \ {i} : entries'[j] = entries[j]
    BY <2>1
  <2>3. \A j \in DOMAIN entries : entries[j].lockset = a.held <=> j = i
    BY <2>2 DEF DistinctLocksets
  <2>4. entries[i] \in EntryType
    BY <2>2 DEF HistoryType
  <2>5. CASE a.type = "WRITE"
    <3>1. entries'[i] = [entries[i] EXCEPT !.w = UpdatePair(entries[i].w, a.step)]
      BY <2>2, <2>5 DEF UpdateEntry
    <3>2. /\ entries'[i].lockset = entries[i].lockset /\ entries'[i].r = entries[i].r
          /\ entries'[i].w = UpdatePair(entries[i].w, a.step)
      BY <2>4, <3>1 DEF EntryType
    <3>3. i \in Nat
      BY <2>2 DEF HistoryType
    <3> QED
      BY <2>2, <2>3, <2>5, <3>2, <3>3 DEF TakesIn, PairOf, Types
  <2>6. CASE a.type = "READ"
    <3>1. entries'[i] = [entries[i] EXCEPT !.r = UpdatePair(entries[i].r, a.step)]
      BY <2>2, <2>6 DEF UpdateEntry
    <3>2. /\ entries'[i].lockset = entries[i].lockset /\ entries'[i].w = entries[i].w
          /\ entries'[i].r = UpdatePair(entries[i].r, a.step)
      BY <2>4, <3>1 DEF EntryType
    <3>3. i \in Nat
      BY <2>2 DEF HistoryType
    <3> QED
      BY <2>2, <2>3, <2>6, <3>2, <3>3 DEF TakesIn, PairOf, Types
  <2> QED
    BY <1>1, <2>5, <2>6 DEF Types
<1>3. CASE same = {}
  <2>1. entries' = Append(entries, FirstUse(a, 0, 0, 0, 0))
    BY <1>3 DEF Remember
  <2> DEFINE i == Len(entries) + 1
  <2>2. entries \in Seq(EntryType)
    BY DEF HistoryType
  <2>3. /\ i \in DOMAIN entries' /\ i \notin DOMAIN entries /\ i \in Nat
        /\ DOMAIN entries' = DOMAIN entries \cup {i}
        /\ entries'[i] = FirstUse(a, 0, 0, 0, 0)
        /\ \A j \in DOMAIN entries \ {i} : entries'[j] = entries[j]
    BY <2>1, <2>2
  <2> HIDE DEF i
  <2>4. /\ entries'[i].lockset = a.held
        /\ entries'[i].w = <<IF a.type = "WRITE" THEN a.step ELSE 0, 0>>
        /\ entries'[i].r = <<IF a.type = "READ" THEN a.step ELSE 0, 0>>
    BY <2>3 DEF FirstUse
  <2>5. UpdatePair(<<0, 0>>, a.step) = <<a.step, 0>>
    BY DEF UpdatePair
  <2>6. \A j \in DOMAIN entries : entries[j].lockset # a.held
    BY <1>3
  <2> QED
    BY <1>1, <2>3, <2>4, <2>5, <2>6 DEF TakesIn, PairOf, Types
<1> QED
  BY <1>2, <1>3

\* The history keeps covering the accesses when it takes one in.
LEMMA TakesInKeeps ==
    ASSUME HistoryType, DistinctLocksets, KeptArePerformed, GoodPairs, AllCovered,
           NEW a \in Oracle!Accesses(prog), Oracle!MayFollow(prog, accesses, a.strand),
           accesses' = accesses \cup {a}, prog' = prog,
           NEW i \in Nat, TakesIn(i, a)
    PROVE  DistinctLocksets' /\ KeptArePerformed' /\ GoodPairs' /\ AllCovered'
<1> DEFINE old(type) == IF i \in DOMAIN entries THEN PairOf(entries[i], type) ELSE <<0, 0>>
<1>1. /\ a.type \in Types /\ a.step \in prog.steps /\ prog \in Programs
      /\ a.strand \in DOMAIN prog.strands /\ a.step = prog.strands[a.strand]
  BY AccessFacts DEF HistoryType, Types
<1>2. DistinctLocksets'
  BY DEF DistinctLocksets, TakesIn
<1>3. ASSUME NEW type \in Types
      PROVE  old(type) \in Pairs /\ GoodPair(old(type))
  <2>1. CASE i \notin DOMAIN entries
    BY <2>1 DEF Pairs, MaybeStep, GoodPair
  <2>2. CASE i \in DOMAIN entries
    <3>1. PairOf(entries[i], type) \in Pairs
      BY <2>2, PairsOfSteps, WellFormedPairs DEF PairOf
    <3> QED
      BY <1>3, <2>2, <3>1 DEF GoodPairs
  <2> QED
    BY <2>1, <2>2
<1>4. \A type \in Types, k \in {1, 2} : old(type)[k] # 0 => Performed(old(type)[k], a.held, type)
  <2>1. CASE i \notin DOMAIN entries
    BY <2>1
  <2>2. CASE i \in DOMAIN entries
    BY <2>2 DEF KeptArePerformed, TakesIn
  <2> QED
    BY <2>1, <2>2
<1>5. ASSUME NEW k \in {1, 2}
      PROVE  \E v : /\ StrandOf(v, old(a.type)[k])
                    /\ \A t : Oracle!MayFollow(prog, accesses, t) => MayPrecede(v, old(a.type)[k], t)
  <2> DEFINE r == old(a.type)[k]
  <2>1. r # 0 => Performed(r, a.held, a.type)
    BY <1>1, <1>4
  <2> HIDE DEF r
  <2>2. CASE r = 0
    BY <2>2 DEF StrandOf, MayPrecede, r
  <2>3. CASE r # 0
    <3>1. PICK b \in accesses : b.step = r
      BY <2>1, <2>3 DEF Performed
    <3>2. b.strand \in DOMAIN prog.strands /\ b.step = prog.strands[b.strand]
      BY AccessFacts
    <3>3. StrandOf(b.strand, r)
      BY <3>1, <3>2 DEF StrandOf
    <3>4. \A t : Oracle!MayFollow(prog, accesses, t) => MayPrecede(b.strand, r, t)
      BY <3>1 DEF Oracle!MayFollow, MayPrecede, AreParallel
    <3> QED
      BY <3>3, <3>4 DEF r
  <2> QED
    BY <2>2, <2>3
<1>6. PICK v : /\ StrandOf(v, old(a.type)[1])
               /\ \A t : Oracle!MayFollow(prog, accesses, t) => MayPrecede(v, old(a.type)[1], t)
  BY <1>5
<1>7. PICK w : /\ StrandOf(w, old(a.type)[2])
               /\ \A t : Oracle!MayFollow(prog, accesses, t) => MayPrecede(w, old(a.type)[2], t)
  BY <1>5
<1> DEFINE new == UpdatePair(old(a.type), a.step)
<1>8. /\ GoodPair(new)
      /\ \A k \in {1, 2} : new[k] \in {0, a.step, old(a.type)[1], old(a.type)[2]}
      /\ \A t \in DOMAIN prog.strands :
            /\ MayPrecede(v, old(a.type)[1], t) /\ MayPrecede(w, old(a.type)[2], t)
            /\ a.strand <= t \/ AreParallel(prog.strands[t], a.step)
            /\ Cover(old(a.type), prog.strands[t]) \/ AreParallel(prog.strands[t], a.step)
            => Cover(new, prog.strands[t])
  <2> DEFINE p == old(a.type)
  <2>1. /\ p \in Pairs /\ GoodPair(p) /\ StrandOf(v, p[1]) /\ StrandOf(w, p[2])
        /\ MayPrecede(v, p[1], a.strand) /\ MayPrecede(w, p[2], a.strand)
    BY <1>1, <1>3, <1>6, <1>7
  <2> HIDE DEF p
  <2>2. /\ GoodPair(UpdatePair(p, a.step))
        /\ \A k \in {1, 2} : UpdatePair(p, a.step)[k] \in {0, a.step, p[1], p[2]}
        /\ \A t \in DOMAIN prog.strands :
              /\ MayPrecede(v, p[1], t) /\ MayPrecede(w, p[2], t)
              /\ a.strand <= t \/ AreParallel(prog.strands[t], a.step)
              /\ Cover(p, prog.strands[t]) \/ AreParallel(prog.strands[t], a.step)
              => Cover(UpdatePair(p, a.step), prog.strands[t])
    BY <1>1, <2>1, UpdatePairCovers
  <2> QED
    BY <2>2 DEF p
<1> HIDE DEF new
<1>9. \A t \in DOMAIN prog.strands :
         /\ Oracle!MayFollow(prog, accesses, t)
         /\ a.strand <= t \/ AreParallel(prog.strands[t], a.step)
         /\ Cover(old(a.type), prog.strands[t]) \/ AreParallel(prog.strands[t], a.step)
         => Cover(new, prog.strands[t])
  BY <1>6, <1>7, <1>8
<1>10. /\ PairOf(entries'[i], a.type) = new
      /\ \A type \in Types \ {a.type} : PairOf(entries'[i], type) = old(type)
  BY DEF TakesIn, new
<1>11. GoodPairs'
  <2> SUFFICES ASSUME NEW j \in DOMAIN entries', NEW type \in Types
               PROVE  GoodPair(PairOf(entries'[j], type))
    BY DEF GoodPairs, GoodPair, AreParallel
  <2>1. CASE j # i
    BY <2>1 DEF TakesIn, GoodPairs
  <2>2. CASE j = i
    BY <1>1, <1>3, <1>8, <1>10, <2>2
  <2> QED
    BY <2>1, <2>2
<1>12. KeptArePerformed'
  <2> SUFFICES ASSUME NEW j \in DOMAIN entries', NEW type \in Types, NEW k \in {1, 2},
                      PairOf(entries'[j], type)[k] # 0
               PROVE  \E b \in accesses' : /\ b.step = PairOf(entries'[j], type)[k]
                                           /\ b.held = entries'[j].lockset /\ b.type = type
    BY DEF KeptArePerformed, Performed, PairOf
  <2>1. CASE j # i
    <3>1. j \in DOMAIN entries /\ entries'[j] = entries[j]
      BY <2>1 DEF TakesIn
    <3>2. PairOf(entries[j], type)[k] # 0
      BY <3>1
    <3>3. Performed(PairOf(entries[j], type)[k], entries[j].lockset, type)
      BY <3>1, <3>2 DEF KeptArePerformed
    <3> QED
      BY <3>1, <3>3 DEF Performed
  <2>2. CASE j = i /\ type # a.type
    <3>1. PairOf(entries'[j], type)[k] = old(type)[k] /\ entries'[j].lockset = a.held
      BY <1>10, <2>2 DEF TakesIn
    <3>2. Performed(old(type)[k], a.held, type)
      BY <1>4, <3>1
    <3> QED
      BY <3>1, <3>2 DEF Performed
  <2>3. CASE j = i /\ type = a.type
    <3>1. PairOf(entries'[j], type)[k] = new[k] /\ entries'[j].lockset = a.held
      BY <1>10, <2>3 DEF TakesIn
    <3>2. \/ new[k] = a.step
          \/ \E l \in {1, 2} : new[k] = old(a.type)[l] /\ Performed(old(a.type)[l], a.held, a.type)
      BY <1>1, <1>4, <1>8, <3>1
    <3> QED
      BY <2>3, <3>1, <3>2 DEF Performed
  <2> QED
    BY <2>1, <2>2, <2>3
<1>13. ASSUME NEW t \in DOMAIN prog.strands, Oracle!MayFollow(prog, accesses', t)
      PROVE  /\ Oracle!MayFollow(prog, accesses, t)
             /\ a.strand <= t \/ AreParallel(prog.strands[t], a.step)
  BY <1>13 DEF Oracle!MayFollow, AreParallel
<1>14. ASSUME NEW b \in accesses'
       PROVE  \E j \in DOMAIN entries' : CoveredBy(b, j)'
  <2>1. CASE b \in accesses /\ b.held # a.held
    <3>1. PICK j \in DOMAIN entries : CoveredBy(b, j)
      BY <2>1 DEF AllCovered
    <3>2. j \in DOMAIN entries' /\ entries'[j] = entries[j]
      BY <2>1, <3>1 DEF CoveredBy, TakesIn
    <3> QED
      BY <1>13, <3>1, <3>2 DEF CoveredBy, Cover, AreParallel
  <2>2. CASE b \in accesses /\ b.held = a.held
    <3>1. i \in DOMAIN entries /\ CoveredBy(b, i)
      BY <2>2 DEF AllCovered, CoveredBy, TakesIn
    <3>2. b.type \in Types
      BY <2>2, AccessFacts DEF Types
    <3>3. ASSUME NEW t \in DOMAIN prog.strands, Oracle!MayFollow(prog, accesses', t),
                 AreParallel(prog.strands[t], b.step)
          PROVE  Cover(PairOf(entries'[i], b.type), prog.strands[t])
      <4>1. Cover(old(b.type), prog.strands[t])
        BY <1>13, <3>1, <3>3 DEF CoveredBy
      <4>2. CASE b.type # a.type
        BY <1>10, <3>2, <4>1, <4>2
      <4>3. CASE b.type = a.type
        BY <1>9, <1>10, <1>13, <3>3, <4>1, <4>3
      <4> QED
        BY <4>2, <4>3
    <3>4. i \in DOMAIN entries' /\ entries'[i].lockset = b.held
      BY <2>2 DEF TakesIn
    <3> QED
      BY <3>3, <3>4 DEF CoveredBy, Cover, AreParallel
  <2>3. CASE b = a
    <3>1. ASSUME NEW t \in DOMAIN prog.strands, Oracle!MayFollow(prog, accesses', t),
                 AreParallel(prog.strands[t], a.step)
          PROVE  Cover(PairOf(entries'[i], a.type), prog.strands[t])
      BY <1>9, <1>10, <1>13, <3>1
    <3>2. i \in DOMAIN entries' /\ entries'[i].lockset = a.held
      BY DEF TakesIn
    <3> QED
      BY <2>3, <3>1, <3>2 DEF CoveredBy, Cover, AreParallel
  <2> QED
    BY <2>1, <2>2, <2>3
<1> QED
  BY <1>2, <1>11, <1>12, <1>14 DEF AllCovered

-----------------------------------------------------------------------------
(* The invariant is inductive *)

\* Types do not depend on what a pointer that is not initialized holds.
LEMMA StepType ==
    ASSUME HistoryType, NEW a \in Oracle!Accesses(prog), RecordMem(a)
    PROVE  /\ HistoryType'
           /\ Len(entries) <= Len(entries')
           /\ Len(entries) = Len(entries') \/ Len(entries') = Len(entries) + 1
<1>1. prog' = prog /\ accesses' = accesses \cup {a} /\ Tasks' = Tasks /\ EntryType' = EntryType
  BY DEF RecordMem, Tasks, EntryType
<1>2. 0 \in Tasks /\ a.step \in Tasks /\ a.held \in prog.locksets /\ FreshTasks \subseteq Tasks
  BY HistoryAssumption, AccessFacts DEF Tasks, FreshTasks
<1>3. ASSUME NEW p \in Tasks \X Tasks
      PROVE  UpdatePair(p, a.step) \in Tasks \X Tasks
  BY <1>2 DEF UpdatePair
<1>4. ASSUME NEW e \in EntryType
      PROVE  UpdateEntry(e, a) \in EntryType
  BY <1>3 DEF UpdateEntry, EntryType
<1>5. ASSUME NEW w1 \in FreshTasks, NEW w2 \in FreshTasks,
             NEW r1 \in FreshTasks, NEW r2 \in FreshTasks
      PROVE  FirstUse(a, w1, w2, r1, r2) \in EntryType
  BY <1>2 DEF FirstUse, EntryType
<1>6. \/ entries' = entries
      \/ \E i \in DOMAIN entries : entries' = [entries EXCEPT ![i] = UpdateEntry(@, a)]
      \/ \E w1, w2, r1, r2 \in FreshTasks :
            entries' = Append(entries, FirstUse(a, w1, w2, r1, r2))
  BY DEF RecordMem, Remember
<1>7. entries \in Seq(EntryType)
  BY DEF HistoryType
<1>8. CASE entries' = entries
  BY <1>1, <1>7, <1>8 DEF HistoryType
<1>9. CASE \E i \in DOMAIN entries : entries' = [entries EXCEPT ![i] = UpdateEntry(@, a)]
  <2>1. PICK i \in DOMAIN entries : entries' = [entries EXCEPT ![i] = UpdateEntry(@, a)]
    BY <1>9
  <2>2. entries[i] \in EntryType
    BY <1>7
  <2>3. UpdateEntry(entries[i], a) \in EntryType
    BY <1>4, <2>2
  <2>4. entries' \in Seq(EntryType) /\ Len(entries') = Len(entries)
    BY <1>7, <2>1, <2>3
  <2> QED
    BY <1>1, <1>7, <2>4 DEF HistoryType
<1>10. CASE \E w1, w2, r1, r2 \in FreshTasks :
               entries' = Append(entries, FirstUse(a, w1, w2, r1, r2))
  <2>1. PICK e \in EntryType : entries' = Append(entries, e)
    BY <1>5, <1>10
  <2>2. entries' \in Seq(EntryType) /\ Len(entries') = Len(entries) + 1 /\ Len(entries) \in Nat
    BY <1>7, <2>1
  <2> QED
    BY <1>1, <2>2 DEF HistoryType
<1> QED
  BY <1>6, <1>8, <1>9, <1>10

\* An empty history satisfies the invariant.
LEMMA InitHistory == Init => HistoryInv
<1> SUFFICES ASSUME Init
             PROVE  HistoryInv
  OBVIOUS
<1> USE DEF Init
<1>1. HistoryType
  BY DEF HistoryType
<1>2. WellFormedHistory /\ Covered /\ NoFalseRace
  BY DEF WellFormedHistory, Covered, NoFalseRace
<1>3. NoMissedRace
  BY DEF NoMissedRace, Oracle!Racy
<1> QED
  BY <1>1, <1>2, <1>3 DEF HistoryInv

\* RecordMem and RecordAccess keep the history complete and truthful.
LEMMA RecordMemKeeps ==
    ASSUME HistoryInv, NEW a \in Oracle!Accesses(prog), RecordMem(a)
    PROVE  HistoryInv'
<1>1. HistoryType /\ HistoryType'
  BY StepType DEF HistoryInv
<1> SUFFICES ASSUME Initialized'
             PROVE  (WellFormedHistory /\ Covered /\ NoMissedRace /\ NoFalseRace)'
  BY <1>1 DEF HistoryInv
<1>2. entries \in Seq(EntryType) /\ Len(entries) \in Nat /\ Len(entries') \in Nat
  BY <1>1 DEF HistoryType
<1>3. Initialized
  BY <1>2, StepType, <1>1, HistoryAssumption DEF Initialized
<1>4. WellFormedHistory /\ AllCovered /\ NoMissedRace
      /\ DistinctLocksets /\ KeptArePerformed /\ GoodPairs
  <2>1. WellFormedHistory /\ Covered /\ NoMissedRace
    BY <1>3 DEF HistoryInv
  <2>2. all_violations = {}
    BY DEF RecordMem
  <2> QED
    BY <1>1, <2>1, <2>2, WellFormedPairs, CoveredPairs
<1>5. /\ all_violations = {} /\ prog' = prog /\ accesses' = accesses \cup {a}
      /\ Oracle!MayFollow(prog, accesses, a.strand)
      /\ prog \in Programs
  BY <1>1 DEF RecordMem, HistoryType
<1>6. /\ (WellFormedHistory <=> DistinctLocksets /\ KeptArePerformed /\ GoodPairs)'
      /\ (HistoryType => (Covered <=> (all_violations = {} => AllCovered)))'
  BY WellFormedPairs, CoveredPairs, PTL
<1>7. CASE Races(a) # {}
  <2> DEFINE u == FirstRace(a)
  <2>1. u \in Races(a)
    BY <1>2, <1>7, FirstRaceIsRace
  <2> HIDE DEF u
  <2>2. /\ all_violations' =
              {[a1 |-> [step |-> a.step, type |-> a.type],
                a2 |-> [step |-> Kept(entries[u[1]], u[2]),
                        type |-> IF u[2] <= 2 THEN "WRITE" ELSE "READ"]]}
        /\ entries' = entries
    BY <1>7 DEF RecordMem, u
  <2>3. PICK b \in accesses :
              /\ b.step = Kept(entries[u[1]], u[2])
              /\ b.type = (IF u[2] <= 2 THEN "WRITE" ELSE "READ")
              /\ Oracle!Conflict(prog, a, b)
    BY <1>1, <1>4, <2>1, RaceIsTrue
  <2>4. NoFalseRace'
    <3>1. a \in accesses' /\ b \in accesses' /\ Oracle!Conflict(prog', a, b)
      BY <1>5, <2>3
    <3>2. ASSUME NEW v \in all_violations'
          PROVE  /\ a.step = v.a1.step /\ a.type = v.a1.type
                 /\ b.step = v.a2.step /\ b.type = v.a2.type
      BY <2>2, <2>3, <3>2
    <3> QED
      BY <3>1, <3>2 DEF NoFalseRace
  <2>5. WellFormedHistory'
    <3>1. /\ DistinctLocksets' /\ GoodPairs'
          /\ KeptArePerformed'
      BY <1>4, <1>5, <2>2 DEF DistinctLocksets, KeptArePerformed, GoodPairs, GoodPair, AreParallel,
                             PairOf, Performed
    <3> QED
      BY <1>6, <3>1
  <2>6. all_violations' # {}
    BY <2>2
  <2> QED
    BY <2>4, <2>5, <2>6 DEF Covered, NoMissedRace
<1>8. CASE Races(a) = {}
  <2>1. Remember(a) /\ all_violations' = {}
    BY <1>5, <1>8 DEF RecordMem
  <2>2. FreshTasks = {0} \/ Len(entries') # Len(entries) + 1
    BY <1>2, HistoryAssumption DEF Initialized, FreshTasks
  <2>3. \E i \in Nat : TakesIn(i, a)
    <3>1. CASE FreshTasks = {0}
      BY <1>1, <1>4, <2>1, <3>1, RememberTakesIn
    <3>2. CASE Len(entries') # Len(entries) + 1
      <4>1. \A e : Len(Append(entries, e)) = Len(entries) + 1
        BY <1>2
      <4>2. \E i \in DOMAIN entries : entries[i].lockset = a.held
        BY <2>1, <3>2, <4>1 DEF Remember
      <4> QED
        BY <1>1, <1>4, <2>1, <4>2, RememberTakesIn
    <3> QED
      BY <2>2, <3>1, <3>2
  <2>4. (DistinctLocksets /\ KeptArePerformed /\ GoodPairs /\ AllCovered)'
    BY <1>1, <1>4, <1>5, <2>3, TakesInKeeps
  <2>5. WellFormedHistory' /\ Covered'
    BY <1>1, <1>6, <2>4
  <2>6. NoFalseRace'
    BY <2>1 DEF NoFalseRace
  <2>7. NoMissedRace'
    <3>1. ~Oracle!Racy(prog, accesses)
      BY <1>4, <1>5 DEF NoMissedRace
    <3>2. \A b \in accesses : ~Oracle!Conflict(prog, a, b) /\ ~Oracle!Conflict(prog, b, a)
      BY <1>1, <1>4, <1>5, <1>8, NoForgottenRace
    <3>3. ~Oracle!Conflict(prog, a, a)
      BY <1>5, Laws DEF Oracle!Conflict, AreParallel
    <3> QED
      BY <1>5, <3>1, <3>2, <3>3 DEF NoMissedRace, Oracle!Racy, Oracle!Conflict, Oracle!AreParallel
  <2> QED
    BY <2>5, <2>6, <2>7
<1> QED
  BY <1>7, <1>8

\* Every RecordMem keeps the invariant.
LEMMA InductiveStep == HistoryInv /\ [Next]_vars => HistoryInv'
<1> SUFFICES ASSUME HistoryInv, [Next]_vars
             PROVE  HistoryInv'
  OBVIOUS
<1>1. CASE Next
  BY <1>1, RecordMemKeeps DEF Next
<1>2. CASE UNCHANGED vars
  <2>1. UNCHANGED <<prog, accesses, entries, all_violations>>
    BY <1>2 DEF vars
  <2>2. HistoryType' /\ (Initialized' <=> Initialized)
    BY <2>1 DEF HistoryInv, HistoryType, Initialized, EntryType, Tasks
  <2>3. WellFormedHistory => WellFormedHistory'
    BY <2>1 DEF WellFormedHistory, AreParallel, Kept
  <2>4. Covered => Covered'
    BY <2>1 DEF Covered, AreParallel, Kept
  <2>5. (NoMissedRace => NoMissedRace') /\ (NoFalseRace => NoFalseRace')
    BY <2>1 DEF NoMissedRace, NoFalseRace
  <2> QED
    BY <2>2, <2>3, <2>4, <2>5 DEF HistoryInv
<1> QED
  BY <1>1, <1>2

\* So it holds of every history.
LEMMA HistoryInductive == Spec => []HistoryInv
BY InitHistory, InductiveStep, PTL DEF Spec

\* No two entries have the same lockset, whatever the pointers hold.
LEMMA LocksetsStayDistinct == Spec => []DistinctLocksets
<1>1. Init => DistinctLocksets
  BY DEF Init, DistinctLocksets
<1>2. HistoryInv /\ DistinctLocksets /\ [Next]_vars => DistinctLocksets'
  <2> SUFFICES ASSUME HistoryInv, DistinctLocksets, [Next]_vars
               PROVE  DistinctLocksets'
    OBVIOUS
  <2>1. entries \in Seq(EntryType)
    BY DEF HistoryInv, HistoryType
  <2>2. CASE entries' = entries
    BY <2>2 DEF DistinctLocksets
  <2>3. ASSUME NEW a \in Oracle!Accesses(prog), RecordMem(a), entries' # entries
        PROVE  DistinctLocksets'
    <3>1. Remember(a)
      BY <2>3 DEF RecordMem
    <3>2. CASE \E i \in DOMAIN entries : entries[i].lockset = a.held
      <4>1. PICK i \in DOMAIN entries : entries' = [entries EXCEPT ![i] = UpdateEntry(@, a)]
        BY <3>1, <3>2 DEF Remember
      <4>2. UpdateEntry(entries[i], a).lockset = entries[i].lockset
        <5>1. entries[i] \in EntryType
          BY <2>1
        <5> QED
          BY <5>1 DEF UpdateEntry, EntryType
      <4> QED
        BY <2>1, <4>1, <4>2 DEF DistinctLocksets
    <3>3. CASE \A i \in DOMAIN entries : entries[i].lockset # a.held
      <4>1. {i \in DOMAIN entries : entries[i].lockset = a.held} = {}
        BY <3>3
      <4>2. PICK w1, w2, r1, r2 \in FreshTasks :
               entries' = Append(entries, FirstUse(a, w1, w2, r1, r2))
        BY <3>1, <4>1 DEF Remember
      <4> DEFINE e == FirstUse(a, w1, w2, r1, r2)
      <4>3. e.lockset = a.held
        BY DEF FirstUse
      <4> HIDE DEF e
      <4> QED
        BY <2>1, <3>3, <4>2, <4>3 DEF DistinctLocksets, e
    <3> QED
      BY <3>2, <3>3
  <2> QED
    BY <2>2, <2>3 DEF Next, vars
<1> QED
  BY <1>1, <1>2, HistoryInductive, PTL DEF Spec

-----------------------------------------------------------------------------
(* Theorems *)

\* While an address is accessed under no more than NumFixed locksets, or overflow entries
\* are zeroed: each report of RecordMem and RecordAccess names two accesses that were
\* performed and conflict.
THEOREM ReportsAreTrue == Spec => [](Initialized => NoFalseRace)
<1>1. HistoryInv => (Initialized => NoFalseRace)
  BY DEF HistoryInv
<1> QED
  BY <1>1, HistoryInductive, PTL

\* Under the same condition the accesses the history forgets hide no race: two of the
\* accesses performed never conflict without a report.
THEOREM ForgettingIsSafe == Spec => [](Initialized => NoMissedRace)
<1>1. HistoryInv => (Initialized => NoMissedRace)
  BY DEF HistoryInv
<1> QED
  BY <1>1, HistoryInductive, PTL

\* The reason: two steps per lockset and type stand for all that went before them.
THEOREM TwoStepsCover == Spec => [](Initialized => Covered /\ WellFormedHistory)
<1>1. HistoryInv => (Initialized => Covered /\ WellFormedHistory)
  BY DEF HistoryInv
<1> QED
  BY <1>1, HistoryInductive, PTL

\* The history points to steps of the program and to nothing else.
THEOREM HistoryTypeCorrect == Spec => [](Initialized => TypeOK)
<1>1. HistoryInv => (Initialized => TypeOK)
  <2> SUFFICES ASSUME HistoryInv, Initialized
               PROVE  TypeOK
    OBVIOUS
  <2> DEFINE E == [lockset : prog.locksets, w : MaybeStep \X MaybeStep,
                   r : MaybeStep \X MaybeStep]
  <2>1. HistoryType /\ WellFormedHistory
    BY DEF HistoryInv
  <2>2. \A i \in DOMAIN entries : entries[i].w \in Pairs /\ entries[i].r \in Pairs
    BY <2>1, PairsOfSteps
  <2>3. entries \in Seq(EntryType)
    BY <2>1 DEF HistoryType
  <2>4. ASSUME NEW i \in DOMAIN entries
        PROVE  entries[i] \in E
    <3>1. entries[i] \in EntryType
      BY <2>3
    <3> QED
      BY <2>2, <3>1 DEF EntryType, Pairs
  <2>5. entries \in Seq(E)
    <3> HIDE DEF E
    <3>1. Len(entries) \in Nat /\ DOMAIN entries = 1..Len(entries)
          /\ entries = [i \in 1..Len(entries) |-> entries[i]]
      BY <2>3
    <3>2. entries \in [1..Len(entries) -> E]
      BY <2>4, <3>1
    <3> QED
      BY <3>1, <3>2
  <2> QED
    BY <2>1, <2>5 DEF TypeOK, HistoryType
<1> QED
  BY <1>1, HistoryInductive, PTL

-----------------------------------------------------------------------------
(* The history implements the oracle that forgets nothing *)

\* The programs take an address under at most NumFixed different sets of locks.
FewLocksets ==
    \A p \in Programs : IsFiniteSet(p.locksets) /\ Cardinality(p.locksets) <= NumFixed

\* With few locksets the fixed entries of a location suffice.
LEMMA FewLocksetsFit ==
    ASSUME HistoryType, DistinctLocksets, FewLocksets
    PROVE  Len(entries) <= NumFixed
<1> DEFINE n == Len(entries)
           f == [i \in 1..n |-> entries[i].lockset]
<1>1. /\ entries \in Seq(EntryType) /\ Len(entries) \in Nat
      /\ DOMAIN entries = 1..Len(entries)
  BY DEF HistoryType
<1>2. \A i \in 1..n : entries[i].lockset \in prog.locksets
  <2>1. \A i \in 1..n : entries[i] \in EntryType
    BY <1>1
  <2> QED
    BY <2>1 DEF EntryType
<1>3. f \in Injection(1..n, prog.locksets)
  <2>1. \A i, j \in 1..n : entries[i].lockset = entries[j].lockset => i = j
    BY <1>1 DEF DistinctLocksets
  <2> HIDE DEF n
  <2>2. f \in [1..n -> prog.locksets]
    BY <1>2
  <2>3. \A i, j \in 1..n : f[i] = f[j] => i = j
    BY <2>1
  <2> QED
    BY <2>2, <2>3 DEF Injection, IsInjective
<1> HIDE DEF f
<1>4. IsFiniteSet(prog.locksets) /\ Cardinality(prog.locksets) <= NumFixed
  BY DEF FewLocksets, HistoryType
<1>5. Cardinality(1..Len(entries)) <= Cardinality(prog.locksets)
  BY <1>3, <1>4, FS_Injection
<1>6. Cardinality(1..Len(entries)) = Len(entries)
  BY <1>1, FS_Interval
<1>7. Cardinality(prog.locksets) \in Nat /\ NumFixed \in Nat
  BY <1>4, FS_CardinalityType, HistoryAssumption
<1> QED
  BY <1>1, <1>4, <1>5, <1>6, <1>7

\* Hence no program that stays within NumFixed locksets meets a garbage pointer.
LEMMA NoGarbageMet ==
    ASSUME GarbageTasks = {0} \/ FewLocksets
    PROVE  Spec => []Initialized
<1>1. HistoryInv /\ DistinctLocksets => Initialized
  BY FewLocksetsFit DEF HistoryInv, Initialized
<1> QED
  BY <1>1, HistoryInductive, LocksetsStayDistinct, PTL

\* The empty history is the oracle before any access.
LEMMA InitIsOracleInit == Init => Oracle!Init
BY DEF Init, Oracle!Init

\* One RecordMem is one access of the oracle: it reports if and only if the accesses
\* performed, which it does not remember, conflict.
LEMMA StepIsOracleStep ==
    ASSUME HistoryInv, HistoryInv', Initialized', [Next]_vars
    PROVE  [Oracle!Next]_(Oracle!oracleVars)
<1>1. CASE UNCHANGED vars
  BY <1>1 DEF vars, Oracle!oracleVars
<1>2. ASSUME NEW a \in Oracle!Accesses(prog), RecordMem(a)
      PROVE  Oracle!Next
  <2>1. /\ ~(all_violations # {}) /\ Cardinality(accesses) < prog.bound
        /\ Oracle!MayFollow(prog, accesses, a.strand)
        /\ accesses' = accesses \cup {a} /\ prog' = prog
    BY <1>2 DEF RecordMem
  <2>2. NoMissedRace' /\ NoFalseRace'
    BY DEF HistoryInv
  <2>3. Oracle!Racy(prog, accesses') => all_violations' # {}
    BY <2>1, <2>2 DEF NoMissedRace
  <2>4. all_violations' # {} => Oracle!Racy(prog, accesses')
    BY <2>1, <2>2 DEF NoFalseRace, Oracle!Racy
  <2>5. (all_violations' # {}) = Oracle!Racy(prog, accesses')
    BY <2>3, <2>4 DEF Oracle!Racy
  <2>6. Oracle!Access(a)
    BY <2>1, <2>5 DEF Oracle!Access, Oracle!Cardinality, Cardinality
  <2> QED
    BY <2>6 DEF Oracle!Next
<1> QED
  BY <1>1, <1>2 DEF Next

\* RecordMem and RecordAccess report exactly when a detector that remembers every access
\* does, for any program whose tree obeys DpstLaws: if overflow entries were zeroed, or
\* if the program, as the code is, stays within NumFixed locksets for an address.
THEOREM HistoryImplementsOracle ==
    ASSUME GarbageTasks = {0} \/ FewLocksets
    PROVE  Spec => ImplementsOracle
<1>1. HistoryInv /\ HistoryInv' /\ Initialized' /\ [Next]_vars
      => [Oracle!Next]_(Oracle!oracleVars)
  BY StepIsOracleStep
<1>2. Spec => []HistoryInv /\ []Initialized
  BY HistoryInductive, NoGarbageMet, PTL
<1> QED
  BY <1>1, <1>2, InitIsOracleInit, PTL DEF Spec, ImplementsOracle, Oracle!Spec
=============================================================================
