-------------------------- MODULE Lockset_proofs --------------------------
(***************************************************************************)
(* What a mask tells of the locks held, for any number of threads, tasks,  *)
(* locks and accesses, any width of a mask and any regions.                *)
(*                                                                         *)
(* The stack of locks of a task that gives back its last lock first is the *)
(* image of the locks it holds.  As long as the locks fit into a mask,     *)
(* lockid_map is one to one, and the lockset is their image as well.  Inv  *)
(* says so of every task on every stack and of every access, and what      *)
(* remains true without these conditions.                                  *)
(***************************************************************************)
EXTENDS Lockset, SequenceTheorems, FiniteSetTheorems, WellFoundedInduction, TLAPS

FrameType  == [pc : {"run", "waiting"}, held : Seq(Locks), ordered : BOOLEAN]
DataType   == [lockset : SUBSET Bits, locks : Seq(Bits)]
AccessType ==
    [held : SUBSET Locks, lockset : SUBSET Bits, ordered : BOOLEAN, exact : BOOLEAN]
Ops == [op : {"acquire", "release"}, lock : Locks]

Fits(m) == Cardinality(DOMAIN m) <= Width

\* lockid_map: one bit per lock, and a bit of its own while there are enough.
GoodMap(m) ==
    /\ DOMAIN m \subseteq Locks /\ IsFiniteSet(DOMAIN m)
    /\ m \in [DOMAIN m -> Bits]
    /\ Fits(m) =>
          /\ \A k \in DOMAIN m : m[k] < Cardinality(DOMAIN m)
          /\ \A k, l \in DOMAIN m : m[k] = m[l] => k = l

\* n knows the locks of m by the same bits.
Extends(m, n) ==
    /\ DOMAIN m \subseteq DOMAIN n
    /\ \A l \in DOMAIN m : n[l] = m[l]

\* A task and the entry of its thread's stack of locksets.
FrameOk(m, f, d) ==
    /\ Len(d.locks) = Len(f.held)
    /\ \A i \in 1..Len(f.held) : f.held[i] \in DOMAIN m
    /\ \A i, j \in 1..Len(f.held) : f.held[i] = f.held[j] => i = j
    /\ \A b \in d.lockset : \E i \in 1..Len(d.locks) : d.locks[i] = b
    /\ f.ordered => \A i \in 1..Len(f.held) : d.locks[i] = m[f.held[i]]
    /\ Fits(m) /\ f.ordered => \A i \in 1..Len(f.held) : d.locks[i] \in d.lockset

AccessOk(m, a) ==
    /\ a.held \subseteq DOMAIN m
    /\ a.exact => a.ordered
    /\ a.ordered => \A b \in a.lockset : \E l \in a.held : m[l] = b
    /\ Fits(m) /\ a.exact => \A l \in a.held : m[l] \in a.lockset

StacksOk(m) ==
    /\ frames \in [Threads -> Seq(FrameType)]
    /\ thd_lockset \in [Threads -> Seq(DataType)]
    /\ \A th \in Threads :
          /\ Len(frames[th]) = Len(thd_lockset[th])
          /\ \A i \in 1..Len(frames[th]) : FrameOk(m, frames[th][i], thd_lockset[th][i])

AccessesOk(m) == accesses \subseteq AccessType /\ \A a \in accesses : AccessOk(m, a)

Inv == GoodMap(lockid_map) /\ StacksOk(lockid_map) /\ AccessesOk(lockid_map)

-----------------------------------------------------------------------------
(* Sequences *)

\* A stack, its top and what is below.
LEMMA PopTop ==
    ASSUME NEW S, NEW s \in Seq(S), s # <<>>
    PROVE  /\ Len(s) \in Nat /\ Len(s) > 0 /\ Len(s) \in 1..Len(s)
           /\ Top(s) \in S /\ Top(s) = s[Len(s)]
           /\ Pop(s) \in Seq(S) /\ Len(Pop(s)) = Len(s) - 1
           /\ \A i \in 1..Len(s) - 1 : Pop(s)[i] = s[i]
<1>1. Len(s) \in Nat /\ Len(s) # 0 /\ \A i \in 1..Len(s) : s[i] \in S
  OBVIOUS
<1> DEFINE m == Len(s) - 1
<1>2. 1 \in Int /\ m \in Int /\ m >= 0 /\ \A i \in 1..m : s[i] \in S
  BY <1>1
<1>3. /\ Pop(s) \in Seq(S) /\ Len(Pop(s)) = m
      /\ \A i \in 1..m : Pop(s)[i] = s[i]
  <2>1. Pop(s) = SubSeq(s, 1, m)
    BY DEF Pop
  <2> HIDE DEF m
  <2>2. /\ SubSeq(s, 1, m) \in Seq(S)
        /\ Len(SubSeq(s, 1, m)) = IF 1 <= m THEN m - 1 + 1 ELSE 0
        /\ \A i \in 1..m - 1 + 1 : SubSeq(s, 1, m)[i] = s[1 + i - 1]
    BY <1>2, SubSeqProperties, SMT
  <2> QED
    BY <1>2, <2>1, <2>2
<1>4. Len(s) \in 1..Len(s)
  BY <1>1
<1> QED
  BY <1>1, <1>3, <1>4 DEF Top

\* A stack with one more element.
LEMMA AppendFacts ==
    ASSUME NEW S, NEW s \in Seq(S), NEW e \in S
    PROVE  /\ Append(s, e) \in Seq(S) /\ Len(Append(s, e)) = Len(s) + 1
           /\ Append(s, e)[Len(s) + 1] = e
           /\ \A i \in 1..Len(s) : Append(s, e)[i] = s[i]
  OBVIOUS

\* The top of a stack replaced.
LEMMA ReplaceFacts ==
    ASSUME NEW S, NEW s \in Seq(S), s # <<>>, NEW e \in S
    PROVE  /\ Append(Pop(s), e) \in Seq(S) /\ Len(Append(Pop(s), e)) = Len(s)
           /\ \A i \in 1..Len(s) :
                 Append(Pop(s), e)[i] = IF i = Len(s) THEN e ELSE s[i]
<1>1. /\ Len(s) \in Nat /\ Len(s) > 0
      /\ Pop(s) \in Seq(S) /\ Len(Pop(s)) = Len(s) - 1
      /\ \A i \in 1..Len(s) - 1 : Pop(s)[i] = s[i]
  BY PopTop
<1>2. /\ Append(Pop(s), e) \in Seq(S) /\ Len(Append(Pop(s), e)) = Len(Pop(s)) + 1
      /\ Append(Pop(s), e)[Len(Pop(s)) + 1] = e
      /\ \A i \in 1..Len(Pop(s)) : Append(Pop(s), e)[i] = Pop(s)[i]
  BY <1>1, AppendFacts
<1>3. Len(Pop(s)) + 1 = Len(s)
  BY <1>1
<1>4. \A i \in 1..Len(s) : i = Len(s) \/ i \in 1..Len(s) - 1
  BY <1>1
<1> QED
  BY <1>1, <1>2, <1>3, <1>4

\* One element taken out.
LEMMA RemoveFacts ==
    ASSUME NEW S, NEW s \in Seq(S), NEW i \in 1..Len(s)
    PROVE  /\ RemoveAt(s, i) \in Seq(S) /\ Len(RemoveAt(s, i)) = Len(s) - 1
           /\ \A j \in 1..Len(s) - 1 :
                 RemoveAt(s, i)[j] = IF j < i THEN s[j] ELSE s[j + 1]
<1> DEFINE a == SubSeq(s, 1, i - 1)
           b == SubSeq(s, i + 1, Len(s))
<1>0. Len(s) \in Nat /\ i \in Nat /\ i >= 1 /\ i <= Len(s)
  OBVIOUS
<1>1. a \in Seq(S) /\ Len(a) = i - 1 /\ \A j \in 1..i - 1 : a[j] = s[j]
  BY <1>0
<1>2. b \in Seq(S) /\ Len(b) = Len(s) - i /\ \A j \in 1..Len(s) - i : b[j] = s[i + j]
  BY <1>0
<1> HIDE DEF a, b
<1>3. a \o b \in Seq(S) /\ Len(a \o b) = Len(s) - 1
  <2>1. a \o b \in Seq(S) /\ Len(a \o b) = Len(a) + Len(b)
    BY <1>1, <1>2, ConcatProperties
  <2> QED
    BY <1>0, <1>1, <1>2, <2>1
<1>4. ASSUME NEW j \in 1..Len(s) - 1
      PROVE  (a \o b)[j] = IF j < i THEN s[j] ELSE s[j + 1]
  <2>1. CASE j < i
    BY <1>0, <1>1, <1>2, <2>1
  <2>2. CASE ~(j < i)
    <3>1. j - (i - 1) \in 1..Len(s) - i /\ i + (j - (i - 1)) = j + 1
      BY <1>0, <2>2
    <3>2. (a \o b)[j] = b[j - (i - 1)]
      BY <1>0, <1>1, <1>2, <2>2
    <3> QED
      BY <1>2, <2>2, <3>1, <3>2
  <2> QED
    BY <2>1, <2>2
<1>5. RemoveAt(s, i) = a \o b
  BY DEF RemoveAt, a, b
<1> QED
  BY <1>3, <1>4, <1>5

\* A sequence has no more elements than its length.
LEMMA FewElements ==
    ASSUME NEW S, NEW s \in Seq(S), NEW L,
           \A b \in L : \E i \in 1..Len(s) : s[i] = b
    PROVE  Cardinality(L) <= Len(s)
<1> DEFINE R == {s[i] : i \in 1..Len(s)}
<1>1. Len(s) \in Nat /\ s \in [1..Len(s) -> R]
  OBVIOUS
<1>2. s \in Surjection(1..Len(s), R)
  BY <1>1 DEF Surjection
<1>3. IsFiniteSet(1..Len(s)) /\ Cardinality(1..Len(s)) = Len(s)
  BY <1>1, FS_Interval
<1>4. IsFiniteSet(R) /\ Cardinality(R) <= Len(s)
  BY <1>2, <1>3, FS_Surjection
<1>5. L \subseteq R
  OBVIOUS
<1>6. IsFiniteSet(L) /\ Cardinality(L) <= Cardinality(R)
  <2> HIDE DEF R
  <2> QED
    BY <1>4, <1>5, FS_Subset
<1>7. Cardinality(L) \in Nat /\ Cardinality(R) \in Nat
  <2> HIDE DEF R
  <2> QED
    BY <1>4, <1>6, FS_CardinalityType
<1> QED
  BY <1>1, <1>4, <1>6, <1>7

-----------------------------------------------------------------------------
(* lockid_map *)

\* Extending the map of lock ids is reflexive.
LEMMA ExtendsReflexive == \A m : Extends(m, m)
BY DEF Extends

\* Extending the map of lock ids is transitive.
LEMMA ExtendsTransitive == \A m, n, k : Extends(m, n) /\ Extends(n, k) => Extends(m, k)
BY DEF Extends

\* A map that fits fitted before.
LEMMA FitsBefore ==
    ASSUME NEW m, NEW n, GoodMap(m), GoodMap(n), Extends(m, n), Fits(n)
    PROVE  Fits(m)
<1>1. /\ IsFiniteSet(DOMAIN n) /\ DOMAIN m \subseteq DOMAIN n
      /\ Cardinality(DOMAIN n) <= Width
  BY DEF GoodMap, Extends, Fits
<1>2. IsFiniteSet(DOMAIN m) /\ Cardinality(DOMAIN m) <= Cardinality(DOMAIN n)
  BY <1>1, FS_Subset
<1>3. Cardinality(DOMAIN m) \in Nat /\ Cardinality(DOMAIN n) \in Nat /\ Width \in Nat
  BY <1>1, <1>2, FS_CardinalityType, LocksetAssumption
<1> QED
  BY <1>1, <1>2, <1>3 DEF Fits

\* getLockId gives a new lock the next id and keeps the others.
LEMMA GetLockIdStep ==
    ASSUME NEW m, GoodMap(m), NEW l \in Locks
    PROVE  /\ GoodMap(getLockId(m, l)) /\ Extends(m, getLockId(m, l))
           /\ l \in DOMAIN getLockId(m, l)
<1>1. CASE l \in DOMAIN m
  BY <1>1, ExtendsReflexive DEF getLockId
<1>2. CASE l \notin DOMAIN m
  <2> DEFINE c == Cardinality(DOMAIN m)
             n == getLockId(m, l)
  <2>0. /\ DOMAIN m \subseteq Locks /\ IsFiniteSet(DOMAIN m) /\ m \in [DOMAIN m -> Bits]
        /\ c \in Nat /\ Width \in Nat /\ Width > 0
    BY FS_CardinalityType, LocksetAssumption DEF GoodMap
  <2>1. n = [k \in DOMAIN m \cup {l} |-> IF k = l THEN c % Width ELSE m[k]]
    BY <1>2 DEF getLockId
  <2>2. IsFiniteSet(DOMAIN m \cup {l}) /\ Cardinality(DOMAIN m \cup {l}) = c + 1
    BY <1>2, <2>0, FS_AddElement
  <2> HIDE DEF n, c
  <2>3. /\ DOMAIN n = DOMAIN m \cup {l} /\ n[l] = c % Width
        /\ \A k \in DOMAIN m : k # l /\ n[k] = m[k]
    BY <1>2, <2>1
  <2>4. c % Width \in Bits /\ (c < Width => c % Width = c)
    BY <2>0 DEF Bits
  <2>5. n \in [DOMAIN n -> Bits]
    BY <2>0, <2>1, <2>3, <2>4
  <2>6. ASSUME c + 1 <= Width
        PROVE  /\ \A k \in DOMAIN n : n[k] < c + 1
               /\ \A j, k \in DOMAIN n : n[j] = n[k] => j = k
    <3>1. c <= Width /\ c < Width
      BY <2>0, <2>6
    <3>2. /\ \A k \in DOMAIN m : m[k] < c /\ m[k] \in Nat
          /\ \A j, k \in DOMAIN m : m[j] = m[k] => j = k
      BY <2>0, <3>1 DEF GoodMap, Fits, c, Bits
    <3>3. n[l] = c
      BY <2>3, <2>4, <3>1
    <3>4. \A k \in DOMAIN m : m[k] < c + 1 /\ m[k] # c
      BY <2>0, <3>2
    <3>5. \A k \in DOMAIN n : n[k] < c + 1
      BY <2>0, <2>3, <3>3, <3>4
    <3>6. \A j, k \in DOMAIN n : n[j] = n[k] => j = k
      BY <2>3, <3>2, <3>3, <3>4
    <3> QED
      BY <3>5, <3>6
  <2>7. GoodMap(n)
    <3>1. /\ DOMAIN n \subseteq Locks /\ IsFiniteSet(DOMAIN n)
          /\ Cardinality(DOMAIN n) = c + 1
      BY <2>0, <2>2, <2>3
    <3> QED
      BY <2>5, <2>6, <3>1 DEF GoodMap, Fits
  <2>8. Extends(m, n) /\ l \in DOMAIN n
    BY <2>3 DEF Extends
  <2> QED
    BY <2>7, <2>8 DEF n
<1> QED
  BY <1>1, <1>2

\* The least number of a set.
LEMMA LeastNumber ==
    ASSUME NEW T \in SUBSET Nat, T # {}
    PROVE  \E m \in T : \A n \in T : m <= n
<1> DEFINE R == OpToRel(<, Nat)
<1>1. IsWellFoundedOn(R, Nat)
  BY NatLessThanWellFounded
<1>2. \A x, y \in Nat : x < y => <<x, y>> \in R
  BY DEF OpToRel
<1> HIDE DEF R
<1>3. PICK m \in T : \A y \in T : ~ (<<y, m>> \in R)
  BY <1>1, WFMin, Zenon
<1>4. \A n \in T : ~(n < m)
  BY <1>2, <1>3, Zenon
<1> QED
  BY <1>4

\* One turn of the loop over an array, given what the earlier turns left in f.
Turn(m, r, op, f, i) ==
    IF i = 0 THEN m
    ELSE IF r[i].op = op THEN getLockId(f[i - 1], r[i].lock)
    ELSE f[i - 1]

Loop(m, r, op) ==
    LET ids[i \in 0..Len(r)] ==
          IF i = 0 THEN m
          ELSE IF r[i].op = op THEN getLockId(ids[i - 1], r[i].lock)
          ELSE ids[i - 1]
    IN  ids

\* f is right about the first n turns.
Turns(m, r, op, f, n) == \A i \in 0..n : f[i] = Turn(m, r, op, f, i)

\* The loop over a region has a run of any length.
LEMMA LoopExists ==
    ASSUME NEW m, NEW r \in Seq(Ops), NEW op
    PROVE  \A n \in Nat : \E f : Turns(m, r, op, f, n)
<1> DEFINE Bad == {n \in Nat : ~ \E f : Turns(m, r, op, f, n)}
<1> SUFFICES ASSUME Bad # {}
             PROVE  FALSE
  OBVIOUS
<1>1. PICK n \in Bad : \A k \in Bad : n <= k
  <2> HIDE DEF Bad
  <2>1. Bad \in SUBSET Nat
    BY DEF Bad
  <2> QED
    BY <2>1, LeastNumber
<1>2. n # 0
  <2>1. Turns(m, r, op, [i \in {0} |-> m], 0)
    BY DEF Turns, Turn
  <2> QED
    BY <2>1
<1>3. n \in Nat /\ n - 1 \in Nat /\ n - 1 < n
  BY <1>2
<1>4. PICK f : Turns(m, r, op, f, n - 1)
  BY <1>1, <1>3
<1> DEFINE h == [i \in 0..n |-> Turn(m, r, op, f, i)]
<1>5. \A i \in 0..n : h[i] = Turn(m, r, op, f, i)
  OBVIOUS
<1> HIDE DEF h
<1>6. \A i \in 0..n - 1 : h[i] = f[i]
  BY <1>3, <1>4, <1>5 DEF Turns
<1>7. \A i \in 0..n : i # 0 => i - 1 \in 0..n - 1
  BY <1>3
<1>8. Turns(m, r, op, h, n)
  BY <1>5, <1>6, <1>7 DEF Turns, Turn
<1> QED
  BY <1>8

\* The recursive function exists, and takes the turns of its definition.
LEMMA LoopTurn ==
    ASSUME NEW m, NEW r \in Seq(Ops), NEW op
    PROVE  \A i \in 0..Len(r) : Loop(m, r, op)[i] = Turn(m, r, op, Loop(m, r, op), i)
<1> DEFINE Body(f) == [i \in 0..Len(r) |->
                          IF i = 0 THEN m
                          ELSE IF r[i].op = op THEN getLockId(f[i - 1], r[i].lock)
                          ELSE f[i - 1]]
<1>1. Len(r) \in Nat
  OBVIOUS
<1>2. PICK f : Turns(m, r, op, f, Len(r))
  BY <1>1, LoopExists
<1> DEFINE h == Body(f)
<1>3. \A i \in 0..Len(r) : h[i] = f[i]
  BY <1>2 DEF Turns, Turn
<1>4. \A i \in 0..Len(r) : i # 0 => i - 1 \in 0..Len(r)
  BY <1>1
<1>5. \A i \in 0..Len(r) : i # 0 => h[i - 1] = f[i - 1]
  <2> HIDE DEF h
  <2> QED
    BY <1>3, <1>4
<1>6. Body(h) = h
  BY <1>5
<1>7. Loop(m, r, op) = CHOOSE ids : ids = Body(ids)
  BY DEF Loop
<1>8. Loop(m, r, op) = Body(Loop(m, r, op))
  <2> HIDE DEF Body, h
  <2> QED
    BY <1>6, <1>7
<1> QED
  BY <1>8 DEF Turn

\* After a loop the map knows what it did, and the locks of the array.
LEMMA ArrayIdsStep ==
    ASSUME NEW m, GoodMap(m), NEW r \in Seq(Ops), NEW op
    PROVE  /\ GoodMap(ArrayIds(m, r, op)) /\ Extends(m, ArrayIds(m, r, op))
           /\ \A i \in 1..Len(r) : r[i].op = op => r[i].lock \in DOMAIN ArrayIds(m, r, op)
<1> DEFINE f == Loop(m, r, op)
           Right(n) == /\ GoodMap(f[n]) /\ Extends(m, f[n])
                       /\ \A i \in 1..n : r[i].op = op => r[i].lock \in DOMAIN f[n]
           Bad == {n \in 0..Len(r) : ~ Right(n)}
<1>1. Len(r) \in Nat /\ \A i \in 1..Len(r) : r[i].lock \in Locks
  <2>1. \A i \in 1..Len(r) : r[i] \in Ops
    OBVIOUS
  <2> QED
    BY <2>1 DEF Ops
<1>2. \A i \in 0..Len(r) : f[i] = Turn(m, r, op, f, i)
  BY LoopTurn
<1>3. ArrayIds(m, r, op) = f[Len(r)]
  BY DEF ArrayIds, Loop
<1> HIDE DEF f
<1>4. Bad = {}
  <2> SUFFICES ASSUME Bad # {} PROVE FALSE
    OBVIOUS
  <2>1. PICK n \in Bad : \A k \in Bad : n <= k
    <3> HIDE DEF Bad
    <3>1. Bad \in SUBSET Nat
      BY <1>1 DEF Bad
    <3> QED
      BY <3>1, LeastNumber
  <2>2. n \in 0..Len(r) /\ ~Right(n)
    OBVIOUS
  <2>3. n # 0
    <3>1. 0 \in 0..Len(r) /\ f[0] = m
      BY <1>1, <1>2 DEF Turn
    <3> QED
      BY <2>2, <3>1, ExtendsReflexive
  <2>4. n - 1 \in 0..Len(r) /\ n \in 1..Len(r) /\ ~(n <= n - 1)
    BY <1>1, <2>2, <2>3
  <2>5. Right(n - 1)
    BY <2>1, <2>4
  <2>6. \A i \in 1..n : i = n \/ i \in 1..n - 1
    BY <2>4
  <2>7. CASE r[n].op = op
    <3>1. f[n] = getLockId(f[n - 1], r[n].lock)
      BY <1>2, <2>2, <2>3, <2>7 DEF Turn
    <3>2. /\ GoodMap(f[n]) /\ Extends(f[n - 1], f[n]) /\ r[n].lock \in DOMAIN f[n]
      BY <1>1, <2>4, <2>5, <3>1, GetLockIdStep
    <3>3. DOMAIN f[n - 1] \subseteq DOMAIN f[n]
      BY <3>2 DEF Extends
    <3> QED
      BY <2>2, <2>5, <2>6, <3>2, <3>3, ExtendsTransitive
  <2>8. CASE r[n].op # op
    <3>1. f[n] = f[n - 1]
      BY <1>2, <2>2, <2>3, <2>8 DEF Turn
    <3> QED
      BY <2>2, <2>5, <2>6, <2>8, <3>1
  <2> QED
    BY <2>7, <2>8
<1>5. Len(r) \in 0..Len(r)
  BY <1>1
<1>6. Right(Len(r))
  BY <1>4, <1>5
<1> QED
  BY <1>3, <1>6

\* The two loops of a region give ids to its locks and keep the others.
LEMMA RegionIdsStep ==
    ASSUME NEW m, GoodMap(m), NEW r \in Seq(Ops)
    PROVE  /\ GoodMap(RegionIds(m, r)) /\ Extends(m, RegionIds(m, r))
           /\ Locked(r) \subseteq DOMAIN RegionIds(m, r)
           /\ Unlocked(r) \subseteq DOMAIN RegionIds(m, r)
<1> DEFINE a == ArrayIds(m, r, "acquire")
           b == ArrayIds(a, r, "release")
<1>1. /\ GoodMap(a) /\ Extends(m, a)
      /\ \A i \in 1..Len(r) : r[i].op = "acquire" => r[i].lock \in DOMAIN a
  BY ArrayIdsStep
<1> HIDE DEF a
<1>2. /\ GoodMap(b) /\ Extends(a, b)
      /\ \A i \in 1..Len(r) : r[i].op = "release" => r[i].lock \in DOMAIN b
  BY <1>1, ArrayIdsStep
<1> HIDE DEF b
<1>3. DOMAIN r = 1..Len(r) /\ DOMAIN a \subseteq DOMAIN b
  BY <1>2 DEF Extends
<1>4. Locked(r) \subseteq DOMAIN b /\ Unlocked(r) \subseteq DOMAIN b
  BY <1>1, <1>2, <1>3 DEF Locked, Unlocked
<1>5. RegionIds(m, r) = b
  BY DEF RegionIds, a, b
<1> QED
  BY <1>1, <1>2, <1>4, <1>5, ExtendsTransitive

-----------------------------------------------------------------------------
(* Stacks *)

\* What is known of a task and of an access stays true when locks get bits.
LEMMA MapGrows ==
    ASSUME NEW m, NEW n, GoodMap(m), GoodMap(n), Extends(m, n)
    PROVE  /\ \A f, d : FrameOk(m, f, d) => FrameOk(n, f, d)
           /\ \A a : AccessOk(m, a) => AccessOk(n, a)
<1>1. /\ Fits(n) => Fits(m)
      /\ DOMAIN m \subseteq DOMAIN n /\ \A l \in DOMAIN m : n[l] = m[l]
  BY FitsBefore DEF Extends
<1>2. ASSUME NEW f, NEW d, FrameOk(m, f, d)
      PROVE  FrameOk(n, f, d)
  BY <1>1, <1>2 DEF FrameOk
<1>3. ASSUME NEW a, AccessOk(m, a)
      PROVE  AccessOk(n, a)
  BY <1>1, <1>3 DEF AccessOk
<1> QED
  BY <1>2, <1>3

\* The innermost task of a thread and its lockset fit each other.
LEMMA StackTop ==
    ASSUME StacksOk(lockid_map), NEW th \in Threads, frames[th] # <<>>
    PROVE  /\ Len(frames[th]) \in Nat /\ Len(frames[th]) > 0
           /\ frames[th] \in Seq(FrameType) /\ thd_lockset[th] \in Seq(DataType)
           /\ thd_lockset[th] # <<>> /\ Len(thd_lockset[th]) = Len(frames[th])
           /\ Top(frames[th]) \in FrameType /\ Top(thd_lockset[th]) \in DataType
           /\ FrameOk(lockid_map, Top(frames[th]), Top(thd_lockset[th]))
<1>1. /\ frames[th] \in Seq(FrameType) /\ thd_lockset[th] \in Seq(DataType)
      /\ Len(thd_lockset[th]) = Len(frames[th])
      /\ \A i \in 1..Len(frames[th]) :
            FrameOk(lockid_map, frames[th][i], thd_lockset[th][i])
  BY DEF StacksOk
<1>2. /\ Len(frames[th]) \in Nat /\ Len(frames[th]) > 0
      /\ Len(frames[th]) \in 1..Len(frames[th])
      /\ Top(frames[th]) \in FrameType /\ Top(frames[th]) = frames[th][Len(frames[th])]
  BY <1>1, PopTop
<1>3. thd_lockset[th] # <<>>
  BY <1>1, <1>2
<1>4. /\ Top(thd_lockset[th]) \in DataType
      /\ Top(thd_lockset[th]) = thd_lockset[th][Len(thd_lockset[th])]
  BY <1>1, <1>3, PopTop
<1> QED
  BY <1>1, <1>2, <1>3, <1>4

\* A step of the task on top of a stack; locks may get bits.
LEMMA TopStep ==
    ASSUME Inv, NEW th \in Threads, frames[th] # <<>>,
           NEW f \in FrameType, NEW d \in DataType,
           SetFrame(th, f), SetLockset(th, d),
           GoodMap(lockid_map'), Extends(lockid_map, lockid_map'),
           FrameOk(lockid_map', f, d), UNCHANGED accesses
    PROVE  Inv'
<1>1. GoodMap(lockid_map) /\ StacksOk(lockid_map) /\ AccessesOk(lockid_map)
  BY DEF Inv
<1>2. /\ Len(frames[th]) \in Nat
      /\ frames[th] \in Seq(FrameType) /\ thd_lockset[th] \in Seq(DataType)
      /\ thd_lockset[th] # <<>> /\ Len(thd_lockset[th]) = Len(frames[th])
  BY <1>1, StackTop
<1> DEFINE F == Append(Pop(frames[th]), f)
           D == Append(Pop(thd_lockset[th]), d)
<1>3. /\ F \in Seq(FrameType) /\ Len(F) = Len(frames[th])
      /\ \A i \in 1..Len(frames[th]) : F[i] = IF i = Len(frames[th]) THEN f ELSE frames[th][i]
  BY <1>2, ReplaceFacts
<1>4. /\ D \in Seq(DataType) /\ Len(D) = Len(frames[th])
      /\ \A i \in 1..Len(frames[th]) :
            D[i] = IF i = Len(frames[th]) THEN d ELSE thd_lockset[th][i]
  BY <1>2, ReplaceFacts
<1>5. frames' = [frames EXCEPT ![th] = F] /\ thd_lockset' = [thd_lockset EXCEPT ![th] = D]
  BY DEF SetFrame, SetLockset
<1> HIDE DEF F, D
<1>6. /\ frames' \in [Threads -> Seq(FrameType)]
      /\ thd_lockset' \in [Threads -> Seq(DataType)]
      /\ \A t \in Threads : /\ frames'[t] = IF t = th THEN F ELSE frames[t]
                            /\ thd_lockset'[t] = IF t = th THEN D ELSE thd_lockset[t]
  BY <1>1, <1>3, <1>4, <1>5 DEF StacksOk
<1>7. ASSUME NEW t \in Threads
      PROVE  /\ Len(frames'[t]) = Len(thd_lockset'[t])
             /\ \A i \in 1..Len(frames'[t]) :
                   FrameOk(lockid_map', frames'[t][i], thd_lockset'[t][i])
  <2>1. /\ Len(frames[t]) = Len(thd_lockset[t])
        /\ \A i \in 1..Len(frames[t]) :
              FrameOk(lockid_map', frames[t][i], thd_lockset[t][i])
    BY <1>1, MapGrows DEF StacksOk
  <2>2. CASE t = th
    BY <1>3, <1>4, <1>6, <2>1, <2>2
  <2>3. CASE t # th
    BY <1>6, <2>1, <2>3
  <2> QED
    BY <2>2, <2>3
<1>8. AccessesOk(lockid_map)'
  BY <1>1, MapGrows DEF AccessesOk
<1> QED
  BY <1>6, <1>7, <1>8 DEF Inv, StacksOk

\* The top of a stack put back.
LEMMA SameTop ==
    ASSUME NEW S, NEW s \in Seq(S), s # <<>>
    PROVE  Append(Pop(s), Top(s)) = s
<1>1. /\ Len(s) \in Nat /\ Top(s) \in S /\ Top(s) = s[Len(s)]
  BY PopTop
<1>2. /\ Append(Pop(s), Top(s)) \in Seq(S) /\ Len(Append(Pop(s), Top(s))) = Len(s)
      /\ \A i \in 1..Len(s) : Append(Pop(s), Top(s))[i] = s[i]
  BY <1>1, ReplaceFacts
<1> QED
  BY <1>1, <1>2, SeqEqual

\* A new task holds nothing.
LEMMA NewTaskOk ==
    /\ NewTask \in FrameType /\ NewLockset \in DataType
    /\ \A m : FrameOk(m, NewTask, NewLockset)
<1>1. NewTask \in FrameType /\ NewLockset \in DataType
  BY DEF NewTask, NewLockset, FrameType, DataType
<1>2. \A m : FrameOk(m, NewTask, NewLockset)
  BY DEF FrameOk, NewTask, NewLockset
<1> QED
  BY <1>1, <1>2

\* With no lock and no task the invariant holds.
LEMMA InitInv == Init => Inv
<1> SUFFICES ASSUME Init PROVE Inv
  OBVIOUS
<1>1. DOMAIN lockid_map = {} /\ accesses = {}
  BY DEF Init
<1>2. NewTask \in FrameType /\ NewLockset \in DataType
  BY NewTaskOk
<1>3. GoodMap(lockid_map)
  <2>1. lockid_map \in [DOMAIN lockid_map -> Bits]
    BY DEF Init
  <2> QED
    BY <1>1, <2>1, FS_EmptySet DEF GoodMap
<1>4. \A m : FrameOk(m, NewTask, NewLockset)
  BY NewTaskOk
<1>5. /\ frames \in [Threads -> Seq(FrameType)]
      /\ thd_lockset \in [Threads -> Seq(DataType)]
  BY <1>2 DEF Init
<1>6. ASSUME NEW th \in Threads
      PROVE  /\ Len(frames[th]) = Len(thd_lockset[th])
             /\ \A i \in 1..Len(frames[th]) :
                   FrameOk(lockid_map, frames[th][i], thd_lockset[th][i])
  <2>1. CASE th = MainThread
    <3>1. frames[th] = <<NewTask>> /\ thd_lockset[th] = <<NewLockset>>
      BY <2>1 DEF Init
    <3> QED
      BY <1>4, <3>1
  <2>2. CASE th # MainThread
    <3>1. frames[th] = <<>> /\ thd_lockset[th] = <<>>
      BY <2>2 DEF Init
    <3> QED
      BY <3>1
  <2> QED
    BY <2>1, <2>2
<1> QED
  BY <1>1, <1>3, <1>5, <1>6 DEF Inv, StacksOk, AccessesOk

\* CaptureExecute pushes the empty lockset of a new task.
LEMMA CaptureExecuteStep ==
    ASSUME Inv, NEW th \in Threads, CaptureExecute(th)
    PROVE  Inv'
<1>1. GoodMap(lockid_map) /\ StacksOk(lockid_map) /\ AccessesOk(lockid_map)
  BY DEF Inv
<1>2. /\ frames[th] \in Seq(FrameType) /\ thd_lockset[th] \in Seq(DataType)
      /\ Len(thd_lockset[th]) = Len(frames[th])
      /\ NewTask \in FrameType /\ NewLockset \in DataType
      /\ Len(frames[th]) \in Nat
  BY <1>1, NewTaskOk DEF StacksOk
<1> DEFINE F == Append(frames[th], NewTask)
           D == Append(thd_lockset[th], NewLockset)
<1>3. /\ F \in Seq(FrameType) /\ Len(F) = Len(frames[th]) + 1
      /\ F[Len(frames[th]) + 1] = NewTask
      /\ \A i \in 1..Len(frames[th]) : F[i] = frames[th][i]
  BY <1>2, AppendFacts
<1>4. /\ D \in Seq(DataType) /\ Len(D) = Len(frames[th]) + 1
      /\ D[Len(frames[th]) + 1] = NewLockset
      /\ \A i \in 1..Len(frames[th]) : D[i] = thd_lockset[th][i]
  BY <1>2, AppendFacts
<1>5. /\ frames' = [frames EXCEPT ![th] = F] /\ thd_lockset' = [thd_lockset EXCEPT ![th] = D]
      /\ UNCHANGED <<lockid_map, accesses>>
  BY DEF CaptureExecute
<1> HIDE DEF F, D
<1>6. /\ frames' \in [Threads -> Seq(FrameType)]
      /\ thd_lockset' \in [Threads -> Seq(DataType)]
      /\ \A t \in Threads : /\ frames'[t] = IF t = th THEN F ELSE frames[t]
                            /\ thd_lockset'[t] = IF t = th THEN D ELSE thd_lockset[t]
  BY <1>1, <1>3, <1>4, <1>5 DEF StacksOk
<1>7. FrameOk(lockid_map, NewTask, NewLockset)
  BY NewTaskOk
<1>8. ASSUME NEW t \in Threads
      PROVE  /\ Len(frames'[t]) = Len(thd_lockset'[t])
             /\ \A i \in 1..Len(frames'[t]) :
                   FrameOk(lockid_map, frames'[t][i], thd_lockset'[t][i])
  <2>1. /\ Len(frames[t]) = Len(thd_lockset[t])
        /\ \A i \in 1..Len(frames[t]) :
              FrameOk(lockid_map, frames[t][i], thd_lockset[t][i])
    BY <1>1 DEF StacksOk
  <2>2. CASE t = th
    <3>1. \A i \in 1..Len(F) : i = Len(frames[th]) + 1 \/ i \in 1..Len(frames[th])
      BY <1>2, <1>3
    <3>2. \A i \in 1..Len(F) : FrameOk(lockid_map, F[i], D[i])
      BY <1>3, <1>4, <1>7, <2>1, <2>2, <3>1
    <3> QED
      BY <1>3, <1>4, <1>6, <2>2, <3>2
  <2>3. CASE t # th
    BY <1>6, <2>1, <2>3
  <2> QED
    BY <2>2, <2>3
<1>9. GoodMap(lockid_map)' /\ AccessesOk(lockid_map)'
  BY <1>1, <1>5 DEF AccessesOk
<1> QED
  BY <1>5, <1>6, <1>8, <1>9 DEF Inv, StacksOk

\* CaptureReturn pops the lockset of the task that ends.
LEMMA CaptureReturnStep ==
    ASSUME Inv, NEW th \in Threads, CaptureReturn(th)
    PROVE  Inv'
<1>1. GoodMap(lockid_map) /\ StacksOk(lockid_map) /\ AccessesOk(lockid_map)
  BY DEF Inv
<1>2. /\ frames[th] \in Seq(FrameType) /\ thd_lockset[th] \in Seq(DataType)
      /\ frames[th] # <<>> /\ thd_lockset[th] # <<>>
      /\ Len(thd_lockset[th]) = Len(frames[th]) /\ Len(frames[th]) \in Nat
  BY <1>1, StackTop DEF CaptureReturn, Running
<1> DEFINE F == Pop(frames[th])
           D == Pop(thd_lockset[th])
<1>3. /\ F \in Seq(FrameType) /\ Len(F) = Len(frames[th]) - 1
      /\ \A i \in 1..Len(frames[th]) - 1 : F[i] = frames[th][i]
  BY <1>2, PopTop
<1>4. /\ D \in Seq(DataType) /\ Len(D) = Len(frames[th]) - 1
      /\ \A i \in 1..Len(frames[th]) - 1 : D[i] = thd_lockset[th][i]
  BY <1>2, PopTop
<1>5. /\ frames' = [frames EXCEPT ![th] = F] /\ thd_lockset' = [thd_lockset EXCEPT ![th] = D]
      /\ UNCHANGED <<lockid_map, accesses>>
  BY DEF CaptureReturn
<1> HIDE DEF F, D
<1>6. /\ frames' \in [Threads -> Seq(FrameType)]
      /\ thd_lockset' \in [Threads -> Seq(DataType)]
      /\ \A t \in Threads : /\ frames'[t] = IF t = th THEN F ELSE frames[t]
                            /\ thd_lockset'[t] = IF t = th THEN D ELSE thd_lockset[t]
  BY <1>1, <1>3, <1>4, <1>5 DEF StacksOk
<1>8. ASSUME NEW t \in Threads
      PROVE  /\ Len(frames'[t]) = Len(thd_lockset'[t])
             /\ \A i \in 1..Len(frames'[t]) :
                   FrameOk(lockid_map, frames'[t][i], thd_lockset'[t][i])
  <2>1. /\ Len(frames[t]) = Len(thd_lockset[t])
        /\ \A i \in 1..Len(frames[t]) :
              FrameOk(lockid_map, frames[t][i], thd_lockset[t][i])
    BY <1>1 DEF StacksOk
  <2>2. CASE t = th
    <3>1. \A i \in 1..Len(F) : i \in 1..Len(frames[th])
      BY <1>2, <1>3
    <3>2. \A i \in 1..Len(F) : FrameOk(lockid_map, F[i], D[i])
      BY <1>3, <1>4, <2>1, <2>2, <3>1
    <3> QED
      BY <1>3, <1>4, <1>6, <2>2, <3>2
  <2>3. CASE t # th
    BY <1>6, <2>1, <2>3
  <2> QED
    BY <2>2, <2>3
<1>9. GoodMap(lockid_map)' /\ AccessesOk(lockid_map)'
  BY <1>1, <1>5 DEF AccessesOk
<1> QED
  BY <1>5, <1>6, <1>8, <1>9 DEF Inv, StacksOk

\* Wait and Resume: the task goes on with its locks.
LEMMA SwitchStep ==
    ASSUME Inv, NEW th \in Threads, frames[th] # <<>>, NEW pc \in {"run", "waiting"},
           SetFrame(th, [Top(frames[th]) EXCEPT !.pc = pc]),
           UNCHANGED <<lockid_map, thd_lockset, accesses>>
    PROVE  Inv'
<1> DEFINE f == Top(frames[th])
           g == [f EXCEPT !.pc = pc]
           d == Top(thd_lockset[th])
<1>1. /\ thd_lockset[th] \in Seq(DataType) /\ thd_lockset[th] # <<>>
      /\ f \in FrameType /\ d \in DataType /\ FrameOk(lockid_map, f, d)
  BY StackTop DEF Inv
<1>2. g \in FrameType /\ g.held = f.held /\ g.ordered = f.ordered
  BY <1>1 DEF FrameType
<1>3. SetFrame(th, g)
  OBVIOUS
<1> HIDE DEF f, g
<1>4. FrameOk(lockid_map', g, d)
  BY <1>1, <1>2 DEF FrameOk
<1>5. SetLockset(th, d)
  <2>1. Append(Pop(thd_lockset[th]), d) = thd_lockset[th]
    BY <1>1, SameTop
  <2>2. thd_lockset \in [Threads -> Seq(DataType)]
    BY DEF Inv, StacksOk
  <2> HIDE DEF d
  <2> QED
    BY <2>1, <2>2 DEF SetLockset
<1>6. GoodMap(lockid_map') /\ Extends(lockid_map, lockid_map')
  BY ExtendsReflexive DEF Inv
<1> HIDE DEF d
<1> QED
  BY <1>1, <1>2, <1>3, <1>4, <1>5, <1>6, TopStep

\* CaptureLockAcquire adds the bit of the lock.
LEMMA CaptureLockAcquireStep ==
    ASSUME Inv, NEW th \in Threads, NEW l \in Locks, CaptureLockAcquire(th, l)
    PROVE  Inv'
<1> DEFINE f == Top(frames[th])
           d == Top(thd_lockset[th])
           m == lockid_map'
           g == [f EXCEPT !.held = Append(@, l)]
           e == addLockToLockset(d, m[l])
<1>1. /\ frames[th] # <<>> /\ m = getLockId(lockid_map, l)
      /\ SetFrame(th, g) /\ SetLockset(th, e) /\ UNCHANGED accesses
      /\ l \notin HeldBySomeone
  BY DEF CaptureLockAcquire, Running
<1>2. /\ frames[th] \in Seq(FrameType) /\ Len(frames[th]) \in 1..Len(frames[th])
      /\ f = frames[th][Len(frames[th])]
      /\ f \in FrameType /\ d \in DataType /\ FrameOk(lockid_map, f, d)
  <2>1. frames[th] \in Seq(FrameType)
    BY <1>1, StackTop DEF Inv
  <2> QED
    BY <1>1, <2>1, StackTop, PopTop DEF Inv
<1>3. GoodMap(m) /\ Extends(lockid_map, m) /\ l \in DOMAIN m /\ m[l] \in Bits
  <2>1. GoodMap(m) /\ Extends(lockid_map, m) /\ l \in DOMAIN m
    BY <1>1, GetLockIdStep DEF Inv
  <2> QED
    BY <2>1 DEF GoodMap
<1>4. \A i \in 1..Len(f.held) : f.held[i] # l
  <2>1. f \in Range(frames[th])
    BY <1>2 DEF Range
  <2>2. \A k \in Range(f.held) : k \in HeldBySomeone
    BY <2>1 DEF HeldBySomeone
  <2>3. f.held \in Seq(Locks)
    BY <1>2 DEF FrameType
  <2>4. \A i \in 1..Len(f.held) : f.held[i] \in Range(f.held)
    BY <2>3 DEF Range
  <2> QED
    BY <1>1, <2>2, <2>4
<1>5. FrameOk(m, f, d)
  BY <1>2, <1>3, MapGrows DEF Inv
<1> HIDE DEF f, d, m
<1>6. /\ f.held \in Seq(Locks) /\ d.locks \in Seq(Bits) /\ d.lockset \subseteq Bits
      /\ Len(f.held) \in Nat
  BY <1>2 DEF FrameType, DataType
<1>7. /\ Append(f.held, l) \in Seq(Locks) /\ Len(Append(f.held, l)) = Len(f.held) + 1
      /\ Append(f.held, l)[Len(f.held) + 1] = l
      /\ \A i \in 1..Len(f.held) : Append(f.held, l)[i] = f.held[i]
  BY <1>6, AppendFacts
<1>8. /\ Append(d.locks, m[l]) \in Seq(Bits) /\ Len(Append(d.locks, m[l])) = Len(d.locks) + 1
      /\ Append(d.locks, m[l])[Len(d.locks) + 1] = m[l]
      /\ \A i \in 1..Len(d.locks) : Append(d.locks, m[l])[i] = d.locks[i]
  BY <1>3, <1>6, AppendFacts
<1>9. /\ g \in FrameType /\ g.held = Append(f.held, l) /\ g.ordered = f.ordered
  BY <1>2, <1>7 DEF FrameType
<1>10. /\ e \in DataType /\ e.locks = Append(d.locks, m[l])
       /\ e.lockset = d.lockset \cup {m[l]}
  BY <1>2, <1>3, <1>6, <1>8 DEF DataType, addLockToLockset
<1> HIDE DEF g, e
<1>11. FrameOk(m, g, e)
  <2>1. Len(d.locks) = Len(f.held)
    BY <1>5 DEF FrameOk
  <2>2. \A i \in 1..Len(g.held) : i = Len(f.held) + 1 \/ i \in 1..Len(f.held)
    BY <1>6, <1>7, <1>9
  <2>3. /\ Len(e.locks) = Len(g.held) /\ Len(g.held) = Len(f.held) + 1
        /\ Len(f.held) + 1 \in 1..Len(f.held) + 1
        /\ \A i \in 1..Len(f.held) : i \in 1..Len(f.held) + 1
    BY <1>6, <1>7, <1>8, <1>9, <1>10, <2>1
  <2>4. \A i \in 1..Len(f.held) : g.held[i] = f.held[i] /\ e.locks[i] = d.locks[i]
    BY <1>7, <1>8, <1>9, <1>10, <2>1
  <2>5. g.held[Len(f.held) + 1] = l /\ e.locks[Len(f.held) + 1] = m[l]
    BY <1>7, <1>8, <1>9, <1>10, <2>1
  <2>6. \A i \in 1..Len(g.held) : g.held[i] \in DOMAIN m
    BY <1>3, <1>5, <2>2, <2>4, <2>5 DEF FrameOk
  <2>7. \A i, j \in 1..Len(g.held) : g.held[i] = g.held[j] => i = j
    BY <1>4, <1>5, <2>2, <2>4, <2>5 DEF FrameOk
  <2>8. \A b \in e.lockset : \E i \in 1..Len(e.locks) : e.locks[i] = b
    BY <1>5, <1>10, <2>1, <2>3, <2>4, <2>5 DEF FrameOk
  <2>9. g.ordered => \A i \in 1..Len(g.held) : e.locks[i] = m[g.held[i]]
    BY <1>5, <1>9, <2>2, <2>4, <2>5 DEF FrameOk
  <2>10. Fits(m) /\ g.ordered => \A i \in 1..Len(g.held) : e.locks[i] \in e.lockset
    BY <1>5, <1>9, <1>10, <2>2, <2>4, <2>5 DEF FrameOk
  <2> QED
    BY <2>3, <2>6, <2>7, <2>8, <2>9, <2>10 DEF FrameOk
<1>12. GoodMap(lockid_map') /\ Extends(lockid_map, lockid_map') /\ FrameOk(lockid_map', g, e)
  BY <1>3, <1>11 DEF m
<1> QED
  BY <1>1, <1>9, <1>10, <1>12, TopStep

\* CaptureLockRelease takes the last lock off the lockset, whichever is given back.
LEMMA CaptureLockReleaseStep ==
    ASSUME Inv, NEW th \in Threads, NEW l \in Locks, CaptureLockRelease(th, l)
    PROVE  Inv'
<1> DEFINE f == Top(frames[th])
           d == Top(thd_lockset[th])
           m == lockid_map
           i == CHOOSE k \in DOMAIN f.held : f.held[k] = l
           left == RemoveAt(f.held, i)
           g == [f EXCEPT !.held = left,
                    !.ordered = left = <<>> \/ (@ /\ l = Top(f.held))]
           e == removeLockFromLockset(d)
<1>1. /\ frames[th] # <<>> /\ l \in Range(f.held)
      /\ SetFrame(th, g) /\ SetLockset(th, e) /\ UNCHANGED <<lockid_map, accesses>>
  BY DEF CaptureLockRelease, Running
<1>2. f \in FrameType /\ d \in DataType /\ FrameOk(m, f, d) /\ GoodMap(m)
  BY <1>1, StackTop DEF Inv
<1> HIDE DEF f, d, m
<1>3. /\ f.held \in Seq(Locks) /\ d.locks \in Seq(Bits) /\ d.lockset \subseteq Bits
      /\ f.ordered \in BOOLEAN /\ DOMAIN f.held = 1..Len(f.held) /\ Len(f.held) \in Nat
  BY <1>2 DEF FrameType, DataType
<1>4. i \in 1..Len(f.held) /\ f.held[i] = l
  BY <1>1, <1>3 DEF Range
<1> HIDE DEF i
<1> DEFINE n == Len(f.held)
<1>5. /\ left \in Seq(Locks) /\ Len(left) = n - 1
      /\ \A j \in 1..n - 1 : left[j] = IF j < i THEN f.held[j] ELSE f.held[j + 1]
  BY <1>3, <1>4, RemoveFacts
<1> HIDE DEF left
<1>6. /\ Len(d.locks) = n /\ d.locks # <<>> /\ n > 0 /\ n \in 1..n
  BY <1>2, <1>3, <1>4 DEF FrameOk
<1>7. /\ Top(d.locks) = d.locks[n] /\ Pop(d.locks) \in Seq(Bits) /\ Len(Pop(d.locks)) = n - 1
      /\ \A j \in 1..n - 1 : Pop(d.locks)[j] = d.locks[j]
  BY <1>3, <1>6, PopTop
<1>8. /\ g \in FrameType /\ g.held = left
      /\ g.ordered = (left = <<>> \/ (f.ordered /\ l = Top(f.held)))
  BY <1>2, <1>5 DEF FrameType
<1>9. /\ e \in DataType /\ e.locks = Pop(d.locks)
      /\ e.lockset = d.lockset \ {Top(d.locks)}
  BY <1>2, <1>3, <1>7 DEF DataType, removeLockFromLockset
<1> HIDE DEF g, e
<1>10. FrameOk(m, g, e)
  <2>0. /\ \A j \in 1..n : f.held[j] \in DOMAIN m
        /\ \A j, k \in 1..n : f.held[j] = f.held[k] => j = k
        /\ \A b \in d.lockset : \E j \in 1..n : d.locks[j] = b
        /\ f.ordered => \A j \in 1..n : d.locks[j] = m[f.held[j]]
        /\ Fits(m) /\ f.ordered => \A j \in 1..n : d.locks[j] \in d.lockset
    BY <1>2, <1>6 DEF FrameOk
  <2> HIDE DEF n
  <2>z. n \in Nat /\ i \in 1..n
    BY <1>3, <1>4 DEF n
  <2>1. Len(e.locks) = Len(g.held) /\ Len(g.held) = n - 1
    BY <1>5, <1>7, <1>8, <1>9
  <2>2. \A j \in 1..n - 1 : j \in 1..n /\ j + 1 \in 1..n /\ j # n
    BY <2>z
  <2>3. \A j \in 1..n - 1 : left[j] \in DOMAIN m
    BY <1>5, <2>0, <2>2
  <2>4. \A j, k \in 1..n - 1 : left[j] = left[k] => j = k
    <3> SUFFICES ASSUME NEW j \in 1..n - 1, NEW k \in 1..n - 1, left[j] = left[k]
                 PROVE  j = k
      OBVIOUS
    <3> DEFINE pj == IF j < i THEN j ELSE j + 1
               pk == IF k < i THEN k ELSE k + 1
    <3>1. pj \in 1..n /\ pk \in 1..n /\ left[j] = f.held[pj] /\ left[k] = f.held[pk]
      BY <1>5, <2>2
    <3>2. pj = pk
      <4> HIDE DEF pj, pk
      <4> QED
        BY <2>0, <3>1
    <3> QED
      BY <2>z, <3>2
  <2>5. \A b \in e.lockset : \E j \in 1..n - 1 : e.locks[j] = b
    <3>1. \A j \in 1..n : j = n \/ j \in 1..n - 1
      BY <2>z
    <3> QED
      BY <1>7, <1>9, <2>0, <3>1
  <2>6. ASSUME g.ordered, NEW j \in 1..n - 1
        PROVE  /\ e.locks[j] = m[left[j]]
               /\ Fits(m) => e.locks[j] \in e.lockset
    <3>1. left # <<>>
      BY <1>5, <2>z, <2>6
    <3>2. f.ordered /\ l = Top(f.held)
      BY <1>8, <2>6, <3>1
    <3>3. i = n
      <4>1. Top(f.held) = f.held[n]
        BY DEF Top, n
      <4> QED
        BY <1>4, <1>6, <2>0, <2>z, <3>2, <4>1
    <3>4. left[j] = f.held[j] /\ e.locks[j] = d.locks[j] /\ j \in 1..n /\ n \in 1..n /\ j # n
      BY <1>5, <1>6, <1>7, <1>9, <2>2, <2>z, <3>3
    <3>5. \A k \in 1..n : d.locks[k] = m[f.held[k]]
      BY <2>0, <2>6, <3>2
    <3>6. ASSUME Fits(m)
          PROVE  e.locks[j] \in e.lockset
      <4>1. f.held[j] # f.held[n] /\ f.held[j] \in DOMAIN m /\ f.held[n] \in DOMAIN m
        BY <2>0, <3>4
      <4>2. d.locks[j] # d.locks[n]
        BY <1>2, <3>4, <3>5, <3>6, <4>1 DEF GoodMap
      <4>3. d.locks[j] \in d.lockset
        BY <2>0, <3>2, <3>4, <3>6
      <4> QED
        BY <1>7, <1>9, <3>4, <4>2, <4>3
    <3> QED
      BY <3>4, <3>5, <3>6
  <2> QED
    BY <1>8, <2>1, <2>3, <2>4, <2>5, <2>6 DEF FrameOk
<1>11. /\ GoodMap(lockid_map') /\ Extends(lockid_map, lockid_map')
       /\ FrameOk(lockid_map', g, e)
  BY <1>1, <1>2, <1>10, ExtendsReflexive DEF m
<1> QED
  BY <1>1, <1>8, <1>9, <1>11, TopStep

-----------------------------------------------------------------------------
(* Accesses *)

\* What RecordAccess records of a task with the locks of f and the lockset of d.
LEMMA RegionFacts ==
    ASSUME NEW m, NEW n, GoodMap(m), GoodMap(n), Extends(m, n),
           NEW r \in Seq(Ops), Locked(r) \subseteq DOMAIN n, Unlocked(r) \subseteq DOMAIN n,
           NEW f \in FrameType, NEW d \in DataType, FrameOk(m, f, d)
    PROVE  LET a == [held |-> HeldAfter(Range(f.held), r),
                     lockset |-> RegionLockset(d.lockset, n, r),
                     ordered |-> f.ordered,
                     exact |-> f.ordered /\ TakesBackNone(r)]
           IN  a \in AccessType /\ AccessOk(n, a)
<1> DEFINE H == Range(f.held)
           held == HeldAfter(H, r)
           ls == RegionLockset(d.lockset, n, r)
           a == [held |-> held, lockset |-> ls, ordered |-> f.ordered,
                 exact |-> f.ordered /\ TakesBackNone(r)]
<1>0. /\ f.held \in Seq(Locks) /\ f.ordered \in BOOLEAN /\ d.lockset \subseteq Bits
      /\ d.locks \in Seq(Bits) /\ Len(d.locks) = Len(f.held)
      /\ DOMAIN n \subseteq Locks /\ n \in [DOMAIN n -> Bits]
  BY DEF FrameType, DataType, GoodMap, FrameOk
<1>1. /\ H = {f.held[i] : i \in 1..Len(f.held)} /\ H \subseteq DOMAIN n
      /\ H \subseteq DOMAIN m
  <2>1. DOMAIN f.held = 1..Len(f.held)
    BY <1>0
  <2>2. \A i \in 1..Len(f.held) : f.held[i] \in DOMAIN m
    BY DEF FrameOk
  <2> QED
    BY <2>1, <2>2 DEF Range, Extends
<1>2. held \subseteq H \cup Locked(r) /\ held \subseteq DOMAIN n
  BY <1>1 DEF HeldAfter
<1>3. \A l \in Locked(r) \cup Unlocked(r) : n[l] \in Bits
  BY <1>0
<1>4. ls \subseteq Bits
  BY <1>0, <1>3 DEF RegionLockset
<1>5. a \in AccessType
  <2>1. TakesBackNone(r) \in BOOLEAN
    BY DEF TakesBackNone
  <2> HIDE DEF held, ls
  <2> QED
    BY <1>0, <1>2, <1>4, <2>1 DEF AccessType
\* The lockset of the task is the image of its locks.
<1>6. ASSUME f.ordered
      PROVE  /\ \A b \in d.lockset : \E l \in H : n[l] = b
             /\ Fits(n) => \A l \in H : n[l] \in d.lockset
  <2>1. (Fits(n) => Fits(m)) /\ \A l \in DOMAIN m : n[l] = m[l]
    BY FitsBefore DEF Extends
  <2>2. /\ \A b \in d.lockset : \E i \in 1..Len(f.held) : d.locks[i] = b
        /\ \A i \in 1..Len(f.held) : /\ f.held[i] \in DOMAIN m
                                     /\ d.locks[i] = m[f.held[i]]
                                     /\ Fits(n) => d.locks[i] \in d.lockset
    BY <1>6, <2>1 DEF FrameOk
  <2> QED
    BY <1>1, <2>1, <2>2
<1>7. Fits(n) => \A k, l \in DOMAIN n : n[k] = n[l] => k = l
  BY DEF GoodMap
<1>8. DOMAIN r = 1..Len(r)
  OBVIOUS
<1> HIDE DEF H
\* A lock that is not released in the region is held after it.
<1>9. (H \cup Locked(r)) \ Unlocked(r) \subseteq held
  BY DEF HeldAfter, Unlocked
\* One that is held after it and was released was taken back.
<1>10. ASSUME TakesBackNone(r), NEW l \in held
       PROVE  l \notin Unlocked(r)
  <2> SUFFICES ASSUME l \in Unlocked(r)
               PROVE  FALSE
    OBVIOUS
  <2>1. PICK i \in DOMAIN r : r[i].op = "release" /\ r[i].lock = l
    BY DEF Unlocked
  <2>2. PICK j \in DOMAIN r : j > i /\ r[j].op = "acquire" /\ r[j].lock = l
    BY <1>10, <2>1 DEF HeldAfter
  <2>3. i < j
    BY <1>8, <2>2
  <2> QED
    BY <1>10, <2>1, <2>2, <2>3 DEF TakesBackNone
<1>11. ASSUME f.ordered, NEW b \in ls
       PROVE  \E l \in held : n[l] = b
  <2>1. /\ b \in d.lockset \/ \E l \in Locked(r) : n[l] = b
        /\ \A l \in Unlocked(r) : n[l] # b
    BY <1>11 DEF RegionLockset
  <2>2. \E l \in H \cup Locked(r) : n[l] = b
    BY <1>6, <1>11, <2>1
  <2> HIDE DEF held
  <2> QED
    BY <1>9, <2>1, <2>2
<1>12. ASSUME Fits(n), f.ordered, TakesBackNone(r), NEW l \in held
       PROVE  n[l] \in ls
  <2>1. l \in H \cup Locked(r) /\ l \in DOMAIN n
    BY <1>2, <1>12
  <2>2. n[l] \in d.lockset \cup {n[k] : k \in Locked(r)}
    BY <1>6, <1>12, <2>1
  <2>3. l \notin Unlocked(r)
    BY <1>10, <1>12
  <2>4. \A k \in Unlocked(r) : n[k] # n[l]
    BY <1>7, <1>12, <2>1, <2>3
  <2> QED
    BY <2>2, <2>4 DEF RegionLockset
<1> HIDE DEF held, ls
<1>13. AccessOk(n, a)
  BY <1>0, <1>2, <1>11, <1>12 DEF AccessOk
<1> QED
  BY <1>5, <1>13 DEF held, ls, H

\* RecordAccess takes the locks of its region and of its task into account.
LEMMA RecordAccessStep ==
    ASSUME Inv, NEW th \in Threads, NEW r \in Regions, RecordAccess(th, r)
    PROVE  Inv'
<1> DEFINE f == Top(frames[th])
           d == Top(thd_lockset[th])
           n == RegionIds(lockid_map, r)
           a == [held |-> HeldAfter(Range(f.held), r),
                 lockset |-> RegionLockset(d.lockset, n, r),
                 ordered |-> f.ordered,
                 exact |-> f.ordered /\ TakesBackNone(r)]
<1>1. /\ frames[th] # <<>> /\ lockid_map' = n
      /\ accesses' = accesses \cup {a} /\ UNCHANGED <<thd_lockset, frames>>
  BY DEF RecordAccess, Running, AccessOf
<1>2. r \in Seq(Ops)
  BY LocksetAssumption DEF Ops
<1>3. GoodMap(lockid_map) /\ StacksOk(lockid_map) /\ AccessesOk(lockid_map)
  BY DEF Inv
<1>4. f \in FrameType /\ d \in DataType /\ FrameOk(lockid_map, f, d)
  BY <1>1, <1>3, StackTop
<1>5. /\ GoodMap(n) /\ Extends(lockid_map, n)
      /\ Locked(r) \subseteq DOMAIN n /\ Unlocked(r) \subseteq DOMAIN n
  BY <1>2, <1>3, RegionIdsStep
<1> HIDE DEF f, d, n
<1>6. a \in AccessType /\ AccessOk(n, a)
  BY <1>2, <1>3, <1>4, <1>5, RegionFacts
<1> HIDE DEF a
<1>7. AccessesOk(lockid_map)'
  BY <1>1, <1>3, <1>5, <1>6, MapGrows DEF AccessesOk
<1>8. StacksOk(lockid_map)'
  BY <1>1, <1>3, <1>5, MapGrows DEF StacksOk
<1> QED
  BY <1>1, <1>5, <1>7, <1>8 DEF Inv

\* Every step of every thread keeps the invariant.
LEMMA StepInv == Inv /\ [Next]_vars => Inv'
<1> SUFFICES ASSUME Inv, [Next]_vars
             PROVE  Inv'
  OBVIOUS
<1>1. ASSUME NEW th \in Threads, CaptureExecute(th)
      PROVE  Inv'
  BY <1>1, CaptureExecuteStep
<1>2. ASSUME NEW th \in Threads, CaptureReturn(th)
      PROVE  Inv'
  BY <1>2, CaptureReturnStep
<1>3. ASSUME NEW th \in Threads, Wait(th)
      PROVE  Inv'
  BY <1>3, SwitchStep DEF Wait, Running
<1>4. ASSUME NEW th \in Threads, Resume(th)
      PROVE  Inv'
  BY <1>4, SwitchStep DEF Resume
<1>5. ASSUME NEW th \in Threads, NEW l \in Locks, CaptureLockAcquire(th, l)
      PROVE  Inv'
  BY <1>5, CaptureLockAcquireStep
<1>6. ASSUME NEW th \in Threads, NEW l \in Locks, CaptureLockRelease(th, l)
      PROVE  Inv'
  BY <1>6, CaptureLockReleaseStep
<1>7. ASSUME NEW th \in Threads, NEW r \in Regions, RecordAccess(th, r)
      PROVE  Inv'
  BY <1>7, RecordAccessStep
<1>8. CASE UNCHANGED vars
  BY <1>8 DEF vars, Inv, StacksOk, AccessesOk
<1> QED
  BY <1>1, <1>2, <1>3, <1>4, <1>5, <1>6, <1>7, <1>8 DEF Next

\* Stacks of tasks and of locksets, and the map of lock ids, fit each other at all times.
THEOREM LocksetInvariant == Spec => []Inv
<1> QED
  BY InitInv, StepInv, PTL DEF Spec

-----------------------------------------------------------------------------
(* What follows *)

\* The stack of locksets of a thread is as deep as its tasks are nested, and every mask
\* is made of bits a mask has.
THEOREM LocksetTypes == Spec => []TypeOK
<1>1. Inv => TypeOK
  <2> SUFFICES ASSUME Inv PROVE TypeOK
    OBVIOUS
  <2>1. /\ DOMAIN lockid_map \subseteq Locks /\ lockid_map \in [DOMAIN lockid_map -> Bits]
    BY DEF Inv, GoodMap
  <2>2. /\ thd_lockset \in [Threads -> Seq([lockset : SUBSET Bits, locks : Seq(Bits)])]
        /\ \A th \in Threads : Len(frames[th]) = Len(thd_lockset[th])
    BY DEF Inv, StacksOk, DataType
  <2>3. \A a \in accesses : a.held \subseteq Locks /\ a.lockset \subseteq Bits
    BY DEF Inv, AccessesOk, AccessType
  <2> QED
    BY <2>1, <2>2, <2>3 DEF TypeOK
<1> QED
  BY <1>1, LocksetInvariant, PTL

\* What the running tasks would record without a region is described by Inv as well.
LEMMA KnownAccessesOk ==
    ASSUME Inv, NEW a \in KnownAccesses
    PROVE  AccessOk(lockid_map, a)
<1>1. CASE a \in accesses
  BY <1>1 DEF Inv, AccessesOk
<1>2. CASE a \notin accesses
  <2>1. PICK th \in Threads : Running(th) /\ a = AccessOf(th, <<>>)
    BY <1>2 DEF KnownAccesses
  <2>2. /\ Top(frames[th]) \in FrameType /\ Top(thd_lockset[th]) \in DataType
        /\ FrameOk(lockid_map, Top(frames[th]), Top(thd_lockset[th]))
        /\ GoodMap(lockid_map)
    BY <2>1, StackTop DEF Inv, Running
  <2>3. <<>> \in Seq(Ops) /\ Locked(<<>>) = {} /\ Unlocked(<<>>) = {}
    BY DEF Locked, Unlocked
  <2> DEFINE f == Top(frames[th])
             d == Top(thd_lockset[th])
             b(n) == [held |-> HeldAfter(Range(f.held), <<>>),
                      lockset |-> RegionLockset(d.lockset, n, <<>>),
                      ordered |-> f.ordered,
                      exact |-> f.ordered /\ TakesBackNone(<<>>)]
  <2>4. a = b(RegionIds(lockid_map, <<>>))
    BY <2>1 DEF AccessOf
  <2>5. \A n : RegionLockset(d.lockset, n, <<>>) = d.lockset
    BY <2>3 DEF RegionLockset
  <2>6. a = b(lockid_map)
    BY <2>4, <2>5
  <2>7. Extends(lockid_map, lockid_map)
    BY ExtendsReflexive
  <2> HIDE DEF f, d
  <2>8. AccessOk(lockid_map, b(lockid_map))
    BY <2>2, <2>3, <2>7, RegionFacts DEF f, d
  <2> QED
    BY <2>6, <2>8
<1> QED
  BY <1>1, <1>2

\* Every bit of a mask is that of a lock held, however many locks there are, while tasks
\* give back their last lock first; and no mask claims more locks than the task holds, in
\* whatever order it gives them back.
THEOREM NoLockIsInvented == Spec => []NoLockInvented
<1>1. ASSUME Inv, NEW a \in KnownAccesses, a.ordered
      PROVE  a.lockset \subseteq {lockid_map[l] : l \in a.held}
  BY <1>1, KnownAccessesOk DEF AccessOk
<1>2. ASSUME Inv, NEW th \in Threads, NEW i \in DOMAIN frames[th]
      PROVE  Cardinality(thd_lockset[th][i].lockset) <= Len(frames[th][i].held)
  <2> DEFINE d == thd_lockset[th][i]
  <2>1. /\ frames[th] \in Seq(FrameType) /\ thd_lockset[th] \in Seq(DataType)
        /\ Len(frames[th]) = Len(thd_lockset[th])
    BY <1>2 DEF Inv, StacksOk
  <2>2. i \in 1..Len(frames[th]) /\ i \in 1..Len(thd_lockset[th])
    BY <1>2, <2>1
  <2>3. d \in DataType /\ FrameOk(lockid_map, frames[th][i], d)
    BY <1>2, <2>1, <2>2 DEF Inv, StacksOk
  <2>4. d.locks \in Seq(Bits) /\ Len(d.locks) = Len(frames[th][i].held)
        /\ \A b \in d.lockset : \E j \in 1..Len(d.locks) : d.locks[j] = b
    BY <2>3 DEF DataType, FrameOk
  <2> HIDE DEF d
  <2>5. Cardinality(d.lockset) <= Len(d.locks)
    BY <2>4, FewElements
  <2> QED
    BY <2>4, <2>5 DEF d
<1>3. Inv => NoLockInvented
  BY <1>1, <1>2 DEF NoLockInvented
<1> QED
  BY <1>3, LocksetInvariant, PTL

\* A summary of a branch never hides a race, as long as the locks fit into a mask and
\* the task gives back its last lock first.
THEOREM NoRaceIsHidden == Spec => []NoRaceHidden
<1>1. Inv => NoRaceHidden
  <2> SUFFICES ASSUME Inv, LocksFit, NEW a \in KnownAccesses, NEW b \in KnownAccesses,
                      a.ordered, b.ordered, TakenForSafe(a, b)
               PROVE  Protected(a, b)
    BY DEF NoRaceHidden
  <2>1. /\ AccessOk(lockid_map, a) /\ AccessOk(lockid_map, b)
        /\ Fits(lockid_map) /\ GoodMap(lockid_map)
    BY KnownAccessesOk DEF Inv, LocksFit, Fits
  <2>2. PICK t : t \in a.lockset /\ t \in b.lockset
    BY DEF TakenForSafe
  <2>3. PICK k \in a.held : lockid_map[k] = t
    BY <2>1, <2>2 DEF AccessOk
  <2>4. PICK l \in b.held : lockid_map[l] = t
    BY <2>1, <2>2 DEF AccessOk
  <2>5. k = l
    BY <2>1, <2>3, <2>4 DEF AccessOk, GoodMap
  <2> QED
    BY <2>3, <2>4, <2>5 DEF Protected
<1> QED
  BY <1>1, LocksetInvariant, PTL

\* Two masks tell exactly whether two accesses share a lock, under the same conditions
\* and if no branch takes back a lock it gave back.
THEOREM MasksAreExact == Spec => []MasksTellLocks
<1>1. Inv => MasksTellLocks
  <2> SUFFICES ASSUME Inv, LocksFit, NEW a \in KnownAccesses, NEW b \in KnownAccesses,
                      a.exact, b.exact
               PROVE  TakenForSafe(a, b) <=> Protected(a, b)
    BY DEF MasksTellLocks
  <2>1. /\ AccessOk(lockid_map, a) /\ AccessOk(lockid_map, b)
        /\ Fits(lockid_map) /\ GoodMap(lockid_map)
    BY KnownAccessesOk DEF Inv, LocksFit, Fits
  <2>2. a.ordered /\ b.ordered
    BY <2>1 DEF AccessOk
  <2>3. ASSUME TakenForSafe(a, b)
        PROVE  Protected(a, b)
    <3>1. PICK t : t \in a.lockset /\ t \in b.lockset
      BY <2>3 DEF TakenForSafe
    <3>2. PICK k \in a.held : lockid_map[k] = t
      BY <2>1, <2>2, <3>1 DEF AccessOk
    <3>3. PICK l \in b.held : lockid_map[l] = t
      BY <2>1, <2>2, <3>1 DEF AccessOk
    <3>4. k = l
      BY <2>1, <3>2, <3>3 DEF AccessOk, GoodMap
    <3> QED
      BY <3>2, <3>3, <3>4 DEF Protected
  <2>4. ASSUME Protected(a, b)
        PROVE  TakenForSafe(a, b)
    <3>1. PICK l : l \in a.held /\ l \in b.held
      BY <2>4 DEF Protected
    <3>2. lockid_map[l] \in a.lockset /\ lockid_map[l] \in b.lockset
      BY <2>1, <3>1 DEF AccessOk
    <3> QED
      BY <3>2 DEF TakenForSafe
  <2> QED
    BY <2>3, <2>4
<1> QED
  BY <1>1, LocksetInvariant, PTL
=============================================================================
