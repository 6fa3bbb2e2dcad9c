------------------------ MODULE ShadowSpace_proofs ------------------------
(***************************************************************************)
(* Concurrent accesses through get_cur_tid, the shadow table and           *)
(* all_violations, for any threads, addresses, table sizes and number of   *)
(* calls: each thread has an index of its own, a report names a conflict,  *)
(* and a race is lost only if first touches or insertions overlapped.      *)
(***************************************************************************)
EXTENDS ShadowSpace, TLAPS

-----------------------------------------------------------------------------
(* The index of a thread *)

TidPcs == {"out", "count", "insert", "at", "got", "thrown"}

TidType ==
    /\ DOMAIN tid_map \subseteq Pthreads
    /\ \A p \in DOMAIN tid_map : tid_map[p] \in Nat
    /\ tid_ctr \in Nat
    /\ tid_pc \in [Pthreads -> TidPcs]
    /\ my_tid \in [Pthreads -> Nat]

\* The one who holds the lock has taken the last index, for a thread that had none.
Inserter ==
    /\ tid_map_lock = {p \in Pthreads : tid_pc[p] = "insert"}
    /\ \A p, q \in tid_map_lock : p = q
    /\ \A p \in tid_map_lock : p \notin DOMAIN tid_map /\ my_tid[p] + 1 = tid_ctr

\* The indices given are the first ones, each to one thread.
Given ==
    /\ \A p, q \in DOMAIN tid_map : tid_map[p] = tid_map[q] => p = q
    /\ \A p \in DOMAIN tid_map : tid_map[p] < tid_ctr
    /\ \A n \in Nat : n < tid_ctr =>
          \/ \E p \in DOMAIN tid_map : tid_map[p] = n
          \/ \E p \in tid_map_lock : my_tid[p] = n
    /\ \A p \in DOMAIN tid_map : \A q \in tid_map_lock : tid_map[p] # my_tid[q]

\* Who has looked itself up is in the map.
Found ==
    \A p \in Pthreads :
       /\ tid_pc[p] \in {"at", "got"} => p \in DOMAIN tid_map
       /\ tid_pc[p] = "got" => my_tid[p] = tid_map[p]

\* The main thread comes first.
MainFirst ==
    /\ MainThread \in DOMAIN tid_map => tid_map[MainThread] = 0
    /\ \A p \in Pthreads :
          tid_pc[p] # "out" \/ p \in DOMAIN tid_map =>
             p = MainThread \/ MainThread \in DOMAIN tid_map

TidInv == TidType /\ Inserter /\ Given /\ Found /\ MainFirst

\* No thread has an index at first.
LEMMA InitTidInv == TidInit => TidInv
<1> SUFFICES ASSUME TidInit PROVE TidInv
  OBVIOUS
<1>1. DOMAIN tid_map = {}
  BY DEF TidInit
<1>2. /\ tid_ctr = 0 /\ tid_map_lock = {}
      /\ tid_pc = [p \in Pthreads |-> "out"] /\ my_tid = [p \in Pthreads |-> 0]
  BY DEF TidInit
<1> QED
  BY <1>1, <1>2 DEF TidInv, TidType, TidPcs, Inserter, Given, Found, MainFirst

\* A thread that is not in get_cur_tid calls it.
LEMMA CallTidStep ==
    ASSUME TidInv, NEW p \in Pthreads, tid_pc[p] = "out", CallTid(p)
    PROVE  TidInv'
<1>1. /\ UNCHANGED <<tid_map, tid_ctr, tid_map_lock, my_tid>>
      /\ tid_pc' = [tid_pc EXCEPT ![p] = "count"]
      /\ p # MainThread => MainThread \in DOMAIN tid_map
  BY DEF CallTid, Goto
<1>2. TidType'
  BY <1>1 DEF TidInv, TidType, TidPcs
<1>3. \A q \in Pthreads : tid_pc'[q] = IF q = p THEN "count" ELSE tid_pc[q]
  BY <1>1 DEF TidInv, TidType
<1>4. Inserter'
  BY <1>1, <1>3 DEF TidInv, Inserter
<1>5. Given'
  BY <1>1 DEF TidInv, Given
<1>6. Found' /\ MainFirst'
  BY <1>1, <1>3 DEF TidInv, Found, MainFirst
<1> QED
  BY <1>2, <1>4, <1>5, <1>6 DEF TidInv

\* It leaves with an index.
LEMMA LeaveStep ==
    ASSUME TidInv, NEW p \in Pthreads, Got(p), Goto(p, "out"),
           UNCHANGED <<tid_map, tid_ctr, tid_map_lock, my_tid>>
    PROVE  TidInv'
<1>1. TidType'
  BY DEF TidInv, TidType, TidPcs, Goto
<1>2. \A q \in Pthreads : tid_pc'[q] = IF q = p THEN "out" ELSE tid_pc[q]
  BY DEF TidInv, TidType, Goto
<1>3. Inserter'
  BY <1>2 DEF TidInv, Inserter, Got
<1>4. Given'
  BY DEF TidInv, Given
<1>5. Found' /\ MainFirst'
  BY <1>2 DEF TidInv, Found, MainFirst
<1> QED
  BY <1>1, <1>3, <1>4, <1>5 DEF TidInv

\* A thread takes the next index, or finds that it has one.
LEMMA CountStep ==
    ASSUME TidInv, NEW p \in Pthreads, Count(p)
    PROVE  TidInv'
<1>0. /\ tid_pc[p] = "count" /\ tid_map_lock = {} /\ tid_map' = tid_map
      /\ TidType /\ Inserter /\ Given /\ Found /\ MainFirst
  BY DEF Count, TidInv
<1>1. CASE p \in DOMAIN tid_map
  <2>1. /\ UNCHANGED <<tid_ctr, tid_map_lock, my_tid>>
        /\ tid_pc' = [tid_pc EXCEPT ![p] = "at"]
    BY <1>1 DEF Count, Goto
  <2>2. \A q \in Pthreads : tid_pc'[q] = IF q = p THEN "at" ELSE tid_pc[q]
    BY <1>0, <2>1 DEF TidType
  <2>3. TidType'
    BY <1>0, <2>1 DEF TidType, TidPcs
  <2>4. Inserter' /\ Given'
    BY <1>0, <2>1, <2>2 DEF Inserter, Given
  <2>5. Found' /\ MainFirst'
    BY <1>0, <1>1, <2>1, <2>2 DEF Found, MainFirst
  <2> QED
    BY <2>3, <2>4, <2>5 DEF TidInv
<1>2. CASE p \notin DOMAIN tid_map
  <2>1. /\ tid_map_lock' = {p} /\ tid_ctr' = tid_ctr + 1
        /\ tid_pc' = [tid_pc EXCEPT ![p] = "insert"]
        /\ my_tid' = [my_tid EXCEPT ![p] = tid_ctr]
    BY <1>2 DEF Count, Goto
  <2>2. \A q \in Pthreads :
           /\ tid_pc'[q] = IF q = p THEN "insert" ELSE tid_pc[q]
           /\ my_tid'[q] = IF q = p THEN tid_ctr ELSE my_tid[q]
    BY <1>0, <2>1 DEF TidType
  <2>3. TidType'
    BY <1>0, <2>1 DEF TidType, TidPcs
  <2>4. Inserter'
    BY <1>0, <1>2, <2>1, <2>2 DEF Inserter
  <2>5. Given'
    <3>1. \A n \in Nat : n < tid_ctr + 1 => n < tid_ctr \/ n = tid_ctr
      BY <1>0 DEF TidType
    <3>2. \A q \in DOMAIN tid_map : tid_map[q] < tid_ctr + 1 /\ tid_map[q] # tid_ctr
      BY <1>0 DEF TidType, Given
    <3>3. \A n \in Nat : n < tid_ctr => \E q \in DOMAIN tid_map : tid_map[q] = n
      BY <1>0 DEF Given
    <3>4. my_tid'[p] = tid_ctr
      BY <2>2
    <3> QED
      BY <1>0, <2>1, <3>1, <3>2, <3>3, <3>4 DEF Given
  <2>6. Found' /\ MainFirst'
    BY <1>0, <2>1, <2>2 DEF Found, MainFirst
  <2> QED
    BY <2>3, <2>4, <2>5, <2>6 DEF TidInv
<1> QED
  BY <1>1, <1>2

\* Its index enters the map under the lock that it took.
LEMMA InsertStep ==
    ASSUME TidInv, NEW p \in Pthreads, Insert(p)
    PROVE  TidInv'
<1>0. /\ tid_pc[p] = "insert" /\ tid_ctr' = tid_ctr /\ my_tid' = my_tid
      /\ tid_map_lock' = {}
      /\ tid_map' = [k \in DOMAIN tid_map \cup {p} |-> IF k = p THEN my_tid[p] ELSE tid_map[k]]
      /\ tid_pc' = [tid_pc EXCEPT ![p] = "got"]
      /\ TidType /\ Inserter /\ Given /\ Found /\ MainFirst
  BY DEF Insert, Goto, TidInv
<1>1. /\ tid_map_lock = {p} /\ p \notin DOMAIN tid_map /\ my_tid[p] + 1 = tid_ctr
      /\ my_tid[p] \in Nat
  BY <1>0 DEF Inserter, TidType
<1>2. /\ DOMAIN tid_map' = DOMAIN tid_map \cup {p}
      /\ tid_map'[p] = my_tid[p]
      /\ \A k \in DOMAIN tid_map : tid_map'[k] = tid_map[k]
  BY <1>0, <1>1
<1>3. \A q \in Pthreads : tid_pc'[q] = IF q = p THEN "got" ELSE tid_pc[q]
  BY <1>0 DEF TidType
<1>4. TidType'
  BY <1>0, <1>1, <1>2 DEF TidType, TidPcs
<1>5. Inserter'
  BY <1>0, <1>1, <1>3 DEF Inserter
<1>6. Given'
  <2>1. \A k \in DOMAIN tid_map : tid_map[k] # my_tid[p] /\ tid_map[k] < tid_ctr
    BY <1>0, <1>1 DEF Given
  <2>2. my_tid[p] < tid_ctr
    BY <1>0, <1>1 DEF TidType
  <2>3. \A n \in Nat : n < tid_ctr => n = my_tid[p] \/ \E k \in DOMAIN tid_map : tid_map[k] = n
    BY <1>0, <1>1 DEF Given
  <2> QED
    BY <1>0, <1>2, <2>1, <2>2, <2>3 DEF Given
<1>7. Found'
  BY <1>0, <1>2, <1>3 DEF Found, TidType
<1>8. MainFirst'
  <2>1. CASE p = MainThread
    <3>1. DOMAIN tid_map = {}
      BY <1>0, <1>1, <2>1 DEF MainFirst, TidType
    <3>2. my_tid[p] = 0
      <4>1. ~(0 < my_tid[p])
        <5>1. 0 < my_tid[p] => 0 < tid_ctr /\ 0 # my_tid[p]
          BY <1>1, <1>0 DEF TidType
        <5> QED
          BY <1>0, <1>1, <3>1, <5>1 DEF Given
      <4> QED
        BY <1>1, <4>1
    <3> QED
      BY <1>2, <2>1, <3>2 DEF MainFirst
  <2>2. CASE p # MainThread
    BY <1>0, <1>1, <1>2, <1>3, <2>2 DEF MainFirst
  <2> QED
    BY <2>1, <2>2
<1> QED
  BY <1>4, <1>5, <1>6, <1>7, <1>8 DEF TidInv

\* Reading the index back finds the one that was given.
LEMMA AtStep ==
    ASSUME TidInv, NEW p \in Pthreads, At(p)
    PROVE  TidInv'
<1>0. /\ tid_pc[p] = "at" /\ UNCHANGED <<tid_map, tid_ctr, tid_map_lock>>
      /\ TidType /\ Inserter /\ Given /\ Found /\ MainFirst
  BY DEF At, TidInv
<1>1. p \in DOMAIN tid_map /\ tid_map[p] \in Nat /\ p \notin tid_map_lock
  BY <1>0 DEF Found, TidType, Inserter
<1>2. ASSUME my_tid' = [my_tid EXCEPT ![p] = tid_map[p]], Goto(p, "got")
      PROVE  TidInv'
  <2>1. \A q \in Pthreads :
           /\ tid_pc'[q] = IF q = p THEN "got" ELSE tid_pc[q]
           /\ my_tid'[q] = IF q = p THEN tid_map[p] ELSE my_tid[q]
    BY <1>0, <1>2 DEF TidType, Goto
  <2>2. TidType'
    BY <1>0, <1>1, <1>2 DEF TidType, TidPcs, Goto
  <2>3. tid_map_lock \subseteq Pthreads
    BY <1>0 DEF Inserter
  <2>4. Inserter' /\ Given'
    BY <1>0, <1>1, <2>1, <2>3 DEF Inserter, Given
  <2>5. Found' /\ MainFirst'
    BY <1>0, <1>1, <2>1 DEF Found, MainFirst
  <2> QED
    BY <2>2, <2>4, <2>5 DEF TidInv
<1>3. ASSUME Goto(p, "thrown"), UNCHANGED my_tid
      PROVE  TidInv'
  <2>1. \A q \in Pthreads : tid_pc'[q] = IF q = p THEN "thrown" ELSE tid_pc[q]
    BY <1>0, <1>3 DEF TidType, Goto
  <2>2. TidType'
    BY <1>0, <1>3 DEF TidType, TidPcs, Goto
  <2>3. Inserter' /\ Given'
    BY <1>0, <1>3, <2>1 DEF Inserter, Given
  <2>4. Found' /\ MainFirst'
    BY <1>0, <1>1, <1>3, <2>1 DEF Found, MainFirst
  <2> QED
    BY <2>2, <2>3, <2>4 DEF TidInv
<1> QED
  BY <1>2, <1>3 DEF At

\* The invariant is about these variables alone.
LEMMA SameTid == TidInv /\ UNCHANGED tidVars => TidInv'
BY DEF tidVars, TidInv, TidType, Inserter, Given, Found, MainFirst

\* What get_cur_tid promises follows.
LEMMA TidInvGivesIndex == TidInv => OwnIndex
<1> SUFFICES ASSUME TidInv PROVE OwnIndex
  OBVIOUS
<1>0. TidType /\ Inserter /\ Given /\ Found /\ MainFirst
  BY DEF TidInv
<1>1. \A p \in Pthreads : Got(p) => p \in DOMAIN tid_map /\ my_tid[p] = tid_map[p]
  BY <1>0 DEF Found, Got
<1>2. \A p, q \in {t \in Pthreads : Got(t)} : p # q => my_tid[p] # my_tid[q]
  BY <1>0, <1>1 DEF Given
<1>3. ASSUME tid_map_lock = {}
      PROVE  {tid_map[p] : p \in DOMAIN tid_map} = 0..tid_ctr - 1
  <2>1. \A p \in DOMAIN tid_map : tid_map[p] \in 0..tid_ctr - 1
    BY <1>0 DEF TidType, Given
  <2>2. \A n \in 0..tid_ctr - 1 : n \in Nat /\ n < tid_ctr
    BY <1>0 DEF TidType
  <2>3. \A n \in 0..tid_ctr - 1 : \E p \in DOMAIN tid_map : tid_map[p] = n
    BY <1>0, <1>3, <2>2 DEF Given
  <2> QED
    BY <2>1, <2>3
<1> QED
  BY <1>0, <1>1, <1>2, <1>3 DEF OwnIndex, MainFirst

-----------------------------------------------------------------------------
(* The shadow table *)

Pcs == {"idle", "exceptions", "table", "store", "lock", "insert"}

Accesses == [thread : Pthreads, addr : Addrs, type : AccessTypes, table : 1..mapped]

Index(p) == primary_index(call[p].addr)

\* It has a table, published or not.
Holding(p) == pc[p] \in {"store", "lock", "insert"}

ShadowType ==
    /\ mapped \in Nat
    /\ shadow_space \in [0..PrimaryEntries - 1 -> 0..mapped]
    /\ all_violations \subseteq Addrs
    /\ pc \in [Pthreads -> Pcs]
    /\ call \in [Pthreads -> Calls \cup {NoCall}]
    /\ \A p \in Pthreads : pc[p] # "idle" => call[p] \in Calls
    /\ primary_entry \in [Pthreads -> 0..mapped]
    /\ \A p \in Pthreads : Holding(p) => primary_entry[p] \in 1..mapped
    /\ snapshot \in [Pthreads -> SUBSET Addrs]
    /\ recorded \subseteq Accesses /\ raced \subseteq Accesses
    /\ overlapped \in BOOLEAN

\* get_cur_tid is called at the beginning of RecordMem.
InCall == \A p \in Pthreads : pc[p] # "exceptions" => tid_pc[p] = "out"

\* addr_lock is held during the insertion of a violation.
Locks ==
    /\ locked = {Cell(p) : p \in {q \in Pthreads : Inserting(q)}}
    /\ \A p, q \in Pthreads :
          Inserting(p) /\ Inserting(q) /\ Cell(p) = Cell(q) => p = q

\* Table t serves the addresses of index i: it is published there, a thread has it for
\* an address of that index, or an access of that index was recorded in it.
Serves(t, i) ==
    \/ i \in 0..PrimaryEntries - 1 /\ shadow_space[i] = t
    \/ \E p \in Pthreads : Holding(p) /\ primary_entry[p] = t /\ Index(p) = i
    \/ \E x \in Performed : x.table = t /\ primary_index(x.addr) = i

\* No table serves two indices.
OneIndex == \A t \in 1..mapped : \A i, j \in 0..PrimaryEntries - 1 : Serves(t, i) /\ Serves(t, j) => i = j

\* Who uses a table found one published; the same one as everybody, if the first
\* touches of the index did not overlap.
Published ==
    /\ \A p \in Pthreads : pc[p] \in {"lock", "insert"} =>
          /\ shadow_space[Index(p)] # 0
          /\ Index(p) \in torn \/ shadow_space[Index(p)] = primary_entry[p]
    /\ \A x \in Performed :
          /\ shadow_space[primary_index(x.addr)] # 0
          /\ \/ primary_index(x.addr) \in torn
             \/ shadow_space[primary_index(x.addr)] = x.table

\* Who is to publish a table is the first and alone, or its index is torn.
Alone ==
    \A p \in Pthreads : pc[p] = "store" =>
       \/ Index(p) \in torn
       \/ /\ shadow_space[Index(p)] = 0
          /\ \A q \in Pthreads : pc[q] = "store" /\ Index(q) = Index(p) => q = p

\* What is recorded in a cell has no conflict.
Peaceful ==
    \A x, y \in recorded :
       x.table = y.table /\ offset(x.addr) = offset(y.addr) => ~Conflict(x, y)

\* A race is in all_violations or on the way there, unless an insertion was lost.
Noted ==
    \A x \in raced :
       \/ x.addr \in all_violations
       \/ \E p \in Pthreads : Inserting(p) /\ call[p].addr = x.addr
       \/ overlapped

\* One insertion at a time loses nothing.
OneAtATime ==
    overlapped \/
       /\ \A p, q \in Pthreads : Inserting(p) /\ Inserting(q) => p = q
       /\ \A p \in Pthreads : Inserting(p) => snapshot[p] = all_violations

Witnessed(a) ==
    \E x, y \in Performed : x.addr = a /\ SameCell(a, y.addr) /\ Conflict(x, y)

\* Whatever may end up in all_violations was seen to conflict.
Founded ==
    /\ \A a \in all_violations : Witnessed(a)
    /\ \A p \in Pthreads : Inserting(p) =>
          Witnessed(call[p].addr) /\ \A a \in snapshot[p] : Witnessed(a)

ShadowInv ==
    /\ TidInv /\ ShadowType /\ InCall /\ Locks /\ OneIndex /\ Published /\ Alone
    /\ Peaceful /\ Noted /\ OneAtATime /\ Founded

\* An address leads to an entry of the primary table.
LEMMA IndexInRange ==
    \A a \in Addrs : primary_index(a) \in 0..PrimaryEntries - 1
<1> SUFFICES ASSUME NEW a \in Addrs
             PROVE  primary_index(a) \in 0..PrimaryEntries - 1
  OBVIOUS
<1>1. /\ a \in Nat /\ PrimaryEntries \in Nat /\ PrimaryEntries > 0
      /\ SecEntries \in Nat /\ SecEntries > 0
  BY ShadowAssumption
<1>2. a \div SecEntries \in Int
  BY <1>1
<1>3. (a \div SecEntries) % PrimaryEntries \in 0..PrimaryEntries - 1
  BY <1>1, <1>2
<1> QED
  BY <1>3 DEF primary_index

\* With no table and no call the invariant holds.
LEMMA InitShadowInv == Init => ShadowInv
<1> SUFFICES ASSUME Init PROVE ShadowInv
  OBVIOUS
<1>1. TidInv
  BY InitTidInv DEF Init
<1>2. /\ shadow_space = [i \in 0..PrimaryEntries - 1 |-> 0] /\ mapped = 0
      /\ locked = {} /\ all_violations = {} /\ Performed = {}
      /\ recorded = {} /\ raced = {} /\ overlapped = FALSE
      /\ \A q \in Pthreads : pc[q] = "idle" /\ tid_pc[q] = "out"
  BY DEF Init, TidInit, Performed
<1>3. ShadowType
  <2>1. shadow_space \in [0..PrimaryEntries - 1 -> 0..mapped]
    BY <1>2
  <2>2. /\ pc \in [Pthreads -> Pcs] /\ call \in [Pthreads -> Calls \cup {NoCall}]
        /\ primary_entry \in [Pthreads -> 0..mapped]
        /\ snapshot \in [Pthreads -> SUBSET Addrs]
    BY <1>2 DEF Init, Pcs
  <2> QED
    BY <1>2, <2>1, <2>2 DEF ShadowType, Holding
<1>4. InCall
  BY <1>2 DEF InCall
<1>5. Locks /\ Alone /\ Peaceful /\ Noted /\ OneAtATime /\ Founded /\ Published
  BY <1>2 DEF Locks, Alone, Peaceful, Noted, OneAtATime, Founded, Published, Inserting
<1>6. OneIndex
  BY <1>2 DEF OneIndex, Serves, Holding
<1> QED
  BY <1>1, <1>3, <1>4, <1>5, <1>6 DEF ShadowInv

\* A step that leaves the memory and the threads with a table alone.
LEMMA QuietStep ==
    ASSUME ShadowInv, UNCHANGED <<memVars, truthVars>>,
           \A q \in Pthreads : Holding(q) =>
              /\ pc'[q] = pc[q] /\ call'[q] = call[q]
              /\ primary_entry'[q] = primary_entry[q] /\ snapshot'[q] = snapshot[q],
           \A q \in Pthreads : Holding(q)' => Holding(q)
    PROVE  /\ Locks' /\ OneIndex' /\ Published' /\ Alone'
           /\ Peaceful' /\ Noted' /\ OneAtATime' /\ Founded'
<1>0. /\ UNCHANGED <<shadow_space, mapped, locked, all_violations>>
      /\ UNCHANGED <<recorded, raced, torn, overlapped>>
      /\ Performed' = Performed
  BY DEF memVars, truthVars, Performed
<1>1. \A q \in Pthreads :
         /\ Inserting(q)' <=> Inserting(q)
         /\ (pc[q] = "store")' <=> pc[q] = "store"
         /\ (pc[q] \in {"lock", "insert"})' <=> pc[q] \in {"lock", "insert"}
         /\ Holding(q)' <=> Holding(q)
  BY DEF Holding, Inserting
<1>2. \A q \in Pthreads : Holding(q) => Index(q)' = Index(q) /\ Cell(q)' = Cell(q)
  BY DEF Index, Cell
<1>3. \A q \in Pthreads :
         pc[q] = "store" \/ pc[q] \in {"lock", "insert"} \/ Inserting(q) => Holding(q)
  BY DEF Holding, Inserting
<1>4. Locks'
  BY <1>0, <1>1, <1>2, <1>3 DEF ShadowInv, Locks
<1>5. OneIndex'
  <2>1. \A t, i : Serves(t, i)' <=> Serves(t, i)
    BY <1>0, <1>1, <1>2 DEF Serves
  <2> QED
    BY <1>0, <2>1 DEF ShadowInv, OneIndex
<1>6. Published' /\ Alone'
  BY <1>0, <1>1, <1>2, <1>3 DEF ShadowInv, Published, Alone
<1>7. Peaceful' /\ Noted' /\ OneAtATime'
  BY <1>0, <1>1, <1>3 DEF ShadowInv, Peaceful, Noted, OneAtATime
<1>8. Founded'
  <2>1. \A a : Witnessed(a)' <=> Witnessed(a)
    BY <1>0 DEF Witnessed
  <2> QED
    BY <1>0, <1>1, <1>3, <2>1 DEF ShadowInv, Founded
<1> QED
  BY <1>4, <1>5, <1>6, <1>7, <1>8

\* A call begins and has read nothing yet.
LEMMA RecordMemStep ==
    ASSUME ShadowInv, NEW p \in Pthreads, NEW c \in Calls, RecordMem(p, c)
    PROVE  ShadowInv'
<1>0. /\ pc[p] = "idle" /\ CallTid(p) /\ UNCHANGED <<memVars, truthVars>>
      /\ UNCHANGED <<primary_entry, snapshot>>
      /\ pc' = [pc EXCEPT ![p] = "exceptions"] /\ call' = [call EXCEPT ![p] = c]
      /\ TidInv /\ ShadowType /\ InCall
  BY DEF RecordMem, PcGoto, ShadowInv
<1>1. \A q \in Pthreads :
         /\ pc'[q] = IF q = p THEN "exceptions" ELSE pc[q]
         /\ call'[q] = IF q = p THEN c ELSE call[q]
  BY <1>0 DEF ShadowType
<1>2. TidInv'
  BY <1>0, CallTidStep DEF InCall
<1>3. ShadowType'
  BY <1>0, <1>1 DEF ShadowType, Pcs, Holding, memVars, truthVars, Accesses
<1>4. InCall'
  BY <1>0, <1>1 DEF InCall, CallTid, Goto, TidInv, TidType
<1>5. /\ \A q \in Pthreads : Holding(q) =>
            /\ pc'[q] = pc[q] /\ call'[q] = call[q]
            /\ primary_entry'[q] = primary_entry[q] /\ snapshot'[q] = snapshot[q]
      /\ \A q \in Pthreads : Holding(q)' => Holding(q)
  BY <1>0, <1>1 DEF Holding
<1> QED
  BY <1>0, <1>2, <1>3, <1>4, <1>5, QuietStep DEF ShadowInv

\* get_cur_tid changes nothing but the thread indices.
LEMMA GetCurTidStep ==
    ASSUME ShadowInv, NEW p \in Pthreads, GetCurTid(p)
    PROVE  ShadowInv'
<1>0. /\ UNCHANGED <<memVars, truthVars>>
      /\ UNCHANGED <<pc, call, primary_entry, snapshot, calls>>
      /\ TidInv /\ ShadowType /\ InCall
  BY DEF GetCurTid, localVars, ShadowInv
<1>1. TidInv'
  BY <1>0, CountStep, InsertStep, AtStep DEF GetCurTid
<1>2. ShadowType'
  BY <1>0 DEF ShadowType, Holding, memVars, truthVars, Accesses
<1>3. InCall'
  <2>1. \A q \in Pthreads : q # p => tid_pc'[q] = tid_pc[q]
    BY <1>0 DEF GetCurTid, Count, Insert, At, Goto, TidInv, TidType
  <2>2. tid_pc[p] # "out"
    BY DEF GetCurTid, Count, Insert, At
  <2> QED
    BY <1>0, <2>1, <2>2 DEF InCall
<1>4. /\ \A q \in Pthreads : Holding(q) =>
            /\ pc'[q] = pc[q] /\ call'[q] = call[q]
            /\ primary_entry'[q] = primary_entry[q] /\ snapshot'[q] = snapshot[q]
      /\ \A q \in Pthreads : Holding(q)' => Holding(q)
  BY <1>0 DEF Holding
<1> QED
  BY <1>0, <1>1, <1>2, <1>3, <1>4, QuietStep DEF ShadowInv

\* A call that is filtered out returns; the others go on to the table.
LEMMA ExceptionsStep ==
    ASSUME ShadowInv, NEW p \in Pthreads, Exceptions(p)
    PROVE  ShadowInv'
<1>0. /\ UNCHANGED <<memVars, truthVars>>
      /\ UNCHANGED <<tid_map, tid_ctr, tid_map_lock, my_tid>>
      /\ pc[p] = "exceptions" /\ Got(p) /\ Goto(p, "out")
      /\ TidInv /\ ShadowType /\ InCall
  BY DEF Exceptions, ShadowInv
<1>1. \/ Return(p)
      \/ PcGoto(p, "table") /\ UNCHANGED <<call, primary_entry, snapshot>>
  BY DEF Exceptions
<1>2. /\ \A q \in Pthreads : q # p =>
            /\ pc'[q] = pc[q] /\ call'[q] = call[q]
            /\ primary_entry'[q] = primary_entry[q] /\ snapshot'[q] = snapshot[q]
      /\ pc'[p] \in {"idle", "table"}
  BY <1>0, <1>1 DEF ShadowType, Return, PcGoto
<1>3. TidInv'
  BY <1>0, LeaveStep
<1>4. ShadowType'
  <2>1. CASE Return(p)
    BY <1>0, <1>2, <2>1
       DEF ShadowType, Return, PcGoto, Pcs, Holding, memVars, truthVars, Accesses
  <2>2. CASE PcGoto(p, "table") /\ UNCHANGED <<call, primary_entry, snapshot>>
    BY <1>0, <1>2, <2>2
       DEF ShadowType, PcGoto, Pcs, Holding, memVars, truthVars, Accesses
  <2> QED
    BY <1>1, <2>1, <2>2
<1>5. InCall'
  <2>1. \A q \in Pthreads : tid_pc'[q] = IF q = p THEN "out" ELSE tid_pc[q]
    BY <1>0 DEF Goto, TidInv, TidType
  <2> QED
    BY <1>0, <1>2, <2>1 DEF InCall
<1>6. /\ \A q \in Pthreads : Holding(q) =>
            /\ pc'[q] = pc[q] /\ call'[q] = call[q]
            /\ primary_entry'[q] = primary_entry[q] /\ snapshot'[q] = snapshot[q]
      /\ \A q \in Pthreads : Holding(q)' => Holding(q)
  BY <1>0, <1>2 DEF Holding
<1> QED
  BY <1>0, <1>3, <1>4, <1>5, <1>6, QuietStep DEF ShadowInv

\* What a thread learns of one that has a table, and of an access.
LEMMA Places ==
    ASSUME ShadowType
    PROVE  /\ \A q \in Pthreads : pc[q] # "idle" =>
                 call[q] \in Calls /\ Index(q) \in 0..PrimaryEntries - 1
           /\ \A x \in Performed :
                 /\ x \in Accesses /\ x.table \in 1..mapped
                 /\ x.thread \in Pthreads /\ x.addr \in Addrs
                 /\ primary_index(x.addr) \in 0..PrimaryEntries - 1
<1>1. \A q \in Pthreads : pc[q] # "idle" => call[q] \in Calls /\ call[q].addr \in Addrs
  BY DEF ShadowType, Calls
<1>2. \A x \in Performed : x \in Accesses
  BY DEF ShadowType, Performed
<1>3. \A x \in Performed :
         x.table \in 1..mapped /\ x.thread \in Pthreads /\ x.addr \in Addrs
  BY <1>2 DEF Accesses
<1> QED
  BY <1>1, <1>2, <1>3, IndexInRange DEF Index

\* A table found: the thread goes on to the lock.
LEMMA FoundTableStep ==
    ASSUME ShadowInv, NEW p \in Pthreads, ReadTable(p), shadow_space[Index(p)] # 0
    PROVE  ShadowInv'
<1> DEFINE i == Index(p)
<1>0. /\ pc[p] = "table"
      /\ primary_entry' = [primary_entry EXCEPT ![p] = shadow_space[i]]
      /\ pc' = [pc EXCEPT ![p] = "lock"]
      /\ UNCHANGED <<mapped, torn, tidVars, shadow_space, locked, all_violations>>
      /\ UNCHANGED <<call, snapshot, calls, recorded, raced, overlapped>>
      /\ Performed' = Performed
  BY DEF ReadTable, PcGoto, Index, Performed
<1>a. /\ TidInv /\ ShadowType /\ InCall /\ Locks /\ OneIndex /\ Published /\ Alone
      /\ Peaceful /\ Noted /\ OneAtATime /\ Founded
  BY DEF ShadowInv
<1>1. /\ call[p] \in Calls /\ i \in 0..PrimaryEntries - 1
      /\ shadow_space[i] \in 1..mapped
  BY <1>0, <1>a, Places DEF ShadowType
<1>2. \A q \in Pthreads :
         /\ pc'[q] = IF q = p THEN "lock" ELSE pc[q]
         /\ primary_entry'[q] = IF q = p THEN shadow_space[i] ELSE primary_entry[q]
         /\ Index(q)' = Index(q)
  BY <1>0, <1>a DEF ShadowType, Index
<1>3. TidInv'
  BY <1>0, <1>a, SameTid
<1>4. ShadowType'
  BY <1>0, <1>1, <1>2, <1>a DEF ShadowType, Pcs, Holding, Accesses
<1>5. InCall'
  BY <1>0, <1>2, <1>a DEF InCall, tidVars
<1>6. Locks'
  <2>1. \A q \in Pthreads :
           (Inserting(q)' <=> Inserting(q)) /\ (Inserting(q) => Cell(q)' = Cell(q))
    BY <1>0, <1>2 DEF Inserting, Cell
  <2> QED
    BY <1>0, <1>a, <2>1 DEF Locks
<1>7. OneIndex'
  <2>1. \A t, j : Serves(t, j)' => Serves(t, j)
    <3> SUFFICES ASSUME NEW t, NEW j, Serves(t, j)'
                 PROVE  Serves(t, j)
      OBVIOUS
    <3>1. CASE \E q \in Pthreads : Holding(q)' /\ primary_entry'[q] = t /\ Index(q)' = j
      BY <3>1, <1>1, <1>2 DEF Serves, Holding
    <3>2. CASE ~ \E q \in Pthreads : Holding(q)' /\ primary_entry'[q] = t /\ Index(q)' = j
      BY <3>2, <1>0 DEF Serves
    <3> QED
      BY <3>1, <3>2
  <2> QED
    BY <1>0, <1>a, <2>1 DEF OneIndex
<1>8. Published' /\ Alone'
  BY <1>0, <1>2, <1>a DEF Published, Alone
<1>9. Peaceful' /\ Noted' /\ OneAtATime'
  BY <1>0, <1>2, <1>a DEF Peaceful, Noted, OneAtATime, Inserting
<1>10. Founded'
  BY <1>0, <1>2, <1>a DEF Founded, Witnessed, Inserting
<1> QED
  BY <1>3, <1>4, <1>5, <1>6, <1>7, <1>8, <1>9, <1>10 DEF ShadowInv

\* No table yet: the thread maps one, and has yet to publish it.
LEMMA MapTableStep ==
    ASSUME ShadowInv, NEW p \in Pthreads, ReadTable(p), shadow_space[Index(p)] = 0
    PROVE  ShadowInv'
<1> DEFINE i == Index(p)
<1>0. /\ pc[p] = "table" /\ mapped' = mapped + 1
      /\ primary_entry' = [primary_entry EXCEPT ![p] = mapped + 1]
      /\ pc' = [pc EXCEPT ![p] = "store"]
      /\ UNCHANGED <<tidVars, shadow_space, locked, all_violations>>
      /\ UNCHANGED <<call, snapshot, calls, recorded, raced, overlapped>>
      /\ Performed' = Performed
  BY DEF ReadTable, PcGoto, Index, Performed
<1>t. /\ torn \subseteq torn'
      /\ \A q \in Pthreads : pc[q] = "store" /\ Index(q) = i => i \in torn'
  BY DEF ReadTable, Index
<1>a. /\ TidInv /\ ShadowType /\ InCall /\ Locks /\ OneIndex /\ Published /\ Alone
      /\ Peaceful /\ Noted /\ OneAtATime /\ Founded
  BY DEF ShadowInv
<1>1. /\ call[p] \in Calls /\ i \in 0..PrimaryEntries - 1 /\ mapped \in Nat
  BY <1>0, <1>a, Places DEF ShadowType
<1>2. \A q \in Pthreads :
         /\ pc'[q] = IF q = p THEN "store" ELSE pc[q]
         /\ primary_entry'[q] = IF q = p THEN mapped + 1 ELSE primary_entry[q]
         /\ Index(q)' = Index(q)
  BY <1>0, <1>a DEF ShadowType, Index
<1>3. TidInv'
  BY <1>0, <1>a, SameTid
<1>4. ShadowType'
  <2>1. 0..mapped \subseteq 0..mapped + 1 /\ 1..mapped \subseteq 1..mapped + 1
        /\ mapped + 1 \in 1..mapped + 1 /\ mapped + 1 \in 0..mapped + 1
    BY <1>1
  <2>2. Accesses \subseteq Accesses'
    BY <1>0, <2>1 DEF Accesses
  <2>3. /\ shadow_space' \in [0..PrimaryEntries - 1 -> 0..mapped']
        /\ primary_entry' \in [Pthreads -> 0..mapped']
    BY <1>0, <1>a, <2>1 DEF ShadowType
  <2>4. recorded' \subseteq Accesses' /\ raced' \subseteq Accesses'
    BY <1>0, <1>a, <2>2 DEF ShadowType
  <2>5. \A q \in Pthreads : Holding(q)' => primary_entry'[q] \in 1..mapped'
    BY <1>0, <1>2, <1>a, <2>1 DEF ShadowType, Holding
  <2>6. /\ mapped' \in Nat /\ pc' \in [Pthreads -> Pcs]
        /\ \A q \in Pthreads : pc'[q] # "idle" => call'[q] \in Calls
    BY <1>0, <1>1, <1>2, <1>a DEF ShadowType, Pcs
  <2> QED
    BY <1>0, <1>a, <2>3, <2>4, <2>5, <2>6 DEF ShadowType
<1>5. InCall'
  BY <1>0, <1>2, <1>a DEF InCall, tidVars
<1>6. Locks'
  <2>1. \A q \in Pthreads :
           (Inserting(q)' <=> Inserting(q)) /\ (Inserting(q) => Cell(q)' = Cell(q))
    BY <1>0, <1>2 DEF Inserting, Cell
  <2> QED
    BY <1>0, <1>a, <2>1 DEF Locks
<1>7. OneIndex'
  <2>1. \A t \in 1..mapped : \A j : Serves(t, j)' => Serves(t, j)
    <3> SUFFICES ASSUME NEW t \in 1..mapped, NEW j, Serves(t, j)'
                 PROVE  Serves(t, j)
      OBVIOUS
    <3>1. CASE \E q \in Pthreads : Holding(q)' /\ primary_entry'[q] = t /\ Index(q)' = j
      BY <3>1, <1>1, <1>2 DEF Serves, Holding
    <3>2. CASE ~ \E q \in Pthreads : Holding(q)' /\ primary_entry'[q] = t /\ Index(q)' = j
      BY <3>2, <1>0 DEF Serves
    <3> QED
      BY <3>1, <3>2
  <2>2. ASSUME NEW t, t = mapped + 1, NEW j \in 0..PrimaryEntries - 1, Serves(t, j)'
        PROVE  j = i
    <3>1. \A k \in 0..PrimaryEntries - 1 : shadow_space[k] # t
      BY <1>a, <1>1, <2>2 DEF ShadowType
    <3>2. \A q \in Pthreads : Holding(q)' /\ q # p => primary_entry'[q] # t
      BY <1>a, <1>1, <1>2, <2>2 DEF ShadowType, Holding
    <3>3. \A x \in Performed : x.table # t
      BY <1>a, <1>1, <2>2, Places
    <3> QED
      BY <2>2, <1>0, <1>2, <3>1, <3>2, <3>3 DEF Serves
  <2>3. \A t \in 1..mapped' : t \in 1..mapped \/ t = mapped + 1
    BY <1>0, <1>1
  <2> QED
    BY <1>a, <2>1, <2>2, <2>3 DEF OneIndex
<1>8. Published'
  BY <1>0, <1>t, <1>2, <1>a DEF Published
<1>9. Alone'
  BY <1>0, <1>t, <1>2, <1>a DEF Alone
<1>10. Peaceful' /\ Noted' /\ OneAtATime'
  BY <1>0, <1>2, <1>a DEF Peaceful, Noted, OneAtATime, Inserting
<1>11. Founded'
  BY <1>0, <1>2, <1>a DEF Founded, Witnessed, Inserting
<1> QED
  BY <1>3, <1>4, <1>5, <1>6, <1>7, <1>8, <1>9, <1>10, <1>11 DEF ShadowInv

\* A table just mapped is stored, over one that another thread may have stored.
LEMMA StoreTableStep ==
    ASSUME ShadowInv, NEW p \in Pthreads, StoreTable(p)
    PROVE  ShadowInv'
<1> DEFINE i == Index(p)
<1>0. /\ pc[p] = "store"
      /\ shadow_space' = [shadow_space EXCEPT ![i] = primary_entry[p]]
      /\ pc' = [pc EXCEPT ![p] = "lock"]
      /\ UNCHANGED <<tidVars, mapped, locked, all_violations, torn>>
      /\ UNCHANGED <<call, primary_entry, snapshot, calls, recorded, raced, overlapped>>
      /\ Performed' = Performed
  BY DEF StoreTable, PcGoto, Index, Performed, truthVars
<1>a. /\ TidInv /\ ShadowType /\ InCall /\ Locks /\ OneIndex /\ Published /\ Alone
      /\ Peaceful /\ Noted /\ OneAtATime /\ Founded
  BY DEF ShadowInv
<1>1. /\ call[p] \in Calls /\ i \in 0..PrimaryEntries - 1
      /\ primary_entry[p] \in 1..mapped /\ mapped \in Nat
  BY <1>0, <1>a, Places DEF ShadowType, Holding
<1>2. /\ \A q \in Pthreads : /\ pc'[q] = IF q = p THEN "lock" ELSE pc[q]
                             /\ Index(q)' = Index(q)
      /\ \A j \in 0..PrimaryEntries - 1 :
            shadow_space'[j] = IF j = i THEN primary_entry[p] ELSE shadow_space[j]
  BY <1>0, <1>a DEF ShadowType, Index
<1>3. TidInv'
  BY <1>0, <1>a, SameTid
<1>4. ShadowType'
  BY <1>0, <1>1, <1>2, <1>a DEF ShadowType, Pcs, Holding, Accesses
<1>5. InCall'
  BY <1>0, <1>2, <1>a DEF InCall, tidVars
<1>6. Locks'
  <2>1. \A q \in Pthreads :
           (Inserting(q)' <=> Inserting(q)) /\ (Inserting(q) => Cell(q)' = Cell(q))
    BY <1>0, <1>2 DEF Inserting, Cell
  <2> QED
    BY <1>0, <1>a, <2>1 DEF Locks
<1>7. OneIndex'
  <2>1. \A t, j : Serves(t, j)' => Serves(t, j)
    <3> SUFFICES ASSUME NEW t, NEW j, Serves(t, j)'
                 PROVE  Serves(t, j)
      OBVIOUS
    <3>1. CASE j \in 0..PrimaryEntries - 1 /\ shadow_space'[j] = t
      BY <3>1, <1>0, <1>1, <1>2 DEF Serves, Holding
    <3>2. CASE ~(j \in 0..PrimaryEntries - 1 /\ shadow_space'[j] = t)
      BY <3>2, <1>0, <1>2 DEF Serves, Holding
    <3> QED
      BY <3>1, <3>2
  <2> QED
    BY <1>0, <1>a, <2>1 DEF OneIndex
<1>8. Published'
  <2>1. ASSUME i \notin torn
        PROVE  shadow_space[i] = 0
    BY <1>0, <1>a, <2>1 DEF Alone
  <2>2. ASSUME NEW q \in Pthreads, pc'[q] \in {"lock", "insert"}
        PROVE  /\ shadow_space'[Index(q)] # 0
               /\ Index(q) \in torn \/ shadow_space'[Index(q)] = primary_entry[q]
    <3>1. CASE q = p
      BY <1>1, <1>2, <3>1
    <3>2. CASE q # p
      <4>1. pc[q] \in {"lock", "insert"} /\ Index(q) \in 0..PrimaryEntries - 1
        BY <1>2, <1>a, <2>2, <3>2, Places
      <4> QED
        BY <1>1, <1>2, <1>a, <2>1, <4>1 DEF Published
    <3> QED
      BY <3>1, <3>2
  <2>3. ASSUME NEW x \in Performed
        PROVE  /\ shadow_space'[primary_index(x.addr)] # 0
               /\ \/ primary_index(x.addr) \in torn
                  \/ shadow_space'[primary_index(x.addr)] = x.table
    BY <1>1, <1>2, <1>a, <2>1, Places DEF Published
  <2> QED
    BY <1>0, <1>2, <2>2, <2>3 DEF Published
<1>9. Alone'
  <2> SUFFICES ASSUME NEW q \in Pthreads, pc'[q] = "store", Index(q) \notin torn
               PROVE  /\ shadow_space'[Index(q)] = 0
                      /\ \A r \in Pthreads :
                            pc'[r] = "store" /\ Index(r) = Index(q) => r = q
    BY <1>0, <1>2 DEF Alone
  <2>1. q # p /\ pc[q] = "store" /\ Index(q) \in 0..PrimaryEntries - 1
    BY <1>2, <1>a, Places
  <2>2. Index(q) # i
    BY <1>0, <1>a, <2>1 DEF Alone
  <2> QED
    BY <1>2, <1>a, <2>1, <2>2 DEF Alone
<1>10. Peaceful' /\ Noted' /\ OneAtATime'
  BY <1>0, <1>2, <1>a DEF Peaceful, Noted, OneAtATime, Inserting
<1>11. Founded'
  BY <1>0, <1>2, <1>a DEF Founded, Witnessed, Inserting
<1> QED
  BY <1>3, <1>4, <1>5, <1>6, <1>7, <1>8, <1>9, <1>10, <1>11 DEF ShadowInv

\* A conflict: the access is reported, and the lock of the address kept meanwhile.
LEMMA RaceStep ==
    ASSUME ShadowInv, NEW p \in Pthreads, Compare(p),
           NEW y \in History(p), Conflict(y, Access(p))
    PROVE  ShadowInv'
<1>0. /\ pc[p] = "lock" /\ Cell(p) \notin locked
      /\ raced' = raced \cup {Access(p)}
      /\ locked' = locked \cup {Cell(p)}
      /\ snapshot' = [snapshot EXCEPT ![p] = all_violations]
      /\ overlapped' = (overlapped \/ \E q \in Pthreads : Inserting(q))
      /\ pc' = [pc EXCEPT ![p] = "insert"]
      /\ UNCHANGED <<recorded, call, primary_entry>>
      /\ UNCHANGED <<tidVars, shadow_space, mapped, all_violations, calls, torn>>
      /\ Performed' = Performed \cup {Access(p)}
  BY DEF Compare, PcGoto, Performed
<1>a. /\ TidInv /\ ShadowType /\ InCall /\ Locks /\ OneIndex /\ Published /\ Alone
      /\ Peaceful /\ Noted /\ OneAtATime /\ Founded
  BY DEF ShadowInv
<1>1. /\ call[p] \in Calls /\ Index(p) \in 0..PrimaryEntries - 1
      /\ primary_entry[p] \in 1..mapped /\ mapped \in Nat
      /\ call[p].addr \in Addrs /\ call[p].type \in AccessTypes
  BY <1>0, <1>a, Places DEF ShadowType, Holding, Calls
<1>2. /\ Access(p) \in Accesses
      /\ Access(p).addr = call[p].addr /\ Access(p).table = primary_entry[p]
  BY <1>1 DEF Access, Accesses
<1>3. \A q \in Pthreads : /\ pc'[q] = IF q = p THEN "insert" ELSE pc[q]
                          /\ snapshot'[q] = IF q = p THEN all_violations ELSE snapshot[q]
                          /\ Index(q)' = Index(q) /\ Cell(q)' = Cell(q)
                          /\ Inserting(q)' <=> Inserting(q) \/ q = p
  BY <1>0, <1>a DEF ShadowType, Index, Cell, Inserting
<1>4. TidInv'
  BY <1>0, <1>a, SameTid
<1>5. ShadowType'
  <2>1. Accesses' = Accesses
    BY <1>0 DEF Accesses
  <2>2. recorded' \subseteq Accesses' /\ raced' \subseteq Accesses'
    BY <1>0, <1>2, <1>a, <2>1 DEF ShadowType
  <2>3. snapshot' \in [Pthreads -> SUBSET Addrs] /\ pc' \in [Pthreads -> Pcs]
    BY <1>0, <1>a DEF ShadowType, Pcs
  <2>4. /\ \A q \in Pthreads : pc'[q] # "idle" => call'[q] \in Calls
        /\ \A q \in Pthreads : Holding(q)' => primary_entry'[q] \in 1..mapped'
    BY <1>0, <1>1, <1>3, <1>a DEF ShadowType, Holding
  <2>5. overlapped' \in BOOLEAN
    BY <1>0
  <2> QED
    BY <1>0, <1>a, <2>2, <2>3, <2>4, <2>5 DEF ShadowType
<1>6. InCall'
  BY <1>0, <1>3, <1>a DEF InCall, tidVars
<1>7. Locks'
  <2>1. \A q \in Pthreads : Inserting(q) => Cell(q) \in locked
    BY <1>a DEF Locks
  <2>2. locked' = {Cell(q)' : q \in {r \in Pthreads : Inserting(r)'}}
    BY <1>0, <1>3, <1>a DEF Locks
  <2>3. \A q, r \in Pthreads :
           Inserting(q)' /\ Inserting(r)' /\ Cell(q)' = Cell(r)' => q = r
    BY <1>0, <1>3, <1>a, <2>1 DEF Locks
  <2> QED
    BY <2>2, <2>3 DEF Locks
<1>8. OneIndex'
  <2>1. \A t, j : Serves(t, j)' => Serves(t, j)
    <3> SUFFICES ASSUME NEW t, NEW j, Serves(t, j)'
                 PROVE  Serves(t, j)
      OBVIOUS
    <3>1. \A q \in Pthreads : Holding(q)' => Holding(q)
      BY <1>0, <1>3 DEF Holding
    <3>2. Holding(p)
      BY <1>0 DEF Holding
    <3>3. CASE \E x \in Performed' : x.table = t /\ primary_index(x.addr) = j
      BY <1>0, <1>2, <3>2, <3>3 DEF Serves, Index
    <3>4. CASE ~ \E x \in Performed' : x.table = t /\ primary_index(x.addr) = j
      BY <1>0, <1>3, <3>1, <3>4 DEF Serves
    <3> QED
      BY <3>3, <3>4
  <2> QED
    BY <1>0, <1>a, <2>1 DEF OneIndex
<1>9. Published' /\ Alone'
  <2>1. /\ shadow_space[Index(p)] # 0
        /\ Index(p) \in torn \/ shadow_space[Index(p)] = primary_entry[p]
    BY <1>0, <1>a DEF Published
  <2>2. primary_index(Access(p).addr) = Index(p)
    BY <1>2 DEF Index
  <2> QED
    BY <1>0, <1>2, <1>3, <1>a, <2>1, <2>2 DEF Published, Alone
<1>10. Peaceful'
  BY <1>0, <1>a DEF Peaceful
<1>11. Noted'
  BY <1>0, <1>2, <1>3, <1>a DEF Noted
<1>12. OneAtATime'
  BY <1>0, <1>3, <1>a DEF OneAtATime
<1>13. Founded'
  <2>1. \A a : Witnessed(a) => Witnessed(a)'
    BY <1>0 DEF Witnessed
  <2>2. Witnessed(call[p].addr)'
    <3>1. /\ y \in recorded /\ y \in Performed /\ y.table = primary_entry[p]
          /\ offset(y.addr) = offset(call[p].addr)
      BY DEF History, Cell, Performed
    <3>2. Serves(y.table, primary_index(y.addr)) /\ Serves(y.table, Index(p))
      BY <1>0, <3>1 DEF Serves, Holding
    <3>3. primary_index(y.addr) \in 0..PrimaryEntries - 1 /\ y.table \in 1..mapped
      BY <1>a, <3>1, Places
    <3>4. primary_index(y.addr) = primary_index(call[p].addr)
      BY <1>1, <1>a, <3>2, <3>3 DEF OneIndex, Index
    <3>5. SameCell(call[p].addr, y.addr) /\ Conflict(Access(p), y)
      BY <3>1, <3>4 DEF SameCell, Conflict
    <3>6. Access(p) \in Performed' /\ y \in Performed' /\ call'[p] = call[p]
      BY <1>0, <3>1
    <3> QED
      BY <1>2, <3>5, <3>6 DEF Witnessed
  <2> QED
    BY <1>0, <1>3, <1>a, <2>1, <2>2 DEF Founded
<1> QED
  BY <1>4, <1>5, <1>6, <1>7, <1>8, <1>9, <1>10, <1>11, <1>12, <1>13 DEF ShadowInv

\* No conflict: the access is recorded and the call returns.
LEMMA RecordStep ==
    ASSUME ShadowInv, NEW p \in Pthreads, Compare(p),
           ~ \E x \in History(p) : Conflict(x, Access(p))
    PROVE  ShadowInv'
<1>0. /\ pc[p] = "lock"
      /\ recorded' = recorded \cup {Access(p)}
      /\ pc' = [pc EXCEPT ![p] = "idle"]
      /\ call' = [call EXCEPT ![p] = NoCall]
      /\ primary_entry' = [primary_entry EXCEPT ![p] = 0]
      /\ snapshot' = [snapshot EXCEPT ![p] = {}]
      /\ UNCHANGED <<raced, locked, overlapped>>
      /\ UNCHANGED <<tidVars, shadow_space, mapped, all_violations, calls, torn>>
      /\ Performed' = Performed \cup {Access(p)}
  BY DEF Compare, Return, PcGoto, Performed
<1>a. /\ TidInv /\ ShadowType /\ InCall /\ Locks /\ OneIndex /\ Published /\ Alone
      /\ Peaceful /\ Noted /\ OneAtATime /\ Founded
  BY DEF ShadowInv
<1>1. /\ call[p] \in Calls /\ Index(p) \in 0..PrimaryEntries - 1
      /\ primary_entry[p] \in 1..mapped /\ mapped \in Nat
      /\ call[p].addr \in Addrs /\ call[p].type \in AccessTypes
  BY <1>0, <1>a, Places DEF ShadowType, Holding, Calls
<1>2. /\ Access(p) \in Accesses
      /\ Access(p).addr = call[p].addr /\ Access(p).table = primary_entry[p]
      /\ Access(p).thread = p
  BY <1>1 DEF Access, Accesses
<1>3. \A q \in Pthreads :
         /\ q # p => /\ pc'[q] = pc[q] /\ call'[q] = call[q] /\ snapshot'[q] = snapshot[q]
                     /\ primary_entry'[q] = primary_entry[q]
                     /\ Index(q)' = Index(q) /\ Cell(q)' = Cell(q)
         /\ pc'[p] = "idle"
         /\ Inserting(q)' <=> Inserting(q)
  BY <1>0, <1>a DEF ShadowType, Index, Cell, Inserting
<1>b. ~Inserting(p)
  BY <1>0 DEF Inserting
<1>4. TidInv'
  BY <1>0, <1>a, SameTid
<1>5. ShadowType'
  <2>1. Accesses' = Accesses
    BY <1>0 DEF Accesses
  <2>2. recorded' \subseteq Accesses' /\ raced' \subseteq Accesses'
    BY <1>0, <1>2, <1>a, <2>1 DEF ShadowType
  <2>3. /\ snapshot' \in [Pthreads -> SUBSET Addrs] /\ pc' \in [Pthreads -> Pcs]
        /\ call' \in [Pthreads -> Calls \cup {NoCall}]
        /\ primary_entry' \in [Pthreads -> 0..mapped']
    BY <1>0, <1>1, <1>a DEF ShadowType, Pcs
  <2>4. /\ \A q \in Pthreads : pc'[q] # "idle" => call'[q] \in Calls
        /\ \A q \in Pthreads : Holding(q)' => primary_entry'[q] \in 1..mapped'
    BY <1>0, <1>1, <1>3, <1>a DEF ShadowType, Holding
  <2> QED
    BY <1>0, <1>a, <2>2, <2>3, <2>4 DEF ShadowType
<1>6. InCall'
  BY <1>0, <1>3, <1>a DEF InCall, tidVars
<1>7. Locks'
  <2>1. \A q \in Pthreads : Inserting(q) => Cell(q)' = Cell(q)
    BY <1>3, <1>b
  <2> QED
    BY <1>0, <1>3, <1>a, <2>1 DEF Locks
<1>8. OneIndex'
  <2>1. \A t, j : Serves(t, j)' => Serves(t, j)
    <3> SUFFICES ASSUME NEW t, NEW j, Serves(t, j)'
                 PROVE  Serves(t, j)
      OBVIOUS
    <3>1. \A q \in Pthreads : Holding(q)' => q # p /\ Holding(q)
      BY <1>3 DEF Holding
    <3>2. Holding(p)
      BY <1>0 DEF Holding
    <3>3. CASE \E x \in Performed' : x.table = t /\ primary_index(x.addr) = j
      BY <1>0, <1>2, <3>2, <3>3 DEF Serves, Index
    <3>4. CASE ~ \E x \in Performed' : x.table = t /\ primary_index(x.addr) = j
      BY <1>0, <1>3, <3>1, <3>4 DEF Serves
    <3> QED
      BY <3>3, <3>4
  <2> QED
    BY <1>0, <1>a, <2>1 DEF OneIndex
<1>9. Published' /\ Alone'
  <2>1. /\ shadow_space[Index(p)] # 0
        /\ Index(p) \in torn \/ shadow_space[Index(p)] = primary_entry[p]
    BY <1>0, <1>a DEF Published
  <2>2. primary_index(Access(p).addr) = Index(p)
    BY <1>2 DEF Index
  <2>3. \A q \in Pthreads : pc'[q] # "idle" => q # p
    BY <1>3
  <2>4. Published'
    BY <1>0, <1>2, <1>3, <1>a, <2>1, <2>2, <2>3 DEF Published
  <2>5. Alone'
    BY <1>0, <1>3, <1>a, <2>3 DEF Alone
  <2> QED
    BY <2>4, <2>5
<1>10. Peaceful'
  <2>1. ASSUME NEW x \in recorded,
               x.table = primary_entry[p], offset(x.addr) = offset(call[p].addr)
        PROVE  ~Conflict(x, Access(p)) /\ ~Conflict(Access(p), x)
    <3>1. x \in History(p)
      BY <2>1 DEF History, Cell
    <3> QED
      BY <3>1 DEF Conflict
  <2>2. ~Conflict(Access(p), Access(p))
    BY DEF Conflict
  <2> QED
    BY <1>0, <1>2, <1>a, <2>1, <2>2 DEF Peaceful
<1>11. Noted' /\ OneAtATime'
  BY <1>0, <1>3, <1>b, <1>a DEF Noted, OneAtATime
<1>12. Founded'
  <2>1. \A a : Witnessed(a) => Witnessed(a)'
    BY <1>0 DEF Witnessed
  <2> QED
    BY <1>0, <1>3, <1>b, <1>a, <2>1 DEF Founded
<1> QED
  BY <1>4, <1>5, <1>6, <1>7, <1>8, <1>9, <1>10, <1>11, <1>12 DEF ShadowInv

\* The violation enters the map and the cell is unlocked.
LEMMA InsertViolationStep ==
    ASSUME ShadowInv, NEW p \in Pthreads, InsertViolation(p)
    PROVE  ShadowInv'
<1>0. /\ Inserting(p) /\ pc[p] = "insert"
      /\ locked' = locked \ {Cell(p)}
      /\ pc' = [pc EXCEPT ![p] = "idle"]
      /\ call' = [call EXCEPT ![p] = NoCall]
      /\ primary_entry' = [primary_entry EXCEPT ![p] = 0]
      /\ snapshot' = [snapshot EXCEPT ![p] = {}]
      /\ UNCHANGED <<tidVars, shadow_space, mapped, calls, recorded, raced, torn, overlapped>>
      /\ Performed' = Performed
  BY DEF InsertViolation, Inserting, Return, PcGoto, Performed, truthVars
<1>b. PICK before \in {all_violations, snapshot[p]} :
         all_violations' = before \cup {call[p].addr}
  BY DEF InsertViolation
<1>a. /\ TidInv /\ ShadowType /\ InCall /\ Locks /\ OneIndex /\ Published /\ Alone
      /\ Peaceful /\ Noted /\ OneAtATime /\ Founded
  BY DEF ShadowInv
<1>1. /\ call[p] \in Calls /\ call[p].addr \in Addrs /\ mapped \in Nat
      /\ before \subseteq Addrs
  BY <1>0, <1>a, Places DEF ShadowType, Calls
<1>3. \A q \in Pthreads :
         /\ q # p => /\ pc'[q] = pc[q] /\ call'[q] = call[q] /\ snapshot'[q] = snapshot[q]
                     /\ primary_entry'[q] = primary_entry[q]
                     /\ Index(q)' = Index(q) /\ Cell(q)' = Cell(q)
         /\ pc'[p] = "idle"
         /\ Inserting(q)' <=> Inserting(q) /\ q # p
  BY <1>0, <1>a DEF ShadowType, Index, Cell, Inserting
<1>4. TidInv'
  BY <1>0, <1>a, SameTid
<1>5. ShadowType'
  <2>1. Accesses' = Accesses
    BY <1>0 DEF Accesses
  <2>2. all_violations' \subseteq Addrs
    BY <1>b, <1>1
  <2>3. /\ snapshot' \in [Pthreads -> SUBSET Addrs] /\ pc' \in [Pthreads -> Pcs]
        /\ call' \in [Pthreads -> Calls \cup {NoCall}]
        /\ primary_entry' \in [Pthreads -> 0..mapped']
    BY <1>0, <1>1, <1>a DEF ShadowType, Pcs
  <2>4. /\ \A q \in Pthreads : pc'[q] # "idle" => call'[q] \in Calls
        /\ \A q \in Pthreads : Holding(q)' => primary_entry'[q] \in 1..mapped'
    BY <1>0, <1>1, <1>3, <1>a DEF ShadowType, Holding
  <2> QED
    BY <1>0, <1>a, <2>1, <2>2, <2>3, <2>4 DEF ShadowType
<1>6. InCall'
  BY <1>0, <1>3, <1>a DEF InCall, tidVars
<1>7. Locks'
  <2>1. \A q \in Pthreads : Inserting(q) /\ q # p => Cell(q) # Cell(p)
    BY <1>0, <1>a DEF Locks
  <2>2. locked' = {Cell(q)' : q \in {r \in Pthreads : Inserting(r)'}}
    BY <1>0, <1>3, <1>a, <2>1 DEF Locks
  <2>3. \A q, r \in Pthreads :
           Inserting(q)' /\ Inserting(r)' /\ Cell(q)' = Cell(r)' => q = r
    BY <1>3, <1>a DEF Locks
  <2> QED
    BY <2>2, <2>3 DEF Locks
<1>8. OneIndex'
  <2>1. \A q \in Pthreads : Holding(q)' => q # p /\ Holding(q)
    BY <1>3 DEF Holding
  <2>2. \A t, j : Serves(t, j)' => Serves(t, j)
    BY <1>0, <1>3, <2>1 DEF Serves
  <2> QED
    BY <1>0, <1>a, <2>2 DEF OneIndex
<1>9. Published' /\ Alone'
  <2>1. \A q \in Pthreads : pc'[q] # "idle" => q # p
    BY <1>3
  <2> QED
    BY <1>0, <1>3, <1>a, <2>1 DEF Published, Alone
<1>10. Peaceful'
  BY <1>0, <1>a DEF Peaceful
<1>11. Noted' /\ OneAtATime'
  <2>1. overlapped \/ all_violations' = all_violations \cup {call[p].addr}
    BY <1>0, <1>b, <1>a DEF OneAtATime
  <2>2. Noted'
    BY <1>0, <1>3, <1>a, <2>1 DEF Noted
  <2>3. OneAtATime'
    BY <1>0, <1>3, <1>a DEF OneAtATime
  <2> QED
    BY <2>2, <2>3
<1>12. Founded'
  <2>1. \A a : Witnessed(a)' <=> Witnessed(a)
    BY <1>0 DEF Witnessed
  <2>2. \A a \in all_violations' : Witnessed(a)
    BY <1>0, <1>b, <1>a DEF Founded
  <2> QED
    BY <1>0, <1>3, <1>a, <2>1, <2>2 DEF Founded
<1> QED
  BY <1>4, <1>5, <1>6, <1>7, <1>8, <1>9, <1>10, <1>11, <1>12 DEF ShadowInv

\* Every step of every thread keeps the invariant.
LEMMA StepShadowInv == ShadowInv /\ [Next]_vars => ShadowInv'
<1> SUFFICES ASSUME ShadowInv, [Next]_vars
             PROVE  ShadowInv'
  OBVIOUS
<1>1. ASSUME NEW p \in Pthreads, Step(p)
      PROVE  ShadowInv'
  <2>1. ASSUME NEW c \in Calls, RecordMem(p, c)
        PROVE  ShadowInv'
    BY <2>1, RecordMemStep
  <2>2. CASE GetCurTid(p)
    BY <2>2, GetCurTidStep
  <2>3. CASE Exceptions(p)
    BY <2>3, ExceptionsStep
  <2>4. CASE ReadTable(p)
    BY <2>4, FoundTableStep, MapTableStep
  <2>5. CASE StoreTable(p)
    BY <2>5, StoreTableStep
  <2>6. CASE Compare(p)
    BY <2>6, RaceStep, RecordStep
  <2>7. CASE InsertViolation(p)
    BY <2>7, InsertViolationStep
  <2> QED
    BY <1>1, <2>1, <2>2, <2>3, <2>4, <2>5, <2>6, <2>7 DEF Step
<1>2. CASE UNCHANGED vars
  <2>1. /\ UNCHANGED <<memVars, truthVars>> /\ UNCHANGED tidVars
        /\ UNCHANGED <<pc, call, primary_entry, snapshot, calls>>
    BY <1>2 DEF vars, localVars
  <2>2. TidInv'
    BY <2>1, SameTid DEF ShadowInv
  <2>3. ShadowType' /\ InCall'
    BY <2>1 DEF ShadowInv, ShadowType, InCall, Holding, Accesses, memVars, truthVars,
                tidVars
  <2>4. \A q \in Pthreads : Holding(q)' => Holding(q)
    BY <2>1 DEF Holding
  <2> QED
    BY <2>1, <2>2, <2>3, <2>4, QuietStep DEF ShadowInv
<1> QED
  BY <1>1, <1>2 DEF Next

\* The locks, the tables and the calls in progress fit each other at all times.
THEOREM ShadowInvariant == Spec => []ShadowInv
<1> QED
  BY InitShadowInv, StepShadowInv, PTL DEF Spec

-----------------------------------------------------------------------------
(* What follows *)

\* Every thread has an index of its own, the main thread index 0, with no gap, whatever
\* other threads do in get_cur_tid meanwhile and however many there are.
THEOREM ThreadsOwnIndices == Spec => []OwnIndex
<1>1. ShadowInv => OwnIndex
  BY TidInvGivesIndex DEF ShadowInv
<1> QED
  BY <1>1, ShadowInvariant, PTL

\* No two entries of shadow_space name one table, nobody works in a table that is not
\* mapped, and the lock of a cell is held by the thread that is inserting its violation.
THEOREM ShadowTablesSound == Spec => []TypeOK
<1>1. ShadowInv => TypeOK
  <2> SUFFICES ASSUME ShadowInv PROVE TypeOK
    OBVIOUS
  <2>1. ShadowType /\ Locks /\ OneIndex
    BY DEF ShadowInv
  <2>2. \A i, j \in DOMAIN shadow_space :
           i # j /\ shadow_space[i] # 0 => shadow_space[i] # shadow_space[j]
    <3>1. DOMAIN shadow_space = 0..PrimaryEntries - 1
      BY <2>1 DEF ShadowType
    <3>2. \A i \in DOMAIN shadow_space :
             /\ Serves(shadow_space[i], i)
             /\ shadow_space[i] # 0 => shadow_space[i] \in 1..mapped
      BY <2>1, <3>1 DEF Serves, ShadowType
    <3> QED
      BY <2>1, <3>1, <3>2 DEF OneIndex
  <2> QED
    BY <2>1, <2>2 DEF TypeOK, ShadowType, Locks, Holding
<1> QED
  BY <1>1, ShadowInvariant, PTL

\* With any number of threads, addresses, tables and calls, a race between two accesses
\* the runtime has performed is reported, or about to be, unless first touches of the
\* region or insertions into all_violations overlapped.
THEOREM OnlyOverlapsLose == Spec => []MissedOnlyByOverlap
<1>1. ShadowInv => MissedOnlyByOverlap
  <2> SUFFICES ASSUME ShadowInv,
                      NEW x \in Performed, NEW y \in Performed,
                      x.addr = y.addr, Conflict(x, y),
                      primary_index(x.addr) \notin torn, ~overlapped
               PROVE  \/ x.addr \in all_violations
                      \/ \E p \in Pthreads : Inserting(p) /\ call[p].addr = x.addr
    BY DEF MissedOnlyByOverlap
  <2>1. Published /\ Peaceful /\ Noted
    BY DEF ShadowInv
  <2>2. x.table = y.table
    BY <2>1 DEF Published
  <2>3. x \in raced \/ y \in raced
    BY <2>1, <2>2 DEF Peaceful, Performed
  <2> QED
    BY <2>1, <2>3 DEF Noted
<1> QED
  BY <1>1, ShadowInvariant, PTL

\* Whatever overlaps, a reported address has two accesses that conflict, the other one
\* of an address with the same 32 low bits: a table, mapped for one index, is never
\* found under another.
THEOREM ReportsAreConflicts == Spec => []ReportsConflicts
<1>1. ShadowInv => ReportsConflicts
  BY DEF ShadowInv, Founded, Witnessed, ReportsConflicts
<1> QED
  BY <1>1, ShadowInvariant, PTL
=============================================================================
