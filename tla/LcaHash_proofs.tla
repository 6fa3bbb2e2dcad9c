--------------------------- MODULE LcaHash_proofs ---------------------------
(***************************************************************************)
(* The cache is transparent while queries with a common step do not        *)
(* overlap, for any trees, threads, number of queries and size of the      *)
(* table.                                                                  *)
(*                                                                         *)
(* An entry is written by queries about its own step only (EntriesOwned),  *)
(* so that while such queries exclude each other an entry is coherent      *)
(* unless the one query that owns its step is half way through an update   *)
(* (EntriesCoherent): nobody else can read it then.                        *)
(***************************************************************************)
EXTENDS LcaHash, Dpst_proofs

Reading == {"match", "read"}
Torn == {"lca_result", "lca"}
Writing == {"remAddr"} \cup Torn
Pcs == {"idle", "look", "update", "create"} \cup Reading \cup Writing

CallType ==
    [pc : Pcs, what : {"none", "parallel", "LCA"},
     pair : (Nat \X Nat), side : {1, 2}, entry : Nat]

EntryType == [curAddr : Nat, remAddr : Nat, lca_result : BOOLEAN, lca : Nat]

AnswerType ==
    [what : {"none", "parallel", "LCA"}, pair : (Nat \X Nat),
     verdict : BOOLEAN, lca : Nat]

\* A query asks for two different steps, and only parallel() updates.
ProperCall(c) ==
    /\ c.pair[1] \in Steps /\ c.pair[2] \in Steps /\ c.pair[1] # c.pair[2]
    /\ c.what \in {"parallel", "LCA"}
    /\ c.pc \in {"update", "create"} \cup Writing => c.what = "parallel"

ProgOK ==
    /\ tgraph_nodes \in Trees
    /\ begun \subseteq Steps
    /\ \A t \in Threads : at[t] \in Steps \cup {0}
    /\ shared \in BOOLEAN

TableOK ==
    /\ lcaHashTable \in [0..(TableSize - 1) -> Nat]
    /\ \A i \in 0..(TableSize - 1) : lcaHashTable[i] \in 0..Len(entries)
    /\ entries \in Seq(EntryType)

CallsOK ==
    /\ call \in [Threads -> CallType]
    /\ \A t \in Threads : call[t].pc # "idle" => ProperCall(call[t])

AnswersOK ==
    /\ answer \in [Threads -> AnswerType]
    /\ \A p \in judged : \E a, b \in Steps : a # b /\ p = {a, b}

CacheTypeOK == ProgOK /\ TableOK /\ CallsOK /\ AnswersOK

\* A query looks at, and writes to, entries of its own steps.
EntriesOwned ==
    \A t \in Threads :
       call[t].pc \in Reading \cup Writing =>
          /\ call[t].entry \in 1..Len(entries)
          /\ entries[call[t].entry].curAddr = Key(call[t])

\* No two queries in progress have a step in common.
CallsApart ==
    \A t, u \in Threads :
       t # u /\ call[t].pc # "idle" /\ call[u].pc # "idle" =>
          \A i, j \in {1, 2} : call[t].pair[i] # call[u].pair[j]

Coherent(e) ==
    /\ entries[e].lca_result = Parallel(entries[e].curAddr, entries[e].remAddr)
    /\ entries[e].lca = LCA(tgraph_nodes, entries[e].curAddr, entries[e].remAddr)

\* An entry is coherent unless a query is half way through an update of it.
EntriesCoherent ==
    \A e \in 1..Len(entries) :
       \/ Coherent(e)
       \/ \E t \in Threads : call[t].pc \in Torn /\ call[t].entry = e

\* What a query knows of the entry it looks at or updates.
Progress ==
    \A t \in Threads :
       LET c == call[t] IN
       /\ c.pc \in {"read"} \cup Torn => entries[c.entry].remAddr = Other(c)
       /\ c.pc = "lca" => entries[c.entry].lca_result = Verdict(c)

CacheInv ==
    /\ CacheTypeOK
    /\ EntriesOwned
    /\ ~shared => CallsApart /\ EntriesCoherent /\ Progress /\ Transparent

-----------------------------------------------------------------------------
\* The two steps of a query, in the order of the walk or of the entry looked at.
LEMMA KeyOther ==
    ASSUME ProgOK, NEW c \in CallType, ProperCall(c)
    PROVE  /\ Key(c) \in Steps /\ Other(c) \in Steps /\ Key(c) # Other(c)
           /\ Key(c) \in Nat /\ Other(c) \in Nat
           /\ \E i \in {1, 2} : Key(c) = c.pair[i]
           /\ Parallel(Key(c), Other(c)) = Verdict(c)
           /\ LCA(tgraph_nodes, Key(c), Other(c)) = Ancestor(c)
           /\ Verdict(c) \in BOOLEAN /\ Ancestor(c) \in Nat
<1> DEFINE a == c.pair[1]
           b == c.pair[2]
<1>1. /\ a \in Steps /\ b \in Steps /\ a # b /\ a \in Nat /\ b \in Nat
      /\ c.side \in {1, 2}
  BY DEF ProperCall, CallType
<1>2. (Key(c) = a /\ Other(c) = b) \/ (Key(c) = b /\ Other(c) = a)
  BY <1>1 DEF Key, Other
<1>3. /\ parallel(tgraph_nodes, a, b) = parallel(tgraph_nodes, b, a)
      /\ LCA(tgraph_nodes, a, b) = LCA(tgraph_nodes, b, a)
      /\ LCA(tgraph_nodes, a, b) \in Nat
  BY <1>1, CacheAssumption, StepQueries DEF ProgOK, Steps
<1>4. parallel(tgraph_nodes, a, b) \in BOOLEAN
  BY DEF parallel
<1>5. \E i \in {1, 2} : Key(c) = c.pair[i]
  BY <1>2
<1> HIDE DEF a, b
<1>6. Parallel(Key(c), Other(c)) = Parallel(a, b)
  BY <1>2, <1>3, Zenon DEF Parallel
<1>7. LCA(tgraph_nodes, Key(c), Other(c)) = LCA(tgraph_nodes, a, b)
  BY <1>2, <1>3
<1>8. Verdict(c) = Parallel(a, b) /\ Ancestor(c) = LCA(tgraph_nodes, a, b)
  BY Zenon DEF Verdict, Ancestor, a, b
<1>9. Verdict(c) \in BOOLEAN
  BY <1>4, <1>8, Zenon DEF Parallel
<1>10. /\ Key(c) \in Steps /\ Other(c) \in Steps /\ Key(c) # Other(c)
       /\ Key(c) \in Nat /\ Other(c) \in Nat
       /\ Ancestor(c) \in Nat
  BY <1>1, <1>2, <1>3, <1>8
<1>11. Parallel(Key(c), Other(c)) = Verdict(c)
  BY <1>6, <1>8, Zenon
<1>12. LCA(tgraph_nodes, Key(c), Other(c)) = Ancestor(c)
  BY <1>7, <1>8
<1> QED
  BY <1>5, <1>9, <1>10, <1>11, <1>12, Zenon

\* What a lookup finds is an entry of the key.
LEMMA HTElement ==
    ASSUME TableOK, NEW arg \in Nat
    PROVE  /\ getHTIndex(arg) \in 0..(TableSize - 1)
           /\ getHTElement(arg) \in 0..Len(entries)
           /\ getHTElement(arg) # 0 => entries[getHTElement(arg)].curAddr = arg
<1>1. getHTIndex(arg) \in 0..(TableSize - 1)
  BY CacheAssumption DEF getHTIndex
<1>2. lcaHashTable[getHTIndex(arg)] \in 0..Len(entries) /\ Len(entries) \in Nat
  BY <1>1 DEF TableOK
<1> QED
  BY <1>1, <1>2 DEF getHTElement

\* Moving one query.
LEMMA CallMoves ==
    ASSUME CallsOK, NEW th \in Threads, NEW d \in CallType,
           d.pc # "idle" => ProperCall(d),
           call' = [call EXCEPT ![th] = d], tgraph_nodes' = tgraph_nodes
    PROVE  /\ CallsOK'
           /\ call'[th] = d
           /\ \A u \in Threads : u # th => call'[u] = call[u]
<1>1. call' \in [Threads -> CallType]
      /\ call'[th] = d
      /\ \A u \in Threads : u # th => call'[u] = call[u]
  BY DEF CallsOK
<1>2. \A c : ProperCall(c) => ProperCall(c)'
  BY DEF ProperCall, Steps
<1> QED
  BY <1>1, <1>2 DEF CallsOK, ProperCall, Steps

\* Answering a query.
LEMMA AnswerGiven ==
    ASSUME ProgOK, CallsOK, AnswersOK, NEW th \in Threads, call[th].pc # "idle",
           NEW v \in BOOLEAN, NEW l \in Nat, Reply(th, call[th], v, l),
           tgraph_nodes' = tgraph_nodes
    PROVE  /\ AnswersOK'
           /\ Transparent /\ (call[th].what = "parallel" => v = Verdict(call[th]))
                /\ (call[th].what = "LCA" => l = Ancestor(call[th])) => Transparent'
<1> DEFINE c == call[th]
           a == [what |-> c.what, pair |-> c.pair, verdict |-> v, lca |-> l]
<1>1. c \in CallType /\ ProperCall(c)
  BY DEF CallsOK
<1>2. a \in AnswerType
  BY <1>1 DEF CallType, AnswerType
<1>3. answer' = [answer EXCEPT ![th] = a]
  BY Zenon DEF Reply
<1>4. judged' \subseteq judged \cup {{c.pair[1], c.pair[2]}}
  BY DEF Reply
<1>5. AnswersOK'
  <2>1. answer' \in [Threads -> AnswerType]
    BY <1>2, <1>3 DEF AnswersOK
  <2>2. \A p \in judged' : \E x, y \in Steps : x # y /\ p = {x, y}
    BY <1>1, <1>4 DEF AnswersOK, ProperCall
  <2> QED
    BY <2>1, <2>2 DEF AnswersOK, Steps
<1>6. ASSUME Transparent, c.what = "parallel" => v = Verdict(c),
             c.what = "LCA" => l = Ancestor(c)
      PROVE  Transparent'
  <2>1. a.what = c.what /\ a.pair = c.pair /\ a.verdict = v /\ a.lca = l
    OBVIOUS
  <2>2. c.what \in {"parallel", "LCA"}
    BY <1>1 DEF ProperCall
  <2> HIDE DEF a, c
  <2>3. Exact(a)
    BY <1>6, <2>1, <2>2, Zenon DEF Exact, Verdict, Ancestor
  <2>4. \A u \in Threads : u # th => answer'[u] = answer[u]
    BY <1>3 DEF AnswersOK
  <2>5. answer'[th] = a
    BY <1>3 DEF AnswersOK
  <2>6. \A u \in Threads : Exact(answer'[u])
    BY <1>6, <2>3, <2>4, <2>5, Zenon DEF Transparent
  <2> QED
    BY <2>6, Zenon DEF Transparent, Exact, Parallel
<1> QED
  BY <1>5, <1>6

-----------------------------------------------------------------------------
\* While queries with a common step exclude each other, the entry a query looks at or
\* writes is no other query's.
LEMMA EntriesApart ==
    ASSUME CacheInv, ~shared, NEW t \in Threads, NEW u \in Threads, t # u,
           call[t].pc \in Reading \cup Writing, call[u].pc \in Reading \cup Writing
    PROVE  call[t].entry # call[u].entry
<1>1. call[t] \in CallType /\ call[u] \in CallType
  BY DEF CacheInv, CacheTypeOK, CallsOK
<1>2. call[t].pc # "idle" /\ call[u].pc # "idle"
  BY DEF Reading, Writing, Torn
<1>3. ProperCall(call[t]) /\ ProperCall(call[u]) /\ ProgOK
  BY <1>2 DEF CacheInv, CacheTypeOK, CallsOK
<1>4. Key(call[t]) # Key(call[u])
  <2>1. PICK i \in {1, 2} : Key(call[t]) = call[t].pair[i]
    BY <1>1, <1>3, KeyOther, Zenon
  <2>2. PICK j \in {1, 2} : Key(call[u]) = call[u].pair[j]
    BY <1>1, <1>3, KeyOther, Zenon
  <2> QED
    BY <1>2, <2>1, <2>2 DEF CacheInv, CallsApart
<1> QED
  BY <1>4 DEF CacheInv, EntriesOwned

\* A step that leaves the table alone.
LEMMA QuietStep ==
    ASSUME CacheInv, NEW th \in Threads, call[th].pc \notin Torn,
           NEW d \in CallType, call' = [call EXCEPT ![th] = d],
           UNCHANGED <<tgraph_nodes, tableVars>>, ProgOK', ~shared' => ~shared,
           d.pc # "idle" => ProperCall(d),
           ~shared' /\ d.pc # "idle" =>
              \A u \in Threads : u # th /\ call[u].pc # "idle" =>
                 \A i, j \in {1, 2} : call[u].pair[i] # d.pair[j],
           d.pc \notin Torn,
           d.pc \in Reading \cup Writing =>
              d.entry \in 1..Len(entries) /\ entries[d.entry].curAddr = Key(d),
           d.pc = "read" => entries[d.entry].remAddr = Other(d),
           AnswersOK', ~shared => Transparent'
    PROVE  CacheInv'
<1>1. /\ CallsOK' /\ call'[th] = d
      /\ \A u \in Threads : u # th => call'[u] = call[u]
  BY CallMoves DEF CacheInv, CacheTypeOK
<1>2. /\ UNCHANGED <<tgraph_nodes, lcaHashTable, entries>>
  BY DEF tableVars
<1>3. CacheTypeOK'
  BY <1>1, <1>2 DEF CacheInv, CacheTypeOK, TableOK
<1>4. EntriesOwned'
  BY <1>1, <1>2 DEF CacheInv, EntriesOwned, Key
<1>5. ASSUME ~shared' PROVE CallsApart' /\ EntriesCoherent' /\ Progress' /\ Transparent'
  <2>1. ~shared /\ CallsApart /\ EntriesCoherent /\ Progress
    BY <1>5 DEF CacheInv
  <2>2. CallsApart'
    BY <1>1, <1>5, <2>1 DEF CallsApart
  <2>3. EntriesCoherent'
    <3>1. \A e : Coherent(e)' <=> Coherent(e)
      BY <1>2, Zenon DEF Coherent, Parallel
    <3>2. \A e : (\E t \in Threads : call[t].pc \in Torn /\ call[t].entry = e)
                 => \E t \in Threads : call'[t].pc \in Torn /\ call'[t].entry = e
      BY <1>1
    <3>3. Len(entries') = Len(entries)
      BY <1>2
    <3> QED
      BY <2>1, <3>1, <3>2, <3>3, Zenon DEF EntriesCoherent
  <2>4. Progress'
    <3> SUFFICES ASSUME NEW t \in Threads
                 PROVE  /\ call'[t].pc \in {"read"} \cup Torn
                             => entries[call'[t].entry].remAddr = Other(call'[t])
                        /\ call'[t].pc = "lca"
                             => entries[call'[t].entry].lca_result = Verdict(call'[t])
      BY <1>2, Zenon DEF Progress, Verdict, Parallel, Other
    <3>1. CASE t = th
      BY <1>1, <3>1 DEF Torn
    <3>2. CASE t # th
      BY <1>1, <2>1, <3>2, Zenon DEF Progress
    <3> QED
      BY <3>1, <3>2
  <2> QED
    BY <2>1, <2>2, <2>3, <2>4
<1> QED
  BY <1>3, <1>4, <1>5 DEF CacheInv

\* A step of a query in progress that leaves the table alone.
LEMMA LookingStep ==
    ASSUME CacheInv, NEW th \in Threads, call[th].pc # "idle", call[th].pc \notin Torn,
           NEW d \in CallType, call' = [call EXCEPT ![th] = d],
           UNCHANGED <<progVars, tableVars>>,
           d.pc # "idle" => ProperCall(d) /\ d.pair = call[th].pair,
           d.pc \notin Torn,
           d.pc \in Reading \cup Writing =>
              d.entry \in 1..Len(entries) /\ entries[d.entry].curAddr = Key(d),
           d.pc = "read" => entries[d.entry].remAddr = Other(d),
           AnswersOK', ~shared => Transparent'
    PROVE  CacheInv'
<1>1. UNCHANGED <<tgraph_nodes, at, begun, shared>>
  BY DEF progVars
<1>2. ProgOK'
  BY <1>1 DEF CacheInv, CacheTypeOK, ProgOK, Steps
<1>3. ~shared' /\ d.pc # "idle" =>
         \A u \in Threads : u # th /\ call[u].pc # "idle" =>
            \A i, j \in {1, 2} : call[u].pair[i] # d.pair[j]
  BY <1>1 DEF CacheInv, CallsApart
<1> QED
  BY <1>1, <1>2, <1>3, QuietStep

\* A step of a query that writes to the entry it holds.
LEMMA WritingStep ==
    ASSUME CacheInv, NEW th \in Threads, call[th].pc \in Writing,
           NEW f \in EntryType, f.curAddr = entries[call[th].entry].curAddr,
           entries' = [entries EXCEPT ![call[th].entry] = f],
           NEW d \in CallType, call' = [call EXCEPT ![th] = d],
           UNCHANGED <<progVars, lcaHashTable>>,
           d.pc # "idle" => ProperCall(d) /\ d.pair = call[th].pair,
           d.pc \notin Reading, d.pc # "remAddr",
           d.pc \in Torn => d.entry = call[th].entry /\ Key(d) = Key(call[th]),
           ~shared /\ d.pc \in Torn => f.remAddr = Other(d),
           ~shared /\ d.pc = "lca" => f.lca_result = Verdict(d),
           ~shared /\ d.pc \notin Torn =>
              /\ f.lca_result = Parallel(f.curAddr, f.remAddr)
              /\ f.lca = LCA(tgraph_nodes, f.curAddr, f.remAddr),
           AnswersOK', ~shared => Transparent'
    PROVE  CacheInv'
<1> DEFINE x == call[th].entry
<1>1. /\ CallsOK' /\ call'[th] = d
      /\ \A u \in Threads : u # th => call'[u] = call[u]
  BY CallMoves DEF CacheInv, CacheTypeOK, progVars
<1>2. /\ UNCHANGED <<tgraph_nodes, at, begun, shared, lcaHashTable>>
  BY DEF progVars
<1>3. x \in 1..Len(entries) /\ entries[x].curAddr = Key(call[th])
  BY DEF CacheInv, EntriesOwned
<1>4. /\ entries' \in Seq(EntryType) /\ Len(entries') = Len(entries)
      /\ entries'[x] = f
      /\ \A e \in 1..Len(entries) : e # x => entries'[e] = entries[e]
  BY <1>3 DEF CacheInv, CacheTypeOK, TableOK
<1>5. CacheTypeOK'
  BY <1>1, <1>2, <1>4 DEF CacheInv, CacheTypeOK, ProgOK, TableOK, Steps
<1>6. EntriesOwned'
  <2> SUFFICES ASSUME NEW t \in Threads, call'[t].pc \in Reading \cup Writing
               PROVE  /\ call'[t].entry \in 1..Len(entries')
                      /\ entries'[call'[t].entry].curAddr = Key(call'[t])
    BY DEF EntriesOwned, Key
  <2>1. CASE t = th
    BY <1>1, <1>3, <1>4, <2>1 DEF Writing, Torn
  <2>2. CASE t # th
    <3>1. /\ call'[t] = call[t] /\ call[t].entry \in 1..Len(entries)
          /\ entries[call[t].entry].curAddr = Key(call[t])
      BY <1>1, <2>2 DEF CacheInv, EntriesOwned
    <3> QED
      BY <1>3, <1>4, <3>1
  <2> QED
    BY <2>1, <2>2
<1>7. ASSUME ~shared' PROVE CallsApart' /\ EntriesCoherent' /\ Progress'
  <2>1. ~shared /\ CallsApart /\ EntriesCoherent /\ Progress
    BY <1>2, <1>7 DEF CacheInv
  <2>2. CallsApart'
    <3>1. call[th].pc # "idle"
      BY DEF Writing, Torn
    <3> QED
      BY <1>1, <2>1, <3>1 DEF CallsApart
  <2>3. ASSUME NEW u \in Threads, u # th, call[u].pc \in Reading \cup Writing
        PROVE  call[u].entry # x /\ call[u].entry \in 1..Len(entries)
               /\ entries'[call[u].entry] = entries[call[u].entry]
    <3>1. call[u].entry # x
      BY <2>1, <2>3, EntriesApart
    <3>2. call[u].entry \in 1..Len(entries)
      BY <2>3 DEF CacheInv, EntriesOwned
    <3> QED
      BY <1>4, <3>1, <3>2
  <2>4. EntriesCoherent'
    <3> SUFFICES ASSUME NEW e \in 1..Len(entries),
                        ~ \E t \in Threads : call'[t].pc \in Torn /\ call'[t].entry = e
                 PROVE  Coherent(e)'
      BY <1>4, Zenon DEF EntriesCoherent
    <3>1. CASE e = x
      <4>1. d.pc \notin Torn
        BY <1>1, <3>1
      <4>2. /\ f.lca_result = Parallel(f.curAddr, f.remAddr)
            /\ f.lca = LCA(tgraph_nodes, f.curAddr, f.remAddr)
        BY <2>1, <4>1
      <4>3. entries'[e] = f
        BY <1>4, <3>1
      <4> QED
        BY <1>2, <4>2, <4>3, Zenon DEF Coherent, Parallel
    <3>2. CASE e # x
      <4>1. ~ \E t \in Threads : call[t].pc \in Torn /\ call[t].entry = e
        BY <1>1, <3>2
      <4>2. Coherent(e)
        BY <2>1, <4>1, Zenon DEF EntriesCoherent
      <4>3. entries'[e] = entries[e]
        BY <1>4, <3>2
      <4> QED
        BY <1>2, <4>2, <4>3, Zenon DEF Coherent, Parallel
    <3> QED
      BY <3>1, <3>2
  <2>5. Progress'
    <3> SUFFICES ASSUME NEW t \in Threads
                 PROVE  /\ call'[t].pc \in {"read"} \cup Torn
                             => entries'[call'[t].entry].remAddr = Other(call'[t])
                        /\ call'[t].pc = "lca"
                             => entries'[call'[t].entry].lca_result = Verdict(call'[t])
      BY <1>2, Zenon DEF Progress, Verdict, Parallel, Other
    <3>1. CASE t = th
      <4>1. d.pc \in {"read"} \cup Torn => d.pc \in Torn
        BY DEF Reading
      <4>2. d.pc = "lca" => d.pc \in Torn
        BY DEF Torn
      <4>3. call'[t] = d /\ (d.pc \in Torn => entries'[d.entry] = f)
        BY <1>1, <1>4, <3>1
      <4> QED
        BY <2>1, <4>1, <4>2, <4>3, Zenon
    <3>2. CASE t # th
      <4>1. call'[t] = call[t]
        BY <1>1, <3>2
      <4>2. call[t].pc \in {"read"} \cup Torn => entries'[call[t].entry] = entries[call[t].entry]
        BY <2>3, <3>2 DEF Reading, Writing
      <4>3. call[t].pc = "lca" => call[t].pc \in {"read"} \cup Torn
        BY DEF Torn
      <4> QED
        BY <2>1, <4>1, <4>2, <4>3, Zenon DEF Progress
    <3> QED
      BY <3>1, <3>2
  <2> QED
    BY <2>2, <2>4, <2>5
<1> QED
  BY <1>2, <1>5, <1>6, <1>7 DEF CacheInv

-----------------------------------------------------------------------------
Moved(c, side, entry, pc) == [c EXCEPT !.side = side, !.entry = entry, !.pc = pc]

\* A query that goes on is still about the same two steps.
LEMMA Continues ==
    ASSUME NEW c \in CallType, NEW s \in {1, 2}, NEW e \in Nat, NEW p \in Pcs
    PROVE  /\ Moved(c, s, e, p) \in CallType
           /\ Moved(c, s, e, p).pair = c.pair /\ Moved(c, s, e, p).what = c.what
           /\ Moved(c, s, e, p).pc = p
           /\ Moved(c, s, e, p).entry = e /\ Moved(c, s, e, p).side = s
BY DEF Moved, CallType

\* The ways a query goes on.
LEMMA CallFields ==
    ASSUME NEW c \in CallType
    PROVE  /\ \A p, e : [[c EXCEPT !.entry = e] EXCEPT !.pc = p] = Moved(c, c.side, e, p)
           /\ \A p : [c EXCEPT !.pc = p] = Moved(c, c.side, c.entry, p)
           /\ \A p, s : [[c EXCEPT !.side = s] EXCEPT !.pc = p] = Moved(c, s, c.entry, p)
BY DEF CallType, Moved

\* The state of a thread outside any call.
LEMMA NoCallFacts ==
    /\ NoCall \in CallType /\ NoCall.pc = "idle"
BY DEF NoCall, CallType, Pcs

\* Both entries are about other pairs: LCA computes, parallel() goes on to update.
LEMMA NotFoundStep ==
    ASSUME CacheInv, NEW th \in Threads, call[th].pc \in {"look", "match"},
           NotFound(th, call[th]), UNCHANGED <<progVars, tableVars>>
    PROVE  CacheInv'
<1> DEFINE c == call[th]
<1>1. c \in CallType /\ ProperCall(c) /\ c.pc # "idle" /\ c.pc \notin Torn
  BY DEF CacheInv, CacheTypeOK, CallsOK, Torn
<1>2. c.side \in {1, 2} /\ c.entry \in Nat /\ c.what \in {"parallel", "LCA"}
  BY <1>1 DEF CallType, ProperCall
<1>3. tgraph_nodes' = tgraph_nodes
  BY DEF progVars
<1>4. ASSUME NEW s \in {1, 2}, NEW p \in {"look", "update"}, p = "update" => c.what = "parallel",
             Goto(th, [c EXCEPT !.side = s], p)
      PROVE  CacheInv'
  <2> DEFINE d == Moved(c, s, c.entry, p)
  <2>1. p \in Pcs /\ p \notin Reading /\ p \notin Writing /\ p # "idle" /\ p # "create"
    BY DEF Pcs, Reading, Writing, Torn
  <2>2. d \in CallType /\ ProperCall(d) /\ d.pair = c.pair /\ d.pc = p
    BY <1>1, <1>2, <1>4, <2>1, Continues DEF ProperCall
  <2>3. call' = [call EXCEPT ![th] = d] /\ UNCHANGED <<answer, judged>>
    BY <1>1, <1>4, CallFields DEF Goto
  <2>4. AnswersOK' /\ (~shared => Transparent')
    BY <1>3, <2>3, Zenon DEF AnswersOK, Transparent, Exact, Parallel, Steps, CacheInv, CacheTypeOK
  <2> HIDE DEF d, c
  <2> QED
    BY <1>1, <2>1, <2>2, <2>3, <2>4, LookingStep DEF Writing, c
<1>5. CASE c.side = 1
  BY <1>4, <1>5 DEF NotFound
<1>6. CASE c.side # 1 /\ c.what = "LCA"
  <2>1. Reply(th, c, FALSE, Ancestor(c))
    BY <1>6 DEF NotFound
  <2>2. Ancestor(c) \in Nat
    BY <1>1, KeyOther DEF CacheInv, CacheTypeOK
  <2>3. AnswersOK' /\ (~shared => Transparent')
    BY <1>1, <1>3, <1>6, <2>1, <2>2, AnswerGiven DEF CacheInv, CacheTypeOK
  <2>4. call' = [call EXCEPT ![th] = NoCall]
    BY <2>1 DEF Reply
  <2>5. "idle" \notin Reading \cup Writing
    BY DEF Reading, Writing, Torn
  <2> QED
    BY <1>1, <2>3, <2>4, <2>5, NoCallFacts, LookingStep DEF Writing
<1>7. CASE c.side # 1 /\ c.what # "LCA"
  <2>1. Goto(th, [c EXCEPT !.side = 1], "update")
    BY <1>7 DEF NotFound
  <2>2. c.what = "parallel"
    BY <1>2, <1>7
  <2> QED
    BY <1>4, <2>1, <2>2
<1> QED
  BY <1>5, <1>6, <1>7

\* A query that goes on to look at, or to write, an entry of its step.
LEMMA FoundStep ==
    ASSUME CacheInv, NEW th \in Threads, call[th].pc # "idle", call[th].pc \notin Torn,
           NEW e, e \in 1..Len(entries), entries[e].curAddr = Key(call[th]),
           NEW p, p \in {"match", "read", "remAddr"},
           p = "remAddr" => call[th].what = "parallel",
           p = "read" => entries[e].remAddr = Other(call[th]),
           call' = [call EXCEPT ![th] = Moved(call[th], call[th].side, e, p)],
           UNCHANGED <<progVars, tableVars, answer, judged>>
    PROVE  CacheInv'
<1> DEFINE c == call[th]
           d == Moved(c, c.side, e, p)
<1>1. c \in CallType /\ ProperCall(c)
  BY DEF CacheInv, CacheTypeOK, CallsOK
<1>2. c.side \in {1, 2} /\ e \in Nat
  BY <1>1 DEF CallType, CacheInv, CacheTypeOK, TableOK
<1>3. p \in Pcs /\ p \notin Torn /\ p # "idle"
  BY DEF Pcs, Reading, Writing, Torn
<1>4. /\ d \in CallType /\ ProperCall(d) /\ d.pair = c.pair /\ d.pc = p
      /\ d.entry = e /\ d.side = c.side
  <2>1. /\ d \in CallType /\ d.pair = c.pair /\ d.what = c.what /\ d.pc = p
        /\ d.entry = e /\ d.side = c.side
    <3>1. c \in CallType /\ c.side \in {1, 2} /\ e \in Nat /\ p \in Pcs
      BY <1>1, <1>2, <1>3
    <3> HIDE DEF c
    <3> QED
      BY <3>1 DEF Moved, CallType
  <2> HIDE DEF d
  <2>2. ProperCall(d)
    BY <1>1, <2>1 DEF ProperCall, Writing, Torn
  <2> QED
    BY <2>1, <2>2, Zenon
<1> HIDE DEF d, c
<1>5. Key(d) = Key(c) /\ Other(d) = Other(c)
  BY <1>4 DEF Key, Other
<1>6. AnswersOK' /\ (~shared => Transparent')
  BY Zenon DEF progVars, AnswersOK, Transparent, Exact, Parallel, Steps, CacheInv, CacheTypeOK
<1>7. call' = [call EXCEPT ![th] = d] /\ UNCHANGED <<progVars, tableVars>>
  BY DEF d, c
<1> QED
  BY <1>3, <1>4, <1>5, <1>6, <1>7, LookingStep DEF c

-----------------------------------------------------------------------------
\* No answer is an exact answer.
LEMMA Forgets ==
    ASSUME ProgOK, AnswersOK, NEW th \in Threads,
           answer' = [answer EXCEPT ![th] = NoAnswer],
           tgraph_nodes' = tgraph_nodes, judged' = judged
    PROVE  AnswersOK' /\ (Transparent => Transparent')
<1>1. NoAnswer \in AnswerType /\ NoAnswer.what = "none"
  BY DEF NoAnswer, AnswerType
<1>2. /\ answer' \in [Threads -> AnswerType] /\ answer'[th] = NoAnswer
      /\ \A u \in Threads : u # th => answer'[u] = answer[u]
  BY <1>1 DEF AnswersOK
<1>3. AnswersOK'
  BY <1>2 DEF AnswersOK, Steps
<1>4. Exact(NoAnswer)
  BY <1>1, Zenon DEF Exact
<1>5. Transparent => \A u \in Threads : Exact(answer'[u])
  BY <1>2, <1>4, Zenon DEF Transparent
<1> QED
  BY <1>3, <1>5, Zenon DEF Transparent, Exact, Parallel

\* A step that begins asks nothing yet.
LEMMA BeginStep ==
    ASSUME CacheInv, NEW th \in Threads, NEW s \in Steps, Begin(th, s)
    PROVE  CacheInv'
<1>1. /\ call[th].pc = "idle" /\ call[th] \in CallType
      /\ UNCHANGED <<tgraph_nodes, call, judged, shared>> /\ UNCHANGED tableVars
  BY DEF Begin, CacheInv, CacheTypeOK, CallsOK
<1>2. call' = [call EXCEPT ![th] = call[th]]
  BY <1>1 DEF CacheInv, CacheTypeOK, CallsOK
<1>3. ProgOK'
  <2>1. at' = [at EXCEPT ![th] = s] /\ begun' = begun \cup {s}
    BY DEF Begin
  <2> QED
    BY <1>1, <2>1 DEF CacheInv, CacheTypeOK, ProgOK, Steps
<1>4. AnswersOK' /\ (Transparent => Transparent')
  BY <1>1, Forgets, Zenon DEF Begin, CacheInv, CacheTypeOK
<1>5. ~shared => Transparent'
  BY <1>4 DEF CacheInv
<1>6. "idle" \notin Reading \cup Writing /\ "idle" \notin Torn /\ "idle" # "read"
  BY DEF Reading, Writing, Torn
<1> QED
  BY <1>1, <1>2, <1>3, <1>4, <1>5, <1>6, QuietStep

\* A call begins by looking its pair up.
LEMMA AskStep ==
    ASSUME CacheInv, NEW th \in Threads, NEW what \in {"parallel", "LCA"},
           NEW r \in begun, NEW s \in begun, Ask(th, what, r, s)
    PROVE  CacheInv'
<1> DEFINE d == Call(what, <<r, s>>)
<1>1. /\ call[th].pc = "idle"
      /\ UNCHANGED <<tgraph_nodes, at, begun, judged>> /\ UNCHANGED tableVars
      /\ call' = [call EXCEPT ![th] = d]
  BY DEF Ask
<1>2. r \in Steps /\ s \in Steps /\ r \in Nat /\ s \in Nat
  BY DEF CacheInv, CacheTypeOK, ProgOK, Steps, StepsOf
<1>3. r # s
  <2>1. CASE what = "parallel"
    BY <2>1 DEF Ask, SameTask
  <2>2. CASE what = "LCA"
    <3>1. {r, s} \in judged
      BY <2>2 DEF Ask
    <3> QED
      BY <3>1 DEF CacheInv, CacheTypeOK, AnswersOK
  <2> QED
    BY <2>1, <2>2
<1>4. /\ d \in CallType /\ d.pc = "look" /\ d.pair = <<r, s>> /\ d.what = what
  BY <1>2 DEF Call, CallType, Pcs
<1>5. "idle" \notin Torn /\ "look" \notin Reading \cup Writing /\ "look" \notin Torn
      /\ "look" \notin {"update", "create"} \cup Writing /\ "look" # "read"
  BY DEF Reading, Writing, Torn
<1> HIDE DEF d
<1>6. ProperCall(d)
  BY <1>2, <1>3, <1>4, <1>5 DEF ProperCall
<1>7. shared' = (shared \/ \E u \in Threads, i, j \in {1, 2} : call[u].pair[i] = <<r, s>>[j])
  BY Zenon DEF Ask
<1>8. shared' \in BOOLEAN /\ (~shared' => ~shared)
      /\ (~shared' => \A u \in Threads, i, j \in {1, 2} : call[u].pair[i] # <<r, s>>[j])
  BY <1>7, Zenon DEF CacheInv, CacheTypeOK, ProgOK
<1>9. ~shared' => \A u \in Threads : \A i, j \in {1, 2} : call[u].pair[i] # d.pair[j]
  BY <1>4, <1>8, Zenon
<1>10. ProgOK'
  BY <1>1, <1>8, Zenon DEF CacheInv, CacheTypeOK, ProgOK, Steps
<1>11. AnswersOK' /\ (Transparent => Transparent')
  BY <1>1, Forgets, Zenon DEF Ask, CacheInv, CacheTypeOK
<1>12. ~shared => Transparent'
  BY <1>11 DEF CacheInv
<1> QED
  BY <1>1, <1>4, <1>5, <1>6, <1>8, <1>9, <1>10, <1>11, <1>12, QuietStep

\* The bucket is read once; what was found is compared later.
LEMMA LookStep ==
    ASSUME CacheInv, NEW th \in Threads, Look(th)
    PROVE  CacheInv'
<1> DEFINE c == call[th]
           e == getHTElement(Key(c))
<1>1. c.pc = "look" /\ UNCHANGED <<progVars, tableVars>>
  BY DEF Look
<1>2. c \in CallType /\ ProperCall(c)
  BY <1>1 DEF CacheInv, CacheTypeOK, CallsOK
<1>3. Key(c) \in Nat
  BY <1>2, KeyOther DEF CacheInv, CacheTypeOK
<1>4. e \in 0..Len(entries) /\ (e # 0 => entries[e].curAddr = Key(c))
  BY <1>3, HTElement DEF CacheInv, CacheTypeOK
<1>5. CASE e = 0
  BY <1>1, <1>5, NotFoundStep DEF Look
<1>6. CASE e # 0
  <2>1. Goto(th, [c EXCEPT !.entry = e], "match")
    BY <1>6 DEF Look
  <2>2. e \in 1..Len(entries)
    BY <1>4, <1>6 DEF CacheInv, CacheTypeOK, TableOK
  <2> HIDE DEF e
  <2>3. call' = [call EXCEPT ![th] = Moved(c, c.side, e, "match")] /\ UNCHANGED <<answer, judged>>
    <3>1. /\ call' = [call EXCEPT ![th] = [[c EXCEPT !.entry = e] EXCEPT !.pc = "match"]]
          /\ UNCHANGED <<answer, judged>>
      BY <2>1, Zenon DEF Goto
    <3>2. [[c EXCEPT !.entry = e] EXCEPT !.pc = "match"] = Moved(c, c.side, e, "match")
      <4> HIDE DEF c
      <4> QED
        BY <1>2 DEF CallType, Moved
    <3> QED
      BY <3>1, <3>2, Zenon
  <2>4. "look" \notin Torn
    BY DEF Torn
  <2> QED
    BY <1>1, <1>4, <1>6, <2>2, <2>3, <2>4, FoundStep
<1> QED
  BY <1>5, <1>6

\* The entry read earlier may have been taken over by another pair since.
LEMMA MatchStep ==
    ASSUME CacheInv, NEW th \in Threads, Match(th)
    PROVE  CacheInv'
<1> DEFINE c == call[th]
           e == c.entry
<1>1. c.pc = "match" /\ UNCHANGED <<progVars, tableVars>>
  BY DEF Match
<1>2. c \in CallType /\ c.pc \in Reading /\ c.pc \notin Torn
  BY <1>1 DEF CacheInv, CacheTypeOK, CallsOK, Reading, Torn
<1>3. e \in 1..Len(entries) /\ entries[e].curAddr = Key(c)
  BY <1>2 DEF CacheInv, EntriesOwned
<1>4. CASE entries[e].remAddr = Other(c)
  <2>1. Goto(th, c, "read")
    BY <1>4 DEF Match
  <2>2. call' = [call EXCEPT ![th] = Moved(c, c.side, e, "read")] /\ UNCHANGED <<answer, judged>>
    BY <1>2, <2>1, CallFields DEF Goto
  <2> QED
    BY <1>1, <1>2, <1>3, <1>4, <2>2, FoundStep
<1>5. CASE entries[e].remAddr # Other(c)
  BY <1>1, <1>5, NotFoundStep DEF Match
<1> QED
  BY <1>4, <1>5

\* An entry that a query is about to read is coherent: a query half way through an
\* update of it would be about the same step.
LEMMA ReadStep ==
    ASSUME CacheInv, NEW th \in Threads, Read(th)
    PROVE  CacheInv'
<1> DEFINE c == call[th]
           e == entries[c.entry]
           v == c.what = "parallel" /\ e.lca_result
           l == IF c.what = "LCA" THEN e.lca ELSE 0
<1>1. c.pc = "read" /\ UNCHANGED <<progVars, tableVars>> /\ Reply(th, c, v, l)
  BY Zenon DEF Read
<1>2. c.pc # "idle" /\ c.pc \in Reading /\ c.pc \notin Torn
  BY <1>1 DEF Reading, Torn
<1>3. c \in CallType /\ ProperCall(c)
  BY <1>2 DEF CacheInv, CacheTypeOK, CallsOK
<1>4. /\ c.entry \in 1..Len(entries) /\ e.curAddr = Key(c) /\ e \in EntryType
  BY <1>2 DEF CacheInv, EntriesOwned, CacheTypeOK, TableOK
<1>5. e.lca \in Nat /\ e.lca_result \in BOOLEAN
  BY <1>4, Zenon DEF EntryType
<1>6. v \in BOOLEAN
  BY Zenon
<1>7. l \in Nat
  BY <1>5
<1>8. ASSUME ~shared
      PROVE  e.lca_result = Verdict(c) /\ e.lca = Ancestor(c)
  <2>1. ~ \E t \in Threads : call[t].pc \in Torn /\ call[t].entry = c.entry
    <3> SUFFICES ASSUME NEW t \in Threads, call[t].pc \in Torn
                 PROVE  call[t].entry # c.entry
      OBVIOUS
    <3>1. t # th
      BY <1>2
    <3>2. call[t].pc \in Reading \cup Writing /\ c.pc \in Reading \cup Writing
      BY <1>2 DEF Writing
    <3> QED
      BY <1>8, <3>1, <3>2, EntriesApart
  <2>2. Coherent(c.entry)
    BY <1>4, <1>8, <2>1, Zenon DEF CacheInv, EntriesCoherent
  <2>3. e.remAddr = Other(c)
    BY <1>1, <1>8 DEF CacheInv, Progress
  <2>4. /\ Parallel(Key(c), Other(c)) = Verdict(c)
        /\ LCA(tgraph_nodes, Key(c), Other(c)) = Ancestor(c)
    BY <1>3, KeyOther, Zenon DEF CacheInv, CacheTypeOK
  <2>5. /\ e.lca_result = Parallel(e.curAddr, e.remAddr)
        /\ e.lca = LCA(tgraph_nodes, e.curAddr, e.remAddr)
    BY <2>2, Zenon DEF Coherent
  <2> HIDE DEF e
  <2> QED
    BY <1>4, <2>3, <2>4, <2>5, Zenon
<1>9. tgraph_nodes' = tgraph_nodes
  BY <1>1 DEF progVars
<1>10. ~shared => (c.what = "parallel" => v = Verdict(c)) /\ (c.what = "LCA" => l = Ancestor(c))
  <2>1. c.what = "parallel" => v = e.lca_result
    BY <1>5, Zenon
  <2>2. c.what = "LCA" => l = e.lca
    BY Zenon
  <2> QED
    BY <1>8, <2>1, <2>2, Zenon
<1> HIDE DEF v, l
<1>11. AnswersOK' /\ (~shared => Transparent')
  BY <1>1, <1>2, <1>6, <1>7, <1>9, <1>10, AnswerGiven, Zenon DEF CacheInv, CacheTypeOK
<1>12. call' = [call EXCEPT ![th] = NoCall]
  BY <1>1, Zenon DEF Reply
<1>13. "idle" \notin Reading \cup Writing /\ "idle" \notin Torn /\ "idle" # "read"
  BY DEF Reading, Writing, Torn
<1> QED
  BY <1>1, <1>2, <1>11, <1>12, <1>13, NoCallFacts, LookingStep

\* The update reads the bucket anew.
LEMMA UpdateStep ==
    ASSUME CacheInv, NEW th \in Threads, Update(th)
    PROVE  CacheInv'
<1> DEFINE c == call[th]
           e == getHTElement(Key(c))
           pc == IF e = 0 THEN "create" ELSE "remAddr"
<1>1. c.pc = "update" /\ UNCHANGED <<progVars, tableVars>> /\ Goto(th, [c EXCEPT !.entry = e], pc)
  BY Zenon DEF Update
<1>2. c \in CallType /\ ProperCall(c) /\ c.what = "parallel"
  BY <1>1 DEF CacheInv, CacheTypeOK, CallsOK, ProperCall
<1>3. Key(c) \in Nat
  BY <1>2, KeyOther DEF CacheInv, CacheTypeOK
<1>4. e \in 0..Len(entries) /\ (e # 0 => entries[e].curAddr = Key(c))
  BY <1>3, HTElement DEF CacheInv, CacheTypeOK
<1>5. Len(entries) \in Nat
  BY DEF CacheInv, CacheTypeOK, TableOK
<1>6. "update" # "idle" /\ "update" \notin Torn
  BY DEF Torn
<1> HIDE DEF e
<1>7. [[c EXCEPT !.entry = e] EXCEPT !.pc = pc] = Moved(c, c.side, e, pc)
  <2> HIDE DEF c, pc
  <2> QED
    BY <1>2 DEF CallType, Moved
<1>8. /\ call' = [call EXCEPT ![th] = Moved(c, c.side, e, pc)]
      /\ UNCHANGED <<answer, judged>>
  BY <1>1, <1>7, Zenon DEF Goto
<1>9. CASE e # 0
  <2>1. pc = "remAddr" /\ e \in 1..Len(entries)
    BY <1>4, <1>5, <1>9
  <2> HIDE DEF pc
  <2> QED
    BY <1>1, <1>2, <1>4, <1>6, <1>8, <1>9, <2>1, FoundStep
<1>10. CASE e = 0
  <2> DEFINE d == Moved(c, c.side, e, pc)
  <2>1. pc = "create"
    BY <1>10
  <2> HIDE DEF pc
  <2>2. c.side \in {1, 2} /\ pc \in Pcs /\ e \in Nat
    BY <1>2, <1>10, <2>1 DEF CallType, Pcs
  <2>3. d \in CallType /\ d.pair = c.pair /\ d.what = c.what /\ d.pc = "create"
    <3> HIDE DEF c
    <3> QED
      BY <1>2, <2>1, <2>2 DEF Moved, CallType
  <2>4. "create" \notin Torn /\ "create" \notin Reading \cup Writing /\ "create" # "read"
    BY DEF Torn, Reading, Writing
  <2> HIDE DEF d
  <2>5. ProperCall(d)
    BY <1>2, <2>3 DEF ProperCall
  <2>6. AnswersOK' /\ (~shared => Transparent')
    BY <1>1, <1>8, Zenon DEF progVars, AnswersOK, Transparent, Exact, Parallel, Steps,
                             CacheInv, CacheTypeOK
  <2>7. call' = [call EXCEPT ![th] = d]
    BY <1>8 DEF d
  <2> QED
    BY <1>1, <1>6, <2>3, <2>4, <2>5, <2>6, <2>7, LookingStep
<1> QED
  BY <1>9, <1>10

-----------------------------------------------------------------------------
\* With the one entry written, a query goes on to the other one or answers.
LEMMA NextUpdateCall ==
    ASSUME CacheInv, NEW th \in Threads, call[th].pc \in {"create", "lca"},
           NextUpdate(th, call[th]), tgraph_nodes' = tgraph_nodes
    PROVE  \E d \in CallType :
              /\ call' = [call EXCEPT ![th] = d]
              /\ d.pc # "idle" => ProperCall(d) /\ d.pair = call[th].pair
              /\ d.pc \notin Reading \cup Writing
              /\ AnswersOK' /\ (~shared => Transparent')
<1> DEFINE c == call[th]
<1>1. c.pc # "idle" /\ c.pc \in {"update", "create"} \cup Writing
  BY DEF Writing, Torn
<1>2. c \in CallType /\ ProperCall(c) /\ c.what = "parallel"
  BY <1>1 DEF CacheInv, CacheTypeOK, CallsOK, ProperCall
<1>3. CASE c.side = 1
  <2> DEFINE d == Moved(c, 2, c.entry, "update")
  <2>1. call' = [call EXCEPT ![th] = d] /\ UNCHANGED <<answer, judged>>
    BY <1>2, <1>3, CallFields DEF NextUpdate, Goto
  <2>2. "update" \in Pcs /\ "update" # "idle" /\ "update" \notin Reading \cup Writing
    BY DEF Pcs, Reading, Writing, Torn
  <2>3. d \in CallType /\ d.pair = c.pair /\ d.what = c.what /\ d.pc = "update"
    <3> HIDE DEF c
    <3> QED
      BY <1>2, <2>2 DEF Moved, CallType
  <2> HIDE DEF d
  <2>4. ProperCall(d)
    BY <1>2, <2>3 DEF ProperCall
  <2>5. AnswersOK' /\ (~shared => Transparent')
    BY <2>1, Zenon DEF AnswersOK, Transparent, Exact, Parallel, Steps, CacheInv, CacheTypeOK
  <2> QED
    BY <2>1, <2>2, <2>3, <2>4, <2>5
<1>4. CASE c.side # 1
  <2>1. Reply(th, c, Verdict(c), 0)
    BY <1>4 DEF NextUpdate
  <2>2. Verdict(c) \in BOOLEAN
    BY <1>2, KeyOther, Zenon DEF CacheInv, CacheTypeOK
  <2>3. c.what # "LCA"
    BY <1>2
  <2>4. AnswersOK' /\ (~shared => Transparent')
    BY <1>1, <2>1, <2>2, <2>3, AnswerGiven, Zenon DEF CacheInv, CacheTypeOK
  <2>5. call' = [call EXCEPT ![th] = NoCall]
    BY <2>1, Zenon DEF Reply
  <2>6. "idle" \notin Reading \cup Writing
    BY DEF Reading, Writing, Torn
  <2> QED
    BY <2>4, <2>5, <2>6, NoCallFacts
<1> QED
  BY <1>3, <1>4

\* The entry that an updating query holds.
LEMMA HeldEntry ==
    ASSUME CacheInv, NEW th \in Threads, call[th].pc \in Writing
    PROVE  /\ call[th] \in CallType /\ ProperCall(call[th])
           /\ call[th].entry \in 1..Len(entries)
           /\ entries[call[th].entry] \in EntryType
           /\ entries[call[th].entry].curAddr = Key(call[th])
           /\ Other(call[th]) \in Nat /\ Ancestor(call[th]) \in Nat
           /\ Verdict(call[th]) \in BOOLEAN
<1>1. call[th].pc # "idle"
  BY DEF Writing, Torn
<1>2. call[th] \in CallType /\ ProperCall(call[th])
  BY <1>1 DEF CacheInv, CacheTypeOK, CallsOK
<1>3. /\ call[th].entry \in 1..Len(entries)
      /\ entries[call[th].entry].curAddr = Key(call[th])
  BY DEF CacheInv, EntriesOwned
<1>4. entries[call[th].entry] \in EntryType
  BY <1>3 DEF CacheInv, CacheTypeOK, TableOK
<1>5. /\ Other(call[th]) \in Nat /\ Ancestor(call[th]) \in Nat
      /\ Verdict(call[th]) \in BOOLEAN
  BY <1>2, KeyOther, Zenon DEF CacheInv, CacheTypeOK
<1> QED
  BY <1>2, <1>3, <1>4, <1>5, Zenon

\* A query goes on with the update of the entry it holds.
LEMMA GoesOnWriting ==
    ASSUME CacheInv, NEW th \in Threads, call[th].pc \in Writing, NEW p \in Torn,
           Goto(th, call[th], p), UNCHANGED progVars
    PROVE  \E d \in CallType :
              /\ call' = [call EXCEPT ![th] = d]
              /\ ProperCall(d) /\ d.pair = call[th].pair /\ d.pc = p
              /\ d.entry = call[th].entry /\ d.side = call[th].side
              /\ Key(d) = Key(call[th]) /\ Other(d) = Other(call[th])
              /\ Verdict(d) = Verdict(call[th])
              /\ AnswersOK' /\ (~shared => Transparent')
<1> DEFINE c == call[th]
           d == Moved(c, c.side, c.entry, p)
<1>1. c \in CallType /\ ProperCall(c) /\ c.what = "parallel"
  BY HeldEntry DEF ProperCall
<1>2. call' = [call EXCEPT ![th] = d] /\ UNCHANGED <<answer, judged>>
  BY <1>1, CallFields DEF Goto
<1>3. p \in Pcs
  BY DEF Pcs, Writing
<1>4. /\ d \in CallType /\ d.pair = c.pair /\ d.what = c.what /\ d.pc = p
      /\ d.entry = c.entry /\ d.side = c.side
  <2> HIDE DEF c
  <2> QED
    BY <1>1, <1>3 DEF Moved, CallType
<1> HIDE DEF d
<1>5. ProperCall(d)
  BY <1>1, <1>4 DEF ProperCall
<1>6. Key(d) = Key(c) /\ Other(d) = Other(c)
  BY <1>4 DEF Key, Other
<1>7. Verdict(d) = Verdict(c)
  BY <1>4, Zenon DEF Verdict
<1>8. AnswersOK' /\ (~shared => Transparent')
  BY <1>2, Zenon DEF progVars, AnswersOK, Transparent, Exact, Parallel, Steps, CacheInv,
                     CacheTypeOK
<1> QED
  BY <1>2, <1>4, <1>5, <1>6, <1>7, <1>8, Zenon

\* The first of the three stores of an update: the pair.
LEMMA SetRemAddrStep ==
    ASSUME CacheInv, NEW th \in Threads, SetRemAddr(th)
    PROVE  CacheInv'
<1> DEFINE c == call[th]
           f == [entries[c.entry] EXCEPT !.remAddr = Other(c)]
<1>1. /\ c.pc = "remAddr" /\ Goto(th, c, "lca_result") /\ UNCHANGED <<progVars, lcaHashTable>>
      /\ entries' = [entries EXCEPT ![c.entry] = f]
  BY DEF SetRemAddr
<1>2. c.pc \in Writing /\ "lca_result" \in Torn /\ "lca_result" \notin Reading
      /\ "lca_result" # "remAddr" /\ "lca_result" # "lca"
  BY <1>1 DEF Writing, Torn, Reading
<1>3. f \in EntryType /\ f.curAddr = entries[c.entry].curAddr /\ f.remAddr = Other(c)
  BY <1>2, HeldEntry DEF EntryType
<1>4. UNCHANGED progVars
  BY <1>1
<1>5. PICK d \in CallType :
         /\ call' = [call EXCEPT ![th] = d]
         /\ ProperCall(d) /\ d.pair = c.pair /\ d.pc = "lca_result"
         /\ d.entry = c.entry /\ d.side = c.side
         /\ Key(d) = Key(c) /\ Other(d) = Other(c)
         /\ Verdict(d) = Verdict(c)
         /\ AnswersOK' /\ (~shared => Transparent')
  BY <1>1, <1>2, <1>4, GoesOnWriting, Zenon
<1> HIDE DEF f
<1> QED
  BY <1>1, <1>2, <1>3, <1>5, WritingStep

\* The second store: the verdict.
LEMMA SetResultStep ==
    ASSUME CacheInv, NEW th \in Threads, SetResult(th)
    PROVE  CacheInv'
<1> DEFINE c == call[th]
           f == [entries[c.entry] EXCEPT !.lca_result = Verdict(c)]
<1>1. /\ c.pc = "lca_result" /\ Goto(th, c, "lca") /\ UNCHANGED <<progVars, lcaHashTable>>
      /\ entries' = [entries EXCEPT ![c.entry] = f]
  BY DEF SetResult
<1>2. c.pc \in Writing /\ c.pc \in Torn /\ "lca" \in Torn /\ "lca" \notin Reading
      /\ "lca" # "remAddr"
  BY <1>1 DEF Writing, Torn, Reading
<1>3. /\ f \in EntryType /\ f.curAddr = entries[c.entry].curAddr
      /\ f.remAddr = entries[c.entry].remAddr
      /\ f.lca_result = Verdict(c)
  BY <1>2, HeldEntry DEF EntryType
<1>4. ~shared => f.remAddr = Other(c)
  BY <1>2, <1>3 DEF CacheInv, Progress
<1>5. UNCHANGED progVars
  BY <1>1
<1>6. PICK d \in CallType :
         /\ call' = [call EXCEPT ![th] = d]
         /\ ProperCall(d) /\ d.pair = c.pair /\ d.pc = "lca"
         /\ d.entry = c.entry /\ d.side = c.side
         /\ Key(d) = Key(c) /\ Other(d) = Other(c)
         /\ Verdict(d) = Verdict(c)
         /\ AnswersOK' /\ (~shared => Transparent')
  BY <1>1, <1>2, <1>5, GoesOnWriting, Zenon
<1>7. f.lca_result = Verdict(d)
  BY <1>3, <1>6, Zenon
<1> HIDE DEF f
<1> QED
  BY <1>1, <1>2, <1>3, <1>4, <1>6, <1>7, WritingStep

\* The third store: the ancestor.
LEMMA SetLcaStep ==
    ASSUME CacheInv, NEW th \in Threads, SetLca(th)
    PROVE  CacheInv'
<1> DEFINE c == call[th]
           f == [entries[c.entry] EXCEPT !.lca = Ancestor(c)]
<1>1. /\ c.pc = "lca" /\ NextUpdate(th, c) /\ UNCHANGED <<progVars, lcaHashTable>>
      /\ entries' = [entries EXCEPT ![c.entry] = f]
  BY DEF SetLca
<1>2. c.pc \in Writing /\ c.pc \in Torn
  BY <1>1 DEF Writing, Torn
<1>3. /\ f \in EntryType /\ f.curAddr = entries[c.entry].curAddr /\ f.curAddr = Key(c)
      /\ f.remAddr = entries[c.entry].remAddr
      /\ f.lca = Ancestor(c)
  BY <1>2, HeldEntry DEF EntryType
<1>4. f.lca_result = entries[c.entry].lca_result
  BY <1>2, HeldEntry, Zenon DEF EntryType
<1>5. ~shared => f.remAddr = Other(c)
  BY <1>2, <1>3 DEF CacheInv, Progress
<1>6. ~shared => f.lca_result = Verdict(c)
  BY <1>1, <1>4, Zenon DEF CacheInv, Progress
<1>7. /\ Parallel(Key(c), Other(c)) = Verdict(c)
      /\ LCA(tgraph_nodes, Key(c), Other(c)) = Ancestor(c)
  BY <1>2, HeldEntry, KeyOther, Zenon DEF CacheInv, CacheTypeOK
<1>8. PICK d \in CallType :
         /\ call' = [call EXCEPT ![th] = d]
         /\ d.pc # "idle" => ProperCall(d) /\ d.pair = c.pair
         /\ d.pc \notin Reading \cup Writing
         /\ AnswersOK' /\ (~shared => Transparent')
  BY <1>1, NextUpdateCall, Zenon DEF progVars
<1> HIDE DEF f
<1>9. ~shared => f.lca_result = Parallel(f.curAddr, f.remAddr)
  BY <1>3, <1>5, <1>6, <1>7, Zenon
<1>10. ~shared => f.lca = LCA(tgraph_nodes, f.curAddr, f.remAddr)
  BY <1>3, <1>5, <1>7, Zenon
<1>11. d.pc \notin Reading /\ d.pc \notin Torn /\ d.pc # "remAddr" /\ d.pc # "lca"
  BY <1>8 DEF Writing, Torn
<1> QED
  BY <1>1, <1>2, <1>3, <1>8, <1>9, <1>10, <1>11, WritingStep

\* A new entry is complete when the table comes to hold it.
LEMMA CreateStep ==
    ASSUME CacheInv, NEW th \in Threads, Create(th)
    PROVE  CacheInv'
<1> DEFINE c == call[th]
           n == Len(entries) + 1
           f == [curAddr |-> Key(c), remAddr |-> Other(c),
                 lca_result |-> Verdict(c), lca |-> Ancestor(c)]
<1>1. /\ c.pc = "create" /\ NextUpdate(th, c) /\ UNCHANGED progVars
      /\ entries' = Append(entries, f)
      /\ lcaHashTable' = [lcaHashTable EXCEPT ![getHTIndex(Key(c))] = n]
  BY DEF Create
<1>2. UNCHANGED <<tgraph_nodes, at, begun, shared>>
  BY <1>1 DEF progVars
<1>3. c \in CallType /\ ProperCall(c)
  BY <1>1 DEF CacheInv, CacheTypeOK, CallsOK
<1>4. /\ Key(c) \in Nat /\ Other(c) \in Nat /\ Verdict(c) \in BOOLEAN /\ Ancestor(c) \in Nat
      /\ Parallel(Key(c), Other(c)) = Verdict(c)
      /\ LCA(tgraph_nodes, Key(c), Other(c)) = Ancestor(c)
  BY <1>3, KeyOther, Zenon DEF CacheInv, CacheTypeOK
<1>5. f \in EntryType
  BY <1>4, Zenon DEF EntryType
<1>6. PICK d \in CallType :
         /\ call' = [call EXCEPT ![th] = d]
         /\ d.pc # "idle" => ProperCall(d) /\ d.pair = c.pair
         /\ d.pc \notin Reading \cup Writing
         /\ AnswersOK' /\ (~shared => Transparent')
  BY <1>1, <1>2, NextUpdateCall, Zenon
<1>7. /\ CallsOK' /\ call'[th] = d
      /\ \A u \in Threads : u # th => call'[u] = call[u]
  BY <1>2, <1>6, CallMoves DEF CacheInv, CacheTypeOK
<1>8. f.curAddr = Key(c) /\ f.remAddr = Other(c) /\ f.lca_result = Verdict(c) /\ f.lca = Ancestor(c)
  BY Zenon
<1> HIDE DEF f
<1>9. /\ entries' \in Seq(EntryType) /\ Len(entries') = n /\ entries'[n] = f
      /\ n \in Nat /\ Len(entries) \in Nat
      /\ \A e \in 1..Len(entries) : entries'[e] = entries[e]
  BY <1>1, <1>5 DEF CacheInv, CacheTypeOK, TableOK
<1>10. TableOK'
  <2>1. getHTIndex(Key(c)) \in 0..(TableSize - 1)
    BY <1>4, HTElement DEF CacheInv, CacheTypeOK
  <2>2. /\ lcaHashTable' \in [0..(TableSize - 1) -> Nat]
        /\ \A i \in 0..(TableSize - 1) : lcaHashTable'[i] \in 0..n
    BY <1>1, <1>9, <2>1 DEF CacheInv, CacheTypeOK, TableOK
  <2> QED
    BY <1>9, <2>2 DEF TableOK
<1>11. CacheTypeOK'
  BY <1>2, <1>6, <1>7, <1>10 DEF CacheInv, CacheTypeOK, ProgOK, Steps
<1>12. EntriesOwned'
  <2> SUFFICES ASSUME NEW t \in Threads, call'[t].pc \in Reading \cup Writing
               PROVE  /\ call'[t].entry \in 1..Len(entries')
                      /\ entries'[call'[t].entry].curAddr = Key(call'[t])
    BY DEF EntriesOwned, Key
  <2>1. t # th
    BY <1>6, <1>7
  <2>2. /\ call'[t] = call[t] /\ call[t].entry \in 1..Len(entries)
        /\ entries[call[t].entry].curAddr = Key(call[t])
    BY <1>7, <2>1 DEF CacheInv, EntriesOwned
  <2> QED
    BY <1>9, <2>2
<1>13. ASSUME ~shared' PROVE CallsApart' /\ EntriesCoherent' /\ Progress'
  <2>1. ~shared /\ CallsApart /\ EntriesCoherent /\ Progress
    BY <1>2, <1>13 DEF CacheInv
  <2>2. CallsApart'
    <3>1. call[th].pc # "idle"
      BY <1>1
    <3> QED
      BY <1>6, <1>7, <2>1, <3>1 DEF CallsApart
  <2>3. EntriesCoherent'
    <3> SUFFICES ASSUME NEW e \in 1..n,
                        ~ \E t \in Threads : call'[t].pc \in Torn /\ call'[t].entry = e
                 PROVE  Coherent(e)'
      BY <1>9, Zenon DEF EntriesCoherent
    <3>1. CASE e = n
      <4>1. entries'[e] = f
        BY <1>9, <3>1
      <4>2. /\ f.lca_result = Parallel(f.curAddr, f.remAddr)
            /\ f.lca = LCA(tgraph_nodes, f.curAddr, f.remAddr)
        BY <1>4, <1>8, Zenon
      <4> QED
        BY <1>2, <4>1, <4>2, Zenon DEF Coherent, Parallel
    <3>2. CASE e # n
      <4>1. e \in 1..Len(entries)
        BY <1>9, <3>2
      <4>2. c.pc \notin Torn
        BY <1>1 DEF Torn
      <4>3. ~ \E t \in Threads : call[t].pc \in Torn /\ call[t].entry = e
        BY <1>7, <4>2
      <4>4. Coherent(e)
        BY <2>1, <4>1, <4>3, Zenon DEF EntriesCoherent
      <4>5. entries'[e] = entries[e]
        BY <1>9, <4>1
      <4> QED
        BY <1>2, <4>4, <4>5, Zenon DEF Coherent, Parallel
    <3> QED
      BY <3>1, <3>2
  <2>4. Progress'
    <3> SUFFICES ASSUME NEW t \in Threads
                 PROVE  /\ call'[t].pc \in {"read"} \cup Torn
                             => entries'[call'[t].entry].remAddr = Other(call'[t])
                        /\ call'[t].pc = "lca"
                             => entries'[call'[t].entry].lca_result = Verdict(call'[t])
      BY <1>2, Zenon DEF Progress, Verdict, Parallel, Other
    <3>1. \A p : p \in {"read"} \cup Torn \/ p = "lca" => p \in Reading \cup Writing
      BY DEF Reading, Writing, Torn
    <3>2. CASE t = th
      <4>1. call'[t].pc \notin Reading \cup Writing
        BY <1>6, <1>7, <3>2
      <4> QED
        BY <3>1, <4>1, Zenon
    <3>3. CASE t # th
      <4>1. call'[t] = call[t]
        BY <1>7, <3>3
      <4>2. call[t].pc \in Reading \cup Writing => entries'[call[t].entry] = entries[call[t].entry]
        BY <1>9 DEF CacheInv, EntriesOwned
      <4> QED
        BY <2>1, <3>1, <4>1, <4>2, Zenon DEF Progress
    <3> QED
      BY <3>2, <3>3
  <2> QED
    BY <2>2, <2>3, <2>4
<1> QED
  BY <1>2, <1>6, <1>11, <1>12, <1>13 DEF CacheInv

-----------------------------------------------------------------------------
\* An empty cache satisfies the invariant.
LEMMA InitCacheInv == Init => CacheInv
<1> SUFFICES ASSUME Init PROVE CacheInv
  OBVIOUS
<1>1. ProgOK
  BY DEF Init, ProgOK
<1>2. TableOK
  BY CacheAssumption DEF Init, TableOK
<1>3. \A t \in Threads : call[t] = NoCall /\ answer[t] = NoAnswer
  BY DEF Init
<1>4. CallsOK
  <2>1. call \in [Threads -> CallType]
    BY NoCallFacts DEF Init
  <2> QED
    BY <1>3, <2>1, NoCallFacts DEF CallsOK
<1>5. NoAnswer \in AnswerType /\ NoAnswer.what = "none"
  BY DEF NoAnswer, AnswerType
<1>6. AnswersOK
  BY <1>5 DEF Init, AnswersOK
<1>7. \A t \in Threads : call[t].pc \notin Reading \cup Writing \cup Torn
                         /\ call[t].pc = "idle"
  BY <1>3, NoCallFacts DEF Reading, Writing, Torn
<1>8. EntriesOwned
  BY <1>7 DEF EntriesOwned
<1>9. CallsApart
  BY <1>7 DEF CallsApart
<1>10. EntriesCoherent
  <2>1. 1..Len(entries) = {}
    BY DEF Init
  <2> QED
    BY <2>1 DEF EntriesCoherent
<1>11. Progress
  BY <1>7 DEF Progress, Reading
<1>12. Transparent
  BY <1>3, <1>5, Zenon DEF Transparent, Exact
<1> QED
  BY <1>1, <1>2, <1>4, <1>6, <1>8, <1>9, <1>10, <1>11, <1>12
     DEF CacheInv, CacheTypeOK

\* Every step of every thread keeps it.
LEMMA NextCacheInv == CacheInv /\ [Next]_vars => CacheInv'
<1> SUFFICES ASSUME CacheInv, [Next]_vars PROVE CacheInv'
  OBVIOUS
<1>1. CASE UNCHANGED vars
  <2>1. UNCHANGED <<tgraph_nodes, at, begun, shared, lcaHashTable, entries, call, answer, judged>>
    BY <1>1 DEF vars, progVars, tableVars
  <2>2. \A c : ProperCall(c)' <=> ProperCall(c)
    BY <2>1, Zenon DEF ProperCall, Steps
  <2>3. ProgOK' /\ TableOK' /\ CallsOK'
    BY <2>1, <2>2 DEF CacheInv, CacheTypeOK, ProgOK, TableOK, CallsOK, ProperCall, Steps
  <2>4. AnswersOK'
    BY <2>1 DEF CacheInv, CacheTypeOK, AnswersOK, Steps
  <2>5. EntriesOwned'
    BY <2>1 DEF CacheInv, EntriesOwned, Key
  <2>6. CallsApart <=> CallsApart'
    BY <2>1 DEF CallsApart
  <2>7. EntriesCoherent <=> EntriesCoherent'
    BY <2>1, Zenon DEF EntriesCoherent, Coherent, Parallel
  <2>8. Progress <=> Progress'
    BY <2>1, Zenon DEF Progress, Verdict, Parallel, Other
  <2>9. Transparent <=> Transparent'
    BY <2>1, Zenon DEF Transparent, Exact, Parallel
  <2> QED
    BY <2>1, <2>3, <2>4, <2>5, <2>6, <2>7, <2>8, <2>9, Zenon DEF CacheInv, CacheTypeOK
<1>2. CASE Next
  <2>1. PICK th \in Threads :
           \/ \E s \in Steps : Begin(th, s)
           \/ \E what \in {"parallel", "LCA"}, r, s \in begun : Ask(th, what, r, s)
           \/ Look(th) \/ Match(th) \/ Read(th)
           \/ Update(th) \/ Create(th) \/ SetRemAddr(th) \/ SetResult(th) \/ SetLca(th)
    BY <1>2, Zenon DEF Next
  <2>2. CASE \E s \in Steps : Begin(th, s)
    BY <2>2, BeginStep
  <2>3. CASE \E what \in {"parallel", "LCA"}, r, s \in begun : Ask(th, what, r, s)
    BY <2>3, AskStep
  <2>4. CASE Look(th)
    BY <2>4, LookStep
  <2>5. CASE Match(th)
    BY <2>5, MatchStep
  <2>6. CASE Read(th)
    BY <2>6, ReadStep
  <2>7. CASE Update(th)
    BY <2>7, UpdateStep
  <2>8. CASE Create(th)
    BY <2>8, CreateStep
  <2>9. CASE SetRemAddr(th)
    BY <2>9, SetRemAddrStep
  <2>10. CASE SetResult(th)
    BY <2>10, SetResultStep
  <2>11. CASE SetLca(th)
    BY <2>11, SetLcaStep
  <2> QED
    BY <2>1, <2>2, <2>3, <2>4, <2>5, <2>6, <2>7, <2>8, <2>9, <2>10, <2>11, Zenon
<1> QED
  BY <1>1, <1>2

\* While no two queries with a common step overlap, every answer of checkParallel and
\* getLCA is what the walks of the DPST would have computed, whatever collides in the
\* table and however the reads and the three stores of updateEntry interleave.
THEOREM CacheTransparent == Spec => []TransparentApart
<1>1. Init => CacheInv
  BY InitCacheInv
<1>2. CacheInv /\ [Next]_vars => CacheInv'
  BY NextCacheInv
<1>3. CacheInv => TransparentApart
  BY DEF CacheInv, TransparentApart
<1> QED
  BY <1>1, <1>2, <1>3, PTL DEF Spec
=============================================================================
