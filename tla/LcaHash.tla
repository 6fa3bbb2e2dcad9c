------------------------------ MODULE LcaHash ------------------------------
(***************************************************************************)
(* The cache of LCA() and parallel(), tdebug-lib/src/lca_hash.cpp: a table *)
(* of pointers to entries, filled by parallel() and read by both, without  *)
(* any lock.  One action is one read or write of shared memory, in program *)
(* order; an entry, once made, keeps its curAddr and is never freed.       *)
(*                                                                         *)
(* The DPST is finished: queries never depend on what is added to it       *)
(* (AFTaskGraph, TreeGrows).  A step runs when no step it precedes has     *)
(* begun and every step that still runs is parallel to it.                 *)
(***************************************************************************)
EXTENDS Dpst, FiniteSets

CONSTANTS
    Trees,          \* the DPSTs of the programs considered
    Threads,
    TableSize,      \* LCA_TABLE_SIZE
    MaxCalls        \* bound on the queries of a behaviour

ASSUME CacheAssumption ==
    /\ TableSize \in Nat \ {0}
    /\ MaxCalls \in Nat
    /\ \A g \in Trees : WellFormed(g)

VARIABLES
    tgraph_nodes,   \* the DPST, one of Trees
    at,             \* per thread, its current step; 0 is none
    begun,          \* the steps that have begun
    lcaHashTable,   \* per slot, an index into `entries', or 0 (NULL)
    entries,        \* the lca_hash objects allocated so far
    call,           \* per thread, the query it is in
    answer,         \* per thread, the answer of its last query
    judged,         \* the pairs of steps some query has found parallel
    calls,          \* number of queries started
    shared          \* whether queries with a common step were ever in progress at once

progVars == <<tgraph_nodes, at, begun, calls, shared>>
tableVars == <<lcaHashTable, entries>>
vars == <<progVars, tableVars, call, answer, judged>>

-----------------------------------------------------------------------------
Steps == StepsOf(tgraph_nodes)

Parallel(a, b) == parallel(tgraph_nodes, a, b)
SameTask(a, b) == tgraph_nodes[a].taskId = tgraph_nodes[b].taskId

\* A query in progress: `what' is the caller, pair is <<cur_addr, rem_addr>>, side
\* the one whose entry is looked at (getHTElement of pair[side]).
Call(what, pair) == [pc |-> "look", what |-> what, pair |-> pair, side |-> 1, entry |-> 0]
NoCall == [pc |-> "idle", what |-> "none", pair |-> <<0, 0>>, side |-> 1, entry |-> 0]
Key(c) == c.pair[c.side]
Other(c) == c.pair[3 - c.side]

getHTIndex(arg) == arg % TableSize

\* Mutant of getHTElement: an entry that hashes to the same slot is taken for it.
getHTElementAnyKey(arg) == lcaHashTable[getHTIndex(arg)]

getHTElement(arg) ==
    LET e == lcaHashTable[getHTIndex(arg)] IN
    IF e # 0 /\ entries[e].curAddr = arg THEN e ELSE 0

\* What the walks compute.
Verdict(c) == Parallel(c.pair[1], c.pair[2])
Ancestor(c) == LCA(tgraph_nodes, c.pair[1], c.pair[2])

Reply(th, c, verdict, lca) ==
    /\ answer' = [answer EXCEPT ![th] = [what |-> c.what, pair |-> c.pair,
                                         verdict |-> verdict, lca |-> lca]]
    /\ judged' = IF verdict THEN judged \cup {{c.pair[1], c.pair[2]}} ELSE judged
    /\ call' = [call EXCEPT ![th] = NoCall]

Goto(th, c, pc) ==
    /\ call' = [call EXCEPT ![th] = [c EXCEPT !.pc = pc]]
    /\ UNCHANGED <<answer, judged>>

NoAnswer == [what |-> "none", pair |-> <<0, 0>>, verdict |-> FALSE, lca |-> 0]

-----------------------------------------------------------------------------
Init ==
    /\ tgraph_nodes \in Trees
    /\ at = [t \in Threads |-> 0]
    /\ begun = {}
    /\ lcaHashTable = [i \in 0..(TableSize - 1) |-> 0]
    /\ entries = <<>>
    /\ call = [t \in Threads |-> NoCall]
    /\ answer = [t \in Threads |-> NoAnswer]
    /\ judged = {}
    /\ calls = 0
    /\ shared = FALSE

\* Thread th goes on in step s.
Begin(th, s) ==
    /\ call[th].pc = "idle"
    /\ s \in Steps \ begun
    /\ \A b \in begun : b < s \/ Parallel(b, s)
    /\ \A u \in Threads \ {th} : at[u] # 0 => Parallel(at[u], s)
    /\ at' = [at EXCEPT ![th] = s]
    /\ begun' = begun \cup {s}
    /\ answer' = [answer EXCEPT ![th] = NoAnswer]
    /\ UNCHANGED <<tgraph_nodes, tableVars, call, judged, calls, shared>>

\* The detector asks areParallel for its current step and a step of another task, and
\* LCA for two steps that areParallel has found parallel (UpdatePair).
Ask(th, what, r, s) ==
    /\ call[th].pc = "idle"
    /\ calls < MaxCalls
    /\ at[th] # 0
    /\ IF what = "parallel" THEN r = at[th] /\ ~SameTask(r, s) ELSE {r, s} \in judged
    /\ call' = [call EXCEPT ![th] = Call(what, <<r, s>>)]
    /\ calls' = calls + 1
    /\ shared' = (shared \/ \E u \in Threads, i, j \in {1, 2} : call[u].pair[i] = <<r, s>>[j])
    /\ answer' = [answer EXCEPT ![th] = NoAnswer]
    /\ UNCHANGED <<tgraph_nodes, at, begun, tableVars, judged>>

\* checkParallel and getLCA: the entry of cur_addr, then that of rem_addr, if it is
\* about the other step of the pair.
NotFound(th, c) ==
    IF c.side = 1 THEN Goto(th, [c EXCEPT !.side = 2], "look")
    ELSE IF c.what = "LCA" THEN Reply(th, c, FALSE, Ancestor(c))
    ELSE Goto(th, [c EXCEPT !.side = 1], "update")

Look(th) ==
    LET c == call[th]
        e == getHTElement(Key(c))
    IN  /\ c.pc = "look"
        /\ IF e = 0 THEN NotFound(th, c)
           ELSE Goto(th, [c EXCEPT !.entry = e], "match")
        /\ UNCHANGED <<progVars, tableVars>>

Match(th) ==
    LET c == call[th] IN
    /\ c.pc = "match"
    /\ IF entries[c.entry].remAddr = Other(c)
       THEN Goto(th, c, "read")
       ELSE NotFound(th, c)
    /\ UNCHANGED <<progVars, tableVars>>

Read(th) ==
    LET c == call[th]
        e == entries[c.entry]
    IN  /\ c.pc = "read"
        /\ Reply(th, c, c.what = "parallel" /\ e.lca_result,
                 IF c.what = "LCA" THEN e.lca ELSE 0)
        /\ UNCHANGED <<progVars, tableVars>>

\* updateEntry(pair[side], the other one, verdict, lca), for both sides in turn.
NextUpdate(th, c) ==
    IF c.side = 1 THEN Goto(th, [c EXCEPT !.side = 2], "update")
    ELSE Reply(th, c, Verdict(c), 0)

Update(th) ==
    LET c == call[th]
        e == getHTElement(Key(c))
    IN  /\ c.pc = "update"
        /\ Goto(th, [c EXCEPT !.entry = e], IF e = 0 THEN "create" ELSE "remAddr")
        /\ UNCHANGED <<progVars, tableVars>>

\* The new entry is complete before it is published.
Create(th) ==
    LET c == call[th] IN
    /\ c.pc = "create"
    /\ entries' = Append(entries, [curAddr |-> Key(c), remAddr |-> Other(c),
                                   lca_result |-> Verdict(c), lca |-> Ancestor(c)])
    /\ lcaHashTable' = [lcaHashTable EXCEPT ![getHTIndex(Key(c))] = Len(entries) + 1]
    /\ NextUpdate(th, c)
    /\ UNCHANGED progVars

SetRemAddr(th) ==
    LET c == call[th] IN
    /\ c.pc = "remAddr"
    /\ entries' = [entries EXCEPT ![c.entry].remAddr = Other(c)]
    /\ Goto(th, c, "lca_result")
    /\ UNCHANGED <<progVars, lcaHashTable>>

SetResult(th) ==
    LET c == call[th] IN
    /\ c.pc = "lca_result"
    /\ entries' = [entries EXCEPT ![c.entry].lca_result = Verdict(c)]
    /\ Goto(th, c, "lca")
    /\ UNCHANGED <<progVars, lcaHashTable>>

SetLca(th) ==
    LET c == call[th] IN
    /\ c.pc = "lca"
    /\ entries' = [entries EXCEPT ![c.entry].lca = Ancestor(c)]
    /\ NextUpdate(th, c)
    /\ UNCHANGED <<progVars, lcaHashTable>>

Next ==
    \E th \in Threads :
       \/ \E s \in Steps : Begin(th, s)
       \/ \E what \in {"parallel", "LCA"}, r, s \in begun : Ask(th, what, r, s)
       \/ Look(th) \/ Match(th) \/ Read(th)
       \/ Update(th) \/ Create(th) \/ SetRemAddr(th) \/ SetResult(th) \/ SetLca(th)

Spec == Init /\ [][Next]_vars

-----------------------------------------------------------------------------
Exact(a) ==
    \/ a.what = "none"
    \/ a.what = "parallel" /\ a.verdict = Parallel(a.pair[1], a.pair[2])
    \/ a.what = "LCA" /\ a.lca = LCA(tgraph_nodes, a.pair[1], a.pair[2])

\* The cache is transparent: every query answers as its walk would.
Transparent == \A th \in Threads : Exact(answer[th])

\* It is, as long as no two queries with a step in common have been in progress at the
\* same time: other queries may displace entries, and write to displaced ones, but an
\* entry is only ever written by the queries about its own step.
TransparentApart == ~shared => Transparent
=============================================================================
