----------------------------- MODULE ThreadIds -----------------------------
(***************************************************************************)
(* get_cur_tid of exec_calls.cpp: the index under which the runtime keeps  *)
(* everything it knows of a thread.  tid_map_lock covers the look-up and   *)
(* the insertion of a new thread, not the at() of a known one.             *)
(***************************************************************************)
EXTENDS Integers, FiniteSets

CONSTANTS Pthreads, MainThread

ASSUME ThreadAssumption == MainThread \in Pthreads

VARIABLES
    tid_map,        \* pthread -> index
    tid_ctr,        \* the next index
    tid_map_lock,   \* who holds it: at most one, inserting
    tid_pc,         \* per pthread, where it is in get_cur_tid
    my_tid          \* per pthread, the index of its last call

tidVars == <<tid_map, tid_ctr, tid_map_lock, tid_pc, my_tid>>

-----------------------------------------------------------------------------
TidInit ==
    /\ tid_map = <<>>
    /\ tid_ctr = 0
    /\ tid_map_lock = {}
    /\ tid_pc = [p \in Pthreads |-> "out"]
    /\ my_tid = [p \in Pthreads |-> 0]

Goto(p, l) == tid_pc' = [tid_pc EXCEPT ![p] = l]

\* The call.  The program reaches the runtime first in a spawn of the main thread;
\* the other threads begin with a task that was spawned.
CallTid(p) ==
    /\ p # MainThread => MainThread \in DOMAIN tid_map
    /\ Goto(p, "count")
    /\ UNCHANGED <<tid_map, tid_ctr, tid_map_lock, my_tid>>

\* tid_map.count(pthd_id): a known thread unlocks at once.
Count(p) ==
    /\ tid_pc[p] = "count"
    /\ tid_map_lock = {}
    /\ IF p \in DOMAIN tid_map
       THEN /\ Goto(p, "at")
            /\ UNCHANGED <<tid_ctr, tid_map_lock, my_tid>>
       ELSE /\ Goto(p, "insert")
            /\ tid_map_lock' = {p}
            /\ my_tid' = [my_tid EXCEPT ![p] = tid_ctr]
            /\ tid_ctr' = tid_ctr + 1
    /\ UNCHANGED tid_map

\* Mutants of Insert: the lock is kept; the index is read again from the counter.
InsertKeepsLock(p) ==
    /\ tid_pc[p] = "insert"
    /\ tid_map' = [k \in DOMAIN tid_map \cup {p} |->
                      IF k = p THEN my_tid[p] ELSE tid_map[k]]
    /\ Goto(p, "got")
    /\ UNCHANGED <<tid_ctr, tid_map_lock, my_tid>>
InsertRereads(p) ==
    /\ tid_pc[p] = "insert"
    /\ tid_map' = [k \in DOMAIN tid_map \cup {p} |-> IF k = p THEN tid_ctr ELSE tid_map[k]]
    /\ tid_map_lock' = {}
    /\ Goto(p, "got")
    /\ UNCHANGED <<tid_ctr, my_tid>>

\* The insertion is over, tid_map_lock is released.
Insert(p) ==
    /\ tid_pc[p] = "insert"
    /\ tid_map' = [k \in DOMAIN tid_map \cup {p} |->
                      IF k = p THEN my_tid[p] ELSE tid_map[k]]
    /\ tid_map_lock' = {}
    /\ Goto(p, "got")
    /\ UNCHANGED <<tid_ctr, my_tid>>

\* tid_map.at(pthd_id), unlocked: while the tree of the map is rebalanced it may miss
\* the key, and throws.
At(p) ==
    /\ tid_pc[p] = "at"
    /\ \/ /\ my_tid' = [my_tid EXCEPT ![p] = tid_map[p]]
          /\ Goto(p, "got")
       \/ /\ tid_map_lock # {}
          /\ Goto(p, "thrown")
          /\ UNCHANGED my_tid
    /\ UNCHANGED <<tid_map, tid_ctr, tid_map_lock>>

-----------------------------------------------------------------------------
Got(p) == tid_pc[p] = "got"

\* Every thread that has an index has one of its own, from all its calls the same, with
\* no gap: the arrays of NUM_THREADS elements suffice for that many threads.  The main
\* thread has index 0, for which TD_Activate and init_common prepared the stacks.
OwnIndex ==
    /\ \A p, q \in {t \in Pthreads : Got(t)} : p # q => my_tid[p] # my_tid[q]
    /\ \A p \in {t \in Pthreads : Got(t)} : p \in DOMAIN tid_map /\ my_tid[p] = tid_map[p]
    /\ tid_map_lock = {} => {tid_map[p] : p \in DOMAIN tid_map} = 0..tid_ctr - 1
    /\ MainThread \in DOMAIN tid_map => tid_map[MainThread] = 0
=============================================================================
