---------------------------- MODULE ShadowSpace ----------------------------
(***************************************************************************)
(* The concurrent path of an access through DR_Detector.cpp: the index of  *)
(* the thread, exceptions(), the two-level shadow table, the lock of the   *)
(* address, the comparison, the entry in all_violations.  Every read and   *)
(* write of memory that threads share without a lock is an action.         *)
(*                                                                         *)
(* The history of an address is all accesses recorded in its cell, which   *)
(* is what AccessHistory is shown to be worth.  A thread runs one task, in *)
(* parallel with those of the other threads, without locks.                *)
(***************************************************************************)
EXTENDS ThreadIds

CONSTANTS
    Addrs,            \* addresses the program accesses
    AccessTypes,      \* of READ and WRITE
    PrimaryEntries,   \* SS_PRIMARY_TABLE_ENTRIES
    SecEntries,       \* SS_SEC_TABLE_ENTRIES
    MaxCalls          \* bound on the accesses of a thread

ASSUME ShadowAssumption ==
    /\ Addrs \subseteq Nat
    /\ AccessTypes \subseteq {"READ", "WRITE"}
    /\ PrimaryEntries \in Nat \ {0} /\ SecEntries \in Nat \ {0}
    /\ MaxCalls \in Nat

VARIABLES
    shadow_space,     \* primary index -> table; 0 is NULL
    mapped,           \* secondary tables mapped so far
    locked,           \* cells <<table, offset>> whose addr_lock is held
    all_violations,   \* addresses with a violation
    pc,               \* per thread, where it is in RecordMem
    call,             \* its arguments
    primary_entry,    \* its local variable: a table
    snapshot,         \* all_violations when its insert() began
    calls,            \* how many calls it has made
    recorded,         \* the accesses in the shadow tables
    raced,            \* the accesses that were reported instead
    torn,             \* ground truth: indices whose first touches overlapped
    overlapped        \* ground truth: two insert() of all_violations overlapped

memVars == <<shadow_space, mapped, locked, all_violations>>
localVars == <<pc, call, primary_entry, snapshot, calls>>
truthVars == <<recorded, raced, torn, overlapped>>
vars == <<tidVars, memVars, localVars, truthVars>>

Calls == [addr : Addrs, type : AccessTypes]

\* The arguments of a thread that is in no call.
NoCall == CHOOSE c \in Calls : TRUE

-----------------------------------------------------------------------------
\* (addr >> 22) & 0x3ff and addr & 0x3fffff: 32 bits of the address.
primary_index(a) == (a \div SecEntries) % PrimaryEntries
offset(a) == a % SecEntries

SameCell(a, b) == primary_index(a) = primary_index(b) /\ offset(a) = offset(b)

Cell(p) == <<primary_entry[p], offset(call[p].addr)>>

Access(p) == [thread |-> p, addr |-> call[p].addr, type |-> call[p].type,
              table |-> primary_entry[p]]

Conflict(x, y) == x.thread # y.thread /\ "WRITE" \in {x.type, y.type}

\* Mutant of History: the offset alone selects the cell.
HistoryByOffset(p) == {x \in recorded : offset(x.addr) = offset(call[p].addr)}

\* The accesses recorded in the cell of the call.
History(p) ==
    {x \in recorded : <<x.table, offset(x.addr)>> = Cell(p)}

Inserting(p) == pc[p] = "insert"

-----------------------------------------------------------------------------
Init ==
    /\ TidInit
    /\ shadow_space = [i \in 0..PrimaryEntries - 1 |-> 0]
    /\ mapped = 0
    /\ locked = {}
    /\ all_violations = {}
    /\ pc = [p \in Pthreads |-> "idle"]
    /\ call = [p \in Pthreads |-> NoCall]
    /\ primary_entry = [p \in Pthreads |-> 0]
    /\ snapshot = [p \in Pthreads |-> {}]
    /\ calls = [p \in Pthreads |-> 0]
    /\ recorded = {} /\ raced = {} /\ torn = {} /\ overlapped = FALSE

PcGoto(p, l) == pc' = [pc EXCEPT ![p] = l]

\* The locals of a call are dead when it returns.
Return(p) ==
    /\ PcGoto(p, "idle")
    /\ call' = [call EXCEPT ![p] = NoCall]
    /\ primary_entry' = [primary_entry EXCEPT ![p] = 0]
    /\ snapshot' = [snapshot EXCEPT ![p] = {}]

\* RecordMem(get_cur_tid(), addr, accessType), put before the access by the LLVM pass.
RecordMem(p, c) ==
    /\ pc[p] = "idle"
    /\ calls[p] < MaxCalls
    /\ CallTid(p)
    /\ PcGoto(p, "exceptions")
    /\ call' = [call EXCEPT ![p] = c]
    /\ calls' = [calls EXCEPT ![p] = @ + 1]
    /\ UNCHANGED <<memVars, primary_entry, snapshot, truthVars>>

GetCurTid(p) ==
    /\ Count(p) \/ Insert(p) \/ At(p)
    /\ UNCHANGED <<memVars, localVars, truthVars>>

\* exceptions(): all_violations.count(addr), unlocked.  During an insertion the key may
\* be missed.
Exceptions(p) ==
    /\ pc[p] = "exceptions"
    /\ Got(p)
    /\ \/ /\ call[p].addr \in all_violations
          /\ Return(p)
       \/ /\ \/ call[p].addr \notin all_violations
             \/ \E q \in Pthreads : Inserting(q)
          /\ PcGoto(p, "table")
          /\ UNCHANGED <<call, primary_entry, snapshot>>
    /\ Goto(p, "out")
    /\ UNCHANGED <<tid_map, tid_ctr, tid_map_lock, my_tid, memVars, calls, truthVars>>

\* Mutant of ReadTable: every call maps a table.
ReadTableMaps(p) ==
    /\ pc[p] = "table"
    /\ mapped' = mapped + 1
    /\ primary_entry' = [primary_entry EXCEPT ![p] = mapped + 1]
    /\ PcGoto(p, "store")
    /\ UNCHANGED <<tidVars, shadow_space, locked, all_violations, call, snapshot, calls,
                   truthVars>>

\* primary_entry = shadow_space[primary_index], and the mmap() if it is NULL.
ReadTable(p) ==
    LET i == primary_index(call[p].addr) IN
    /\ pc[p] = "table"
    /\ IF shadow_space[i] # 0
       THEN /\ primary_entry' = [primary_entry EXCEPT ![p] = shadow_space[i]]
            /\ PcGoto(p, "lock")
            /\ UNCHANGED <<mapped, torn>>
       ELSE /\ mapped' = mapped + 1
            /\ primary_entry' = [primary_entry EXCEPT ![p] = mapped + 1]
            /\ PcGoto(p, "store")
            /\ torn' = torn \cup
                 {i : q \in {t \in Pthreads : pc[t] = "store"
                                              /\ primary_index(call[t].addr) = i}}
    /\ UNCHANGED <<tidVars, shadow_space, locked, all_violations, call, snapshot, calls,
                   recorded, raced, overlapped>>

\* shadow_space[primary_index] = primary_entry.
StoreTable(p) ==
    /\ pc[p] = "store"
    /\ shadow_space' = [shadow_space EXCEPT
          ![primary_index(call[p].addr)] = primary_entry[p]]
    /\ PcGoto(p, "lock")
    /\ UNCHANGED <<tidVars, mapped, locked, all_violations, call, primary_entry, snapshot,
                   calls, truthVars>>

\* PIN_GetLock(&addr_lock), the comparison with the history, and the update of the
\* history or the start of an insertion into all_violations.  Without a race the lock
\* is released in the same step: nobody else looks at the cell meanwhile.
Compare(p) ==
    /\ pc[p] = "lock"
    /\ Cell(p) \notin locked
    /\ IF \E x \in History(p) : Conflict(x, Access(p))
       THEN /\ raced' = raced \cup {Access(p)}
            /\ locked' = locked \cup {Cell(p)}
            /\ snapshot' = [snapshot EXCEPT ![p] = all_violations]
            /\ overlapped' = (overlapped \/ \E q \in Pthreads : Inserting(q))
            /\ PcGoto(p, "insert")
            /\ UNCHANGED <<recorded, call, primary_entry>>
       ELSE /\ recorded' = recorded \cup {Access(p)}
            /\ Return(p)
            /\ UNCHANGED <<raced, locked, overlapped>>
    /\ UNCHANGED <<tidVars, shadow_space, mapped, all_violations, calls, torn>>

\* Mutant of InsertViolation: the lock of the address is kept.
InsertViolationKeepsLock(p) ==
    /\ Inserting(p)
    /\ \E before \in {all_violations, snapshot[p]} :
          all_violations' = before \cup {call[p].addr}
    /\ Return(p)
    /\ UNCHANGED <<tidVars, shadow_space, mapped, locked, calls, truthVars>>

\* The end of all_violations.insert(), which is under the lock of this address only:
\* of two insertions at a time one may be lost.  Then addr_lock is released.
InsertViolation(p) ==
    /\ Inserting(p)
    /\ \E before \in {all_violations, snapshot[p]} :
          all_violations' = before \cup {call[p].addr}
    /\ locked' = locked \ {Cell(p)}
    /\ Return(p)
    /\ UNCHANGED <<tidVars, shadow_space, mapped, calls, truthVars>>

Step(p) ==
    \/ \E c \in Calls : RecordMem(p, c)
    \/ GetCurTid(p)
    \/ Exceptions(p)
    \/ ReadTable(p)
    \/ StoreTable(p)
    \/ Compare(p)
    \/ InsertViolation(p)

Next == \E p \in Pthreads : Step(p)

\* The scheduler lets every thread run on, and a mutex that is free again and again is
\* granted: a thread makes finitely many calls.
Spec == Init /\ [][Next]_vars /\ \A p \in Pthreads : WF_vars(Step(p))

-----------------------------------------------------------------------------
Performed == recorded \cup raced

\* The tables in use are distinct mapped ones, and who is to publish or use a table
\* has one.
TypeOK ==
    /\ shadow_space \in [0..PrimaryEntries - 1 -> 0..mapped]
    /\ all_violations \subseteq Addrs
    /\ \A i, j \in DOMAIN shadow_space :
          i # j /\ shadow_space[i] # 0 => shadow_space[i] # shadow_space[j]
    /\ \A p \in Pthreads :
          pc[p] \in {"store", "lock", "insert"} => primary_entry[p] \in 1..mapped
    /\ locked = {Cell(p) : p \in {q \in Pthreads : Inserting(q)}}

\* A race on an address is reported, or is being reported, unless the first touches of
\* its 4 MB region overlapped or two insertions of violations did: no other
\* interleaving of calls loses one.
MissedOnlyByOverlap ==
    \A x, y \in Performed :
       x.addr = y.addr /\ Conflict(x, y) =>
          \/ x.addr \in all_violations
          \/ \E p \in Pthreads : Inserting(p) /\ call[p].addr = x.addr
          \/ primary_index(x.addr) \in torn
          \/ overlapped

\* A reported address was accessed in two ways that conflict, the other time possibly
\* through an address with the same 32 low bits.
ReportsConflicts ==
    \A a \in all_violations :
       \E x, y \in Performed :
          x.addr = a /\ SameCell(a, y.addr) /\ Conflict(x, y)

\* Every call returns, whatever locks others hold, unless at() threw.
CallsReturn ==
    \A p \in Pthreads : pc[p] # "idle" ~> pc[p] = "idle" \/ tid_pc[p] = "thrown"
=============================================================================
