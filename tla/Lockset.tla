------------------------------ MODULE Lockset ------------------------------
(***************************************************************************)
(* The locksets of Lockset_data.cpp and DR_Detector.cpp: what RecordMem    *)
(* and RecordAccess take for the set of locks held at an access.           *)
(*                                                                         *)
(* A size_t mask is the set of its zero bits: `lockset & lockId' is a      *)
(* union, `lockset | ~lockId' a difference, and two masks protect an       *)
(* access together when their sets meet.  lock_ticker is the number of     *)
(* locks in lockid_map.                                                    *)
(*                                                                         *)
(* Programs call CaptureLockAcquire before they ask for a lock and         *)
(* CaptureLockRelease before they give it back, as those of test_suite do. *)
(* Releases may come in any order.  Locks (tbb::mutex) and the nesting of  *)
(* tasks on a thread are external; a frame is a task on its thread.        *)
(***************************************************************************)
EXTENDS Integers, SequencesExt

CONSTANTS
    Threads, MainThread,
    Locks,
    Width,          \* bits of a size_t
    MaxTasks,       \* bound on the nesting of tasks on a thread
    MaxAccesses,    \* bound on the accesses recorded
    Regions         \* what a branch does before an access: sequences of [op, lock]

ASSUME LocksetAssumption ==
    /\ MainThread \in Threads
    /\ Width \in Nat \ {0}
    /\ MaxTasks \in Nat /\ MaxAccesses \in Nat
    /\ Regions \subseteq Seq([op : {"acquire", "release"}, lock : Locks])

VARIABLES
    lockid_map,     \* lock -> the zero bit of its mask
    thd_lockset,    \* per thread, a stack of [lockset, locks]
    frames,         \* external: per thread, the stack of its tasks
    accesses        \* the accesses recorded, with the locks really held

vars == <<lockid_map, thd_lockset, frames, accesses>>

-----------------------------------------------------------------------------
Top(s) == s[Len(s)]
Pop(s) == SubSeq(s, 1, Len(s) - 1)

\* A task: pc is "run", or "waiting" for tasks; held are its locks in the order it took
\* them; ordered is FALSE from a release of another than the last one until nothing is
\* held.
NewTask == [pc |-> "run", held |-> <<>>, ordered |-> TRUE]

Running(th) == frames[th] # <<>> /\ Top(frames[th]).pc = "run"

HeldBySomeone ==
    UNION {Range(f.held) : f \in UNION {Range(frames[th]) : th \in Threads}}

\* Lockset_data::Lockset_data()
NewLockset == [lockset |-> {}, locks |-> <<>>]

\* Mutant of getLockId: the ticker does not advance.
getLockIdStuck(m, l) ==
    IF l \in DOMAIN m THEN m
    ELSE [k \in DOMAIN m \cup {l} |-> IF k = l THEN 0 ELSE m[k]]

\* The map after getLockId(l).  The shift by lock_ticker is one by its value modulo
\* the width on the machines the code is built for.
getLockId(m, l) ==
    IF l \in DOMAIN m THEN m
    ELSE [k \in DOMAIN m \cup {l} |->
             IF k = l THEN Cardinality(DOMAIN m) % Width ELSE m[k]]

\* addLockToLockset(l) with id the bit of l.
addLockToLockset(d, id) ==
    [lockset |-> d.lockset \cup {id}, locks |-> Append(d.locks, id)]

\* Mutant of removeLockFromLockset: a queue for the stack.
removeLockFromLocksetFirst(d) ==
    [lockset |-> d.lockset \ {d.locks[1]}, locks |-> Tail(d.locks)]

\* removeLockFromLockset(): the last lock taken, whichever is being released.
removeLockFromLockset(d) ==
    [lockset |-> d.lockset \ {Top(d.locks)}, locks |-> Pop(d.locks)]

-----------------------------------------------------------------------------
\* A region is what a branch does between its start and one of its accesses.
Locked(r)   == {r[i].lock : i \in {j \in DOMAIN r : r[j].op = "acquire"}}
Unlocked(r) == {r[i].lock : i \in {j \in DOMAIN r : r[j].op = "release"}}

\* The locks held after the region, entered with the locks h: those that were taken
\* back after every release.
HeldAfter(h, r) ==
    {l \in h \cup Locked(r) :
       \A i \in DOMAIN r : r[i].op = "release" /\ r[i].lock = l =>
          \E j \in DOMAIN r : j > i /\ r[j].op = "acquire" /\ r[j].lock = l}

\* A program can run the region: it takes no lock twice and returns only its own.
MayRun(h, r) ==
    \A i \in DOMAIN r :
       r[i].op = "acquire" <=> r[i].lock \notin HeldAfter(h, SubSeq(r, 1, i - 1))

\* No lock is released and taken again.
TakesBackNone(r) ==
    \A i, j \in DOMAIN r :
       i < j /\ r[i].op = "release" /\ r[j].op = "acquire" => r[i].lock # r[j].lock

\* getLockId for the locks of one array: those of locks_acq or of locks_rel, in order.
ArrayIds(m, r, op) ==
    LET ids[i \in 0..Len(r)] ==
          IF i = 0 THEN m
          ELSE IF r[i].op = op THEN getLockId(ids[i - 1], r[i].lock)
          ELSE ids[i - 1]
    IN  ids[Len(r)]

RegionIds(m, r) == ArrayIds(ArrayIds(m, r, "acquire"), r, "release")

\* Mutant of RegionLockset: the acquires come last.
RegionLocksetReleasesFirst(ls, ids, r) ==
    (ls \ {ids[l] : l \in Unlocked(r)}) \cup {ids[l] : l \in Locked(r)}

\* addFunctionSummaries() collects the acquires and the releases of the branch up to
\* the access; RecordAccess applies all of the first, then all of the second.
RegionLockset(ls, ids, r) ==
    (ls \cup {ids[l] : l \in Locked(r)}) \ {ids[l] : l \in Unlocked(r)}

-----------------------------------------------------------------------------
Init ==
    /\ lockid_map = <<>>
    /\ thd_lockset = [t \in Threads |-> IF t = MainThread THEN <<NewLockset>> ELSE <<>>]
    /\ frames = [t \in Threads |-> IF t = MainThread THEN <<NewTask>> ELSE <<>>]
    /\ accesses = {}

SetFrame(th, f)   == frames' = [frames EXCEPT ![th] = Append(Pop(@), f)]
SetLockset(th, d) == thd_lockset' = [thd_lockset EXCEPT ![th] = Append(Pop(@), d)]

\* CaptureExecute(threadid): a free thread, or one whose task waits, begins a task.
CaptureExecute(th) ==
    /\ Len(frames[th]) < MaxTasks
    /\ frames[th] # <<>> => Top(frames[th]).pc = "waiting"
    /\ thd_lockset' = [thd_lockset EXCEPT ![th] = Append(@, NewLockset)]
    /\ frames' = [frames EXCEPT ![th] = Append(@, NewTask)]
    /\ UNCHANGED <<lockid_map, accesses>>

\* Mutant of CaptureReturn: the lockset stays on the stack.
CaptureReturnKeeps(th) ==
    /\ Running(th)
    /\ Top(frames[th]).held = <<>>
    /\ th = MainThread => Len(frames[th]) > 1
    /\ frames' = [frames EXCEPT ![th] = Pop(@)]
    /\ UNCHANGED <<lockid_map, thd_lockset, accesses>>

\* CaptureReturn(threadid), by a task that gave back its locks.  The program outside
\* any task (the first frame of the main thread) does not return.
CaptureReturn(th) ==
    /\ Running(th)
    /\ Top(frames[th]).held = <<>>
    /\ th = MainThread => Len(frames[th]) > 1
    /\ thd_lockset' = [thd_lockset EXCEPT ![th] = Pop(@)]
    /\ frames' = [frames EXCEPT ![th] = Pop(@)]
    /\ UNCHANGED <<lockid_map, accesses>>

\* The task waits for others, possibly with locks held, and resumes when the tasks its
\* thread took up meanwhile are over.
Wait(th) ==
    /\ Running(th)
    /\ SetFrame(th, [Top(frames[th]) EXCEPT !.pc = "waiting"])
    /\ UNCHANGED <<lockid_map, thd_lockset, accesses>>

Resume(th) ==
    /\ frames[th] # <<>>
    /\ Top(frames[th]).pc = "waiting"
    /\ SetFrame(th, [Top(frames[th]) EXCEPT !.pc = "run"])
    /\ UNCHANGED <<lockid_map, thd_lockset, accesses>>

\* CaptureLockAcquire(threadid, lock_addr), then the lock is granted.  What happens
\* between the two concerns other tasks only.
CaptureLockAcquire(th, l) ==
    LET f == Top(frames[th]) IN
    /\ Running(th)
    /\ l \notin HeldBySomeone
    /\ lockid_map' = getLockId(lockid_map, l)
    /\ SetLockset(th, addLockToLockset(Top(thd_lockset[th]), lockid_map'[l]))
    /\ SetFrame(th, [f EXCEPT !.held = Append(@, l)])
    /\ UNCHANGED accesses

\* CaptureLockRelease(threadid, lock_addr), which does not look at the address, then
\* the lock is given back.
CaptureLockRelease(th, l) ==
    LET f == Top(frames[th])
        left == RemoveAt(f.held, CHOOSE i \in DOMAIN f.held : f.held[i] = l)
    IN  /\ Running(th)
        /\ l \in Range(f.held)
        /\ SetLockset(th, removeLockFromLockset(Top(thd_lockset[th])))
        /\ SetFrame(th, [f EXCEPT !.held = left,
              !.ordered = left = <<>> \/ (@ /\ l = Top(f.held))])
        /\ UNCHANGED <<lockid_map, accesses>>

\* An access after region r of a branch that is not taken: the locks the program would
\* hold and the lockset RecordAccess attributes to it.
AccessOf(th, r) ==
    LET f == Top(frames[th]) IN
    [held |-> HeldAfter(Range(f.held), r),
     lockset |-> RegionLockset(Top(thd_lockset[th]).lockset, RegionIds(lockid_map, r), r),
     ordered |-> f.ordered, exact |-> f.ordered /\ TakesBackNone(r)]

\* RecordAccess(threadid, addr, locks_acq, ..., locks_rel, ...), the part before the
\* history.  RecordMem is the same without arrays: the empty region.
RecordAccess(th, r) ==
    /\ Running(th)
    /\ Cardinality(accesses) < MaxAccesses
    /\ MayRun(Range(Top(frames[th]).held), r)
    /\ lockid_map' = RegionIds(lockid_map, r)
    /\ accesses' = accesses \cup {AccessOf(th, r)}
    /\ UNCHANGED <<thd_lockset, frames>>

Next ==
    \E th \in Threads :
       \/ CaptureExecute(th)
       \/ CaptureReturn(th)
       \/ Wait(th)
       \/ Resume(th)
       \/ \E l \in Locks : CaptureLockAcquire(th, l)
       \/ \E l \in Locks : CaptureLockRelease(th, l)
       \/ \E r \in Regions : RecordAccess(th, r)

Spec == Init /\ [][Next]_vars

-----------------------------------------------------------------------------
Bits == 0..Width - 1

TypeOK ==
    /\ DOMAIN lockid_map \subseteq Locks
    /\ lockid_map \in [DOMAIN lockid_map -> Bits]
    /\ thd_lockset \in [Threads -> Seq([lockset : SUBSET Bits, locks : Seq(Bits)])]
    /\ \A th \in Threads : Len(frames[th]) = Len(thd_lockset[th])
    /\ \A a \in accesses : a.held \subseteq Locks /\ a.lockset \subseteq Bits

\* The program has used no more locks than a mask has bits.
LocksFit == Cardinality(DOMAIN lockid_map) <= Width

\* The accesses recorded, and those the running tasks would record now.
KnownAccesses ==
    accesses \cup {AccessOf(th, <<>>) : th \in {t \in Threads : Running(t)}}

Protected(a, b)     == a.held \cap b.held # {}
TakenForSafe(a, b)  == a.lockset \cap b.lockset # {}

\* Whether two accesses are protected by a common lock can be read off their masks,
\* whichever tasks, threads and times they belong to, as long as the tasks release
\* their last lock first and the branches they summarise take back no lock.
MasksTellLocks ==
    LocksFit =>
       \A a, b \in KnownAccesses :
          a.exact /\ b.exact => (TakenForSafe(a, b) <=> Protected(a, b))

\* A summary of a branch never hides a race: what RecordAccess takes for protected is.
\* (A lock given back and taken again makes it report a race where there is none.)
NoRaceHidden ==
    LocksFit =>
       \A a, b \in KnownAccesses :
          a.ordered /\ b.ordered /\ TakenForSafe(a, b) => Protected(a, b)

\* However many locks there are, every bit of an access's mask stands for a lock that the
\* access is under, in a branch or not, unless its task gave back another lock than the
\* last one; and then again once it has held none.  Even in between no task has more bits
\* than locks: a mask of 0 (all bits), by which f_entries tells an unused entry, needs as
\* many locks as a mask has bits.
NoLockInvented ==
    /\ \A a \in KnownAccesses :
          a.ordered => a.lockset \subseteq {lockid_map[l] : l \in a.held}
    /\ \A th \in Threads : \A i \in DOMAIN frames[th] :
          Cardinality(thd_lockset[th][i].lockset) <= Len(frames[th][i].held)
=============================================================================
