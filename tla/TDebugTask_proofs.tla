------------------------- MODULE TDebugTask_proofs -------------------------
(***************************************************************************)
(* The task interface makes Capture* calls as GraphSpec allows, and every  *)
(* task a thread may begin is in temp_cur_map, for any number of threads   *)
(* and tasks and for programs of every style.                              *)
(*                                                                         *)
(* The map is exact because ids are drawn once: the calls in progress hold *)
(* different ids, none of them published.  SchedInv adds that to it.       *)
(*                                                                         *)
(* Programs in which every task waits for what it spawned find their own   *)
(* node on top and leave nothing on the stacks.  DInv says why: a task     *)
(* that is started holds its node and, with tasks to join, one phase       *)
(* below it; the tree tells the two apart; and the frames of a thread are  *)
(* laid out on its stack of nodes in the order in which they began.        *)
(*                                                                         *)
(* In these programs areParallel answers exactly.  OrderInv says how the   *)
(* tasks that may go on lie in the tree, and that each grows it right of   *)
(* whatever it does not run beside; TruthInv that the past of a task is    *)
(* what the tree calls serial to its last step; StrandInv that strands run *)
(* in an order the tree allows, old steps after nested roots included.     *)
(***************************************************************************)
EXTENDS TDebugTask, AFTaskGraph_proofs

\* A frame inside a call: its child is named but not yet published.
InCall(f) == f.pc \in {"named", "captured"}

\* The ids held by calls in progress have been drawn and are not published; two
\* calls never hold the same id.
CallsHoldIds ==
    /\ ready \subseteq 1..task_id_ctr
    /\ \A th \in Threads : \A i \in 1..Len(frames[th]) :
          InCall(frames[th][i]) =>
             /\ frames[th][i].child \in 1..task_id_ctr
             /\ frames[th][i].child \notin ready
    /\ \A th, u \in Threads : \A i \in 1..Len(frames[th]), j \in 1..Len(frames[u]) :
          /\ InCall(frames[th][i]) /\ InCall(frames[u][j])
          /\ frames[th][i].child = frames[u][j].child
          => th = u /\ i = j

SchedInv == SchedTypeOK /\ CallsHoldIds /\ MapMatchesScheduler

-----------------------------------------------------------------------------
\* Replacing the top frame of a thread.
LEMMA SetTopFrames ==
    ASSUME frames \in [Threads -> Seq(FrameType)], NEW th \in Threads,
           frames[th] # <<>>, NEW f \in FrameType, frames' = SetTop(th, f)
    PROVE  /\ frames' \in [Threads -> Seq(FrameType)]
           /\ Len(frames[th]) \in 1..Len(frames[th])
           /\ \A t \in Threads :
                 /\ Len(frames'[t]) = Len(frames[t])
                 /\ \A i \in 1..Len(frames[t]) :
                       /\ t = th /\ i = Len(frames[th]) => frames'[t][i] = f
                       /\ ~(t = th /\ i = Len(frames[th])) => frames'[t][i] = frames[t][i]
<1> DEFINE s == frames[th]
           m == Len(s) - 1
<1>1. s \in Seq(FrameType) /\ Len(s) \in Nat /\ Len(s) # 0
  OBVIOUS
<1>2. m \in Nat /\ \A i \in 1..m : s[i] \in FrameType
  BY <1>1
<1> HIDE DEF m
<1>3. 1 \in Int /\ m \in Int /\ Len(s) = m + 1
  BY <1>1, <1>2 DEF m
<1>4. SubSeq(s, 1, m) \in Seq(FrameType)
  BY <1>2, <1>3, SubSeqProperties, SMT
<1>5. Len(SubSeq(s, 1, m)) = m /\ \A i \in 1..m : SubSeq(s, 1, m)[i] = s[i]
  BY <1>1, <1>2, <1>3
<1>6. frames' = [frames EXCEPT ![th] = Append(SubSeq(s, 1, m), f)]
  BY DEF SetTop, Pop, m
<1>7. /\ Append(SubSeq(s, 1, m), f) \in Seq(FrameType)
      /\ Len(Append(SubSeq(s, 1, m), f)) = m + 1
      /\ Append(SubSeq(s, 1, m), f)[m + 1] = f
      /\ \A i \in 1..m : Append(SubSeq(s, 1, m), f)[i] = s[i]
  BY <1>2, <1>4, <1>5
<1> DEFINE top == Append(SubSeq(s, 1, m), f)
<1> HIDE DEF top
<1>8. /\ frames'[th] = top
      /\ \A t \in Threads : t # th => frames'[t] = frames[t]
      /\ frames' \in [Threads -> Seq(FrameType)]
  BY <1>6, <1>7 DEF top
<1>9. Len(top) = Len(s) /\ top[Len(s)] = f
      /\ \A i \in 1..Len(s) : i # Len(s) => top[i] = s[i]
  BY <1>2, <1>3, <1>7 DEF top
<1> QED
  BY <1>1, <1>8, <1>9

\* The top frame of a thread that has one.
LEMMA TopFrame ==
    ASSUME SchedInv, NEW th \in Threads, frames[th] # <<>>
    PROVE  /\ Len(frames[th]) \in 1..Len(frames[th])
           /\ Top(frames[th]) = frames[th][Len(frames[th])]
           /\ Top(frames[th]) \in FrameType
<1>1. frames[th] \in Seq(FrameType)
  BY DEF SchedInv, SchedTypeOK
<1>2. Len(frames[th]) \in Nat /\ Len(frames[th]) # 0
  BY <1>1
<1> QED
  BY <1>1, <1>2 DEF Top

\* Some frame of F has captured task id.
Captured(F, id) ==
    \E th \in Threads : \E i \in 1..Len(F[th]) :
       F[th][i].pc = "captured" /\ F[th][i].child = id

\* The tasks being published, without the set comprehension.
LEMMA BeingPublishedIs ==
    ASSUME frames \in [Threads -> Seq(FrameType)]
    PROVE  BeingPublished = {id \in TaskIds : Captured(frames, id)}
<1>1. \A th \in Threads : DOMAIN frames[th] = 1..Len(frames[th])
  OBVIOUS
<1> QED
  BY <1>1 DEF BeingPublished, Captured

\* The same in the next state.
LEMMA BeingPublishedWillBe ==
    ASSUME frames' \in [Threads -> Seq(FrameType)]
    PROVE  BeingPublished' = {id \in TaskIds : Captured(frames', id)}
<1>1. \A th \in Threads : DOMAIN frames'[th] = 1..Len(frames'[th])
  OBVIOUS
<1> QED
  BY <1>1 DEF BeingPublished, Captured

\* A step that starts no call and publishes nothing.
LEMMA CallsRemain ==
    ASSUME SchedInv, task_id_ctr' = task_id_ctr, ready' \subseteq ready,
           \A t \in Threads : \A i \in 1..Len(frames'[t]) : InCall(frames'[t][i]) =>
              /\ i \in 1..Len(frames[t])
              /\ InCall(frames[t][i]) /\ frames[t][i].child = frames'[t][i].child
    PROVE  CallsHoldIds'
<1>1. ready' \subseteq 1..task_id_ctr
  BY DEF SchedInv, CallsHoldIds
<1>2. ASSUME NEW t \in Threads, NEW i \in 1..Len(frames'[t]), InCall(frames'[t][i])
      PROVE  /\ frames'[t][i].child \in 1..task_id_ctr
             /\ frames'[t][i].child \notin ready'
  BY <1>2 DEF SchedInv, CallsHoldIds
<1>3. ASSUME NEW t \in Threads, NEW u \in Threads,
             NEW i \in 1..Len(frames'[t]), NEW j \in 1..Len(frames'[u]),
             InCall(frames'[t][i]), InCall(frames'[u][j]),
             frames'[t][i].child = frames'[u][j].child
      PROVE  t = u /\ i = j
  <2>1. /\ i \in 1..Len(frames[t]) /\ j \in 1..Len(frames[u])
        /\ InCall(frames[t][i]) /\ InCall(frames[u][j])
        /\ frames[t][i].child = frames[u][j].child
    BY <1>3
  <2> QED
    BY <2>1 DEF SchedInv, CallsHoldIds
<1>4. ASSUME NEW t \in Threads, NEW u \in Threads
      PROVE  \A i \in 1..Len(frames'[t]), j \in 1..Len(frames'[u]) :
                /\ InCall(frames'[t][i]) /\ InCall(frames'[u][j])
                /\ frames'[t][i].child = frames'[u][j].child
                => t = u /\ i = j
  BY <1>3
<1> QED
  BY <1>1, <1>2, <1>4 DEF CallsHoldIds

\* A step in which the top frame of a thread was outside a call and stays outside.
LEMMA QuietStep ==
    ASSUME SchedInv, NEW th \in Threads, frames[th] # <<>>,
           ~InCall(Top(frames[th])), NEW f \in FrameType, ~InCall(f),
           frames' = SetTop(th, f),
           UNCHANGED <<task_id_ctr, ready, returned, temp_cur_map>>
    PROVE  SchedInv'
<1> DEFINE n == Len(frames[th])
<1>1. /\ frames \in [Threads -> Seq(FrameType)]
      /\ n \in 1..n /\ ~InCall(frames[th][n])
  BY TopFrame DEF SchedInv, SchedTypeOK
<1>2. /\ frames' \in [Threads -> Seq(FrameType)]
      /\ \A t \in Threads :
            /\ Len(frames'[t]) = Len(frames[t])
            /\ \A i \in 1..Len(frames[t]) :
                  /\ t = th /\ i = n => frames'[t][i] = f
                  /\ ~(t = th /\ i = n) => frames'[t][i] = frames[t][i]
  BY <1>1, SetTopFrames
<1> HIDE DEF n
<1>3. \A t \in Threads : \A i \in 1..Len(frames[t]) :
         /\ InCall(frames'[t][i]) <=> InCall(frames[t][i])
         /\ InCall(frames[t][i]) => frames'[t][i] = frames[t][i]
  BY <1>1, <1>2
<1>4. CallsHoldIds'
  BY <1>2, <1>3 DEF SchedInv, CallsHoldIds
<1>5. \A t \in Threads : \A i \in 1..Len(frames[t]) : \A id \in TaskIds :
         frames'[t][i].pc = "captured" /\ frames'[t][i].child = id
            <=> frames[t][i].pc = "captured" /\ frames[t][i].child = id
  BY <1>3 DEF InCall
<1>6. BeingPublished' = BeingPublished
  <2>1. \A id \in TaskIds : Captured(frames', id) <=> Captured(frames, id)
    BY <1>2, <1>5 DEF Captured
  <2> QED
    BY <1>1, <1>2, <2>1, BeingPublishedIs, BeingPublishedWillBe
<1>7. MapMatchesScheduler'
  BY <1>6 DEF SchedInv, MapMatchesScheduler
<1>8. SchedTypeOK'
  BY <1>2 DEF SchedInv, SchedTypeOK
<1> QED
  BY <1>4, <1>7, <1>8 DEF SchedInv

-----------------------------------------------------------------------------
\* An id is drawn that no other call holds.
LEMMA SetTaskIdStep ==
    ASSUME SchedInv, NEW th \in Threads, NEW kind \in Kinds, SetTaskId(th, kind)
    PROVE  SchedInv'
<1> DEFINE n == Len(frames[th])
           old == Top(frames[th])
           c == task_id_ctr + 1
           f == [old EXCEPT !.pc = "named", !.kind = kind, !.child = c]
<1>1. /\ frames \in [Threads -> Seq(FrameType)] /\ frames[th] # <<>>
      /\ task_id_ctr \in 0..MaxTasks /\ MaxTasks \in Nat /\ task_id_ctr < MaxTasks
      /\ task_id_ctr' = c /\ frames' = SetTop(th, f) /\ old.pc = "run"
      /\ UNCHANGED <<ready, returned, temp_cur_map>>
  BY TaskAssumption DEF SchedInv, SchedTypeOK, SetTaskId, Running, graphVars
<1>2. n \in 1..n /\ old = frames[th][n] /\ old \in FrameType
  BY <1>1, TopFrame
<1>3. c \in Nat /\ c \in 1..MaxTasks /\ c \in 0..MaxTasks /\ task_id_ctr \in Nat
  BY <1>1
<1>4. f \in FrameType /\ f.pc = "named" /\ f.child = c
  <2>1. kind \in Kinds \cup {"none", "wait"}
    OBVIOUS
  <2> QED
    BY <1>2, <1>3, <2>1 DEF FrameType
<1> HIDE DEF f, old
<1>5. /\ frames' \in [Threads -> Seq(FrameType)]
      /\ \A t \in Threads :
            /\ Len(frames'[t]) = Len(frames[t])
            /\ \A i \in 1..Len(frames[t]) :
                  /\ t = th /\ i = n => frames'[t][i] = f
                  /\ ~(t = th /\ i = n) => frames'[t][i] = frames[t][i]
  BY <1>1, <1>4, SetTopFrames
<1> HIDE DEF n
<1>6. \A t \in Threads : \A i \in 1..Len(frames[t]) : InCall(frames[t][i]) =>
         /\ ~(t = th /\ i = n)
         /\ frames[t][i].child \in 1..task_id_ctr /\ frames[t][i].child # c
  BY <1>1, <1>2, <1>3 DEF SchedInv, CallsHoldIds, InCall
<1>7. CallsHoldIds'
  <2>1. ready \subseteq 1..task_id_ctr /\ 1..task_id_ctr \subseteq 1..c /\ c \notin ready
    BY <1>3 DEF SchedInv, CallsHoldIds
  <2>2. ASSUME NEW t \in Threads, NEW i \in 1..Len(frames'[t]), InCall(frames'[t][i])
        PROVE  /\ frames'[t][i].child \in 1..c
               /\ frames'[t][i].child \notin ready
    <3>1. CASE t = th /\ i = n
      BY <3>1, <2>1, <1>3, <1>4, <1>5
    <3>2. CASE ~(t = th /\ i = n)
      BY <3>2, <2>1, <2>2, <1>5, <1>6 DEF SchedInv, CallsHoldIds
    <3> QED
      BY <3>1, <3>2
  <2>3. ASSUME NEW t \in Threads, NEW u \in Threads,
               NEW i \in 1..Len(frames'[t]), NEW j \in 1..Len(frames'[u]),
               InCall(frames'[t][i]), InCall(frames'[u][j]),
               frames'[t][i].child = frames'[u][j].child
        PROVE  t = u /\ i = j
    <3>1. CASE ~(t = th /\ i = n) /\ ~(u = th /\ j = n)
      BY <3>1, <2>3, <1>5 DEF SchedInv, CallsHoldIds
    <3>2. CASE t = th /\ i = n
      BY <3>2, <2>3, <1>4, <1>5, <1>6
    <3>3. CASE u = th /\ j = n
      BY <3>3, <2>3, <1>4, <1>5, <1>6
    <3> QED
      BY <3>1, <3>2, <3>3
  <2> QED
    BY <2>1, <2>2, <2>3, <1>1 DEF CallsHoldIds
<1>8. BeingPublished' = BeingPublished
  <2>1. \A id \in TaskIds : Captured(frames', id) <=> Captured(frames, id)
    <3>1. ASSUME NEW id \in TaskIds, Captured(frames', id)
          PROVE  Captured(frames, id)
      BY <3>1, <1>4, <1>5 DEF Captured
    <3>2. ASSUME NEW id \in TaskIds, Captured(frames, id)
          PROVE  Captured(frames', id)
      BY <3>2, <1>1, <1>2, <1>5 DEF Captured
    <3> QED
      BY <3>1, <3>2
  <2> QED
    BY <1>1, <1>5, <2>1, BeingPublishedIs, BeingPublishedWillBe
<1>9. MapMatchesScheduler' /\ SchedTypeOK'
  BY <1>1, <1>3, <1>5, <1>8 DEF SchedInv, MapMatchesScheduler, SchedTypeOK
<1> QED
  BY <1>7, <1>9 DEF SchedInv

\* Capturing the child of a call in progress.
LEMMA CaptureStep ==
    ASSUME SchedInv, NEW th \in Threads, Capture(th)
    PROVE  /\ SchedInv'
           /\ Top(frames[th]).child \in TaskIds
<1> DEFINE n == Len(frames[th])
           old == Top(frames[th])
           c == old.child
           f == [old EXCEPT !.pc = "captured"]
<1>1. /\ frames \in [Threads -> Seq(FrameType)] /\ frames[th] # <<>>
      /\ frames' = SetTop(th, f) /\ old.pc = "named"
      /\ UNCHANGED <<task_id_ctr, ready, returned>>
      /\ TaskIds = 1..MaxTasks /\ task_id_ctr \in 0..MaxTasks /\ MaxTasks \in Nat
  BY TaskAssumption DEF SchedInv, SchedTypeOK, Capture
<1>2. DOMAIN temp_cur_map' = DOMAIN temp_cur_map \cup {c}
  <2>1. CaptureSpawnOnly(th, c) \/ CaptureSpawnAndWait(th, c)
    BY Zenon DEF Capture, CaptureSetTaskId
  <2> QED
    BY <2>1 DEF CaptureSpawnOnly, CaptureSpawnAndWait, MapInsert
<1>3. n \in 1..Len(frames[th]) /\ old = frames[th][n] /\ old \in FrameType
  BY <1>1, TopFrame
<1>4. f \in FrameType /\ f.pc = "captured" /\ f.child = c
  BY <1>3 DEF FrameType
<1>5. InCall(old) /\ c \in 1..task_id_ctr /\ c \in TaskIds
  BY <1>1, <1>3 DEF SchedInv, CallsHoldIds, InCall
<1> HIDE DEF f, old, c
<1>6. /\ frames' \in [Threads -> Seq(FrameType)]
      /\ \A t \in Threads :
            /\ Len(frames'[t]) = Len(frames[t])
            /\ \A i \in 1..Len(frames[t]) :
                  /\ t = th /\ i = n => frames'[t][i] = f
                  /\ ~(t = th /\ i = n) => frames'[t][i] = frames[t][i]
  BY <1>1, <1>4, SetTopFrames
<1> HIDE DEF n
<1>7. \A t \in Threads : \A i \in 1..Len(frames[t]) :
         /\ InCall(frames'[t][i]) <=> InCall(frames[t][i])
         /\ frames'[t][i].child = frames[t][i].child
  BY <1>3, <1>4, <1>5, <1>6 DEF InCall, c
<1>8. CallsHoldIds'
  BY <1>1, <1>6, <1>7 DEF SchedInv, CallsHoldIds
<1>9. BeingPublished' = BeingPublished \cup {c}
  <2>1. \A id \in TaskIds : Captured(frames', id) <=> Captured(frames, id) \/ id = c
    <3>1. ASSUME NEW id \in TaskIds, Captured(frames', id)
          PROVE  Captured(frames, id) \/ id = c
      BY <3>1, <1>4, <1>6 DEF Captured
    <3>2. ASSUME NEW id \in TaskIds, Captured(frames, id)
          PROVE  Captured(frames', id)
      BY <3>2, <1>1, <1>3, <1>6 DEF Captured
    <3>3. Captured(frames', c)
      BY <1>3, <1>4, <1>6 DEF Captured
    <3> QED
      BY <3>1, <3>2, <3>3
  <2> QED
    BY <1>1, <1>5, <1>6, <2>1, BeingPublishedIs, BeingPublishedWillBe
<1>10. MapMatchesScheduler' /\ SchedTypeOK'
  BY <1>1, <1>2, <1>6, <1>9 DEF SchedInv, MapMatchesScheduler, SchedTypeOK
<1> QED
  BY <1>5, <1>8, <1>10 DEF SchedInv, c, old

\* Handing the child to the scheduler ends the call.
LEMMA PublishStep ==
    ASSUME SchedInv, NEW th \in Threads, Publish(th)
    PROVE  SchedInv'
<1> DEFINE n == Len(frames[th])
           old == Top(frames[th])
           c == old.child
           own == old.pending \cup (IF old.kind = "root" THEN {} ELSE {c})
           f == IF old.kind = "spawn"
                THEN [old EXCEPT !.pc = "run", !.kind = "none", !.child = 0, !.pending = own]
                ELSE [old EXCEPT !.pc = "waiting", !.pending = own,
                                 !.awaited = IF old.kind = "root" THEN {c} ELSE own]
<1>1. /\ frames \in [Threads -> Seq(FrameType)] /\ frames[th] # <<>>
      /\ frames' = SetTop(th, f) /\ old.pc = "captured"
      /\ ready' = ready \cup {c}
      /\ UNCHANGED <<task_id_ctr, returned, temp_cur_map>>
      /\ TaskIds = 1..MaxTasks /\ task_id_ctr \in 0..MaxTasks /\ MaxTasks \in Nat
  BY TaskAssumption DEF SchedInv, SchedTypeOK, Publish, graphVars
<1>2. n \in 1..Len(frames[th]) /\ old = frames[th][n] /\ old \in FrameType
  BY <1>1, TopFrame
<1>3. InCall(old) /\ c \in 1..task_id_ctr /\ c \in TaskIds
  BY <1>1, <1>2 DEF SchedInv, CallsHoldIds, InCall
<1>4. f \in FrameType /\ ~InCall(f)
  <2>1. /\ old.pending \in SUBSET TaskIds /\ own \in SUBSET TaskIds /\ {c} \in SUBSET TaskIds
        /\ 0 \in 0..MaxTasks
    BY <1>1, <1>2, <1>3 DEF FrameType
  <2> DEFINE aw == IF old.kind = "root" THEN {c} ELSE own
  <2>2. aw \in SUBSET TaskIds
    BY <2>1
  <2> HIDE DEF own, aw, c
  <2>3. [old EXCEPT !.pc = "run", !.kind = "none", !.child = 0, !.pending = own] \in FrameType
    BY <1>2, <2>1 DEF FrameType, Kinds
  <2>4. [old EXCEPT !.pc = "waiting", !.pending = own, !.awaited = aw] \in FrameType
    BY <1>2, <2>1, <2>2 DEF FrameType
  <2>5. /\ [old EXCEPT !.pc = "run", !.kind = "none", !.child = 0, !.pending = own].pc = "run"
        /\ [old EXCEPT !.pc = "waiting", !.pending = own, !.awaited = aw].pc = "waiting"
    BY <1>2 DEF FrameType
  <2> QED
    BY <2>3, <2>4, <2>5 DEF InCall, aw
<1> HIDE DEF f, old, c
<1>5. /\ frames' \in [Threads -> Seq(FrameType)]
      /\ \A t \in Threads :
            /\ Len(frames'[t]) = Len(frames[t])
            /\ \A i \in 1..Len(frames[t]) :
                  /\ t = th /\ i = n => frames'[t][i] = f
                  /\ ~(t = th /\ i = n) => frames'[t][i] = frames[t][i]
  BY <1>1, <1>4, SetTopFrames
<1> HIDE DEF n
<1>6. \A t \in Threads : \A i \in 1..Len(frames[t]) : InCall(frames'[t][i]) =>
         /\ ~(t = th /\ i = n)
         /\ frames'[t][i] = frames[t][i] /\ InCall(frames[t][i])
         /\ frames[t][i].child # c
  <2> SUFFICES ASSUME NEW t \in Threads, NEW i \in 1..Len(frames[t]), InCall(frames'[t][i])
               PROVE  /\ ~(t = th /\ i = n)
                      /\ frames'[t][i] = frames[t][i] /\ InCall(frames[t][i])
                      /\ frames[t][i].child # c
    OBVIOUS
  <2>1. ~(t = th /\ i = n)
    BY <1>4, <1>5
  <2>2. frames'[t][i] = frames[t][i] /\ InCall(frames[t][i])
    BY <2>1, <1>5
  <2>3. frames[t][i].child # c
    BY <2>1, <2>2, <1>2, <1>3 DEF SchedInv, CallsHoldIds, c
  <2> QED
    BY <2>1, <2>2, <2>3
<1>7. CallsHoldIds'
  <2>1. ready' \subseteq 1..task_id_ctr
    BY <1>1, <1>3 DEF SchedInv, CallsHoldIds
  <2>2. ASSUME NEW t \in Threads, NEW i \in 1..Len(frames'[t]), InCall(frames'[t][i])
        PROVE  /\ frames'[t][i].child \in 1..task_id_ctr
               /\ frames'[t][i].child \notin ready'
    BY <2>2, <1>1, <1>5, <1>6 DEF SchedInv, CallsHoldIds
  <2>3. ASSUME NEW t \in Threads, NEW u \in Threads,
               NEW i \in 1..Len(frames'[t]), NEW j \in 1..Len(frames'[u]),
               InCall(frames'[t][i]), InCall(frames'[u][j]),
               frames'[t][i].child = frames'[u][j].child
        PROVE  t = u /\ i = j
    BY <2>3, <1>5, <1>6 DEF SchedInv, CallsHoldIds
  <2> QED
    BY <2>1, <2>2, <2>3, <1>1 DEF CallsHoldIds
<1>8. BeingPublished' = BeingPublished \ {c} /\ c \in BeingPublished
  <2>1. ASSUME NEW id \in TaskIds, Captured(frames', id)
        PROVE  Captured(frames, id) /\ id # c
    <3>1. PICK t \in Threads : \E i \in 1..Len(frames'[t]) :
             frames'[t][i].pc = "captured" /\ frames'[t][i].child = id
      BY <2>1 DEF Captured
    <3>2. PICK i \in 1..Len(frames'[t]) :
             frames'[t][i].pc = "captured" /\ frames'[t][i].child = id
      BY <3>1
    <3> QED
      BY <3>2, <1>5, <1>6 DEF Captured, InCall
  <2>2. ASSUME NEW id \in TaskIds, Captured(frames, id), id # c
        PROVE  Captured(frames', id)
    <3>1. PICK t \in Threads : \E i \in 1..Len(frames[t]) :
             frames[t][i].pc = "captured" /\ frames[t][i].child = id
      BY <2>2 DEF Captured
    <3>2. PICK i \in 1..Len(frames[t]) :
             frames[t][i].pc = "captured" /\ frames[t][i].child = id
      BY <3>1
    <3>3. ~(t = th /\ i = n)
      BY <3>2, <2>2, <1>2 DEF c
    <3> QED
      BY <3>2, <3>3, <1>5 DEF Captured
  <2>3. Captured(frames, c)
    BY <1>1, <1>2 DEF Captured, c
  <2> QED
    BY <1>1, <1>3, <1>5, <2>1, <2>2, <2>3, BeingPublishedIs, BeingPublishedWillBe
<1>9. MapMatchesScheduler'
  BY <1>1, <1>8 DEF SchedInv, MapMatchesScheduler
<1>10. SchedTypeOK'
  BY <1>1, <1>3, <1>5 DEF SchedInv, SchedTypeOK
<1> QED
  BY <1>7, <1>9, <1>10 DEF SchedInv

\* Beginning a task takes it from the map and from the scheduler at once.
LEMMA BeginStep ==
    ASSUME SchedInv, NEW th \in Threads, NEW id \in TaskIds, Execute(th, id)
    PROVE  SchedInv'
<1>1. /\ frames \in [Threads -> Seq(FrameType)]
      /\ frames' = [frames EXCEPT ![th] = Append(@, Frame(id))]
      /\ id \in ready /\ ready' = ready \ {id}
      /\ UNCHANGED <<task_id_ctr, returned>>
      /\ TaskIds = 1..MaxTasks /\ MaxTasks \in Nat
  BY TaskAssumption DEF SchedInv, SchedTypeOK, Execute
<1>2. DOMAIN temp_cur_map' = DOMAIN temp_cur_map \ {id}
  BY DEF Execute, CaptureExecute, Restrict
<1>3. Frame(id) \in FrameType /\ ~InCall(Frame(id)) /\ Frame(id).pc # "captured"
  <2>1. id \in 0..MaxTasks /\ 0 \in 0..MaxTasks /\ {} \in SUBSET TaskIds
    BY <1>1
  <2> QED
    BY <2>1 DEF Frame, FrameType, InCall, Kinds
<1>4. /\ frames' \in [Threads -> Seq(FrameType)]
      /\ \A t \in Threads : t # th => frames'[t] = frames[t]
      /\ Len(frames'[th]) = Len(frames[th]) + 1 /\ Len(frames[th]) \in Nat
      /\ frames'[th][Len(frames[th]) + 1] = Frame(id)
      /\ \A i \in 1..Len(frames[th]) : frames'[th][i] = frames[th][i]
  BY <1>1, <1>3
<1>5. \A t \in Threads : \A i \in 1..Len(frames'[t]) : InCall(frames'[t][i]) =>
         /\ i \in 1..Len(frames[t]) /\ frames'[t][i] = frames[t][i]
         /\ InCall(frames[t][i]) /\ frames[t][i].child = frames'[t][i].child
  <2> SUFFICES ASSUME NEW t \in Threads, NEW i \in 1..Len(frames'[t]), InCall(frames'[t][i])
               PROVE  i \in 1..Len(frames[t]) /\ frames'[t][i] = frames[t][i]
    OBVIOUS
  <2>1. CASE t # th
    BY <2>1, <1>4
  <2>2. CASE t = th
    <3>1. i # Len(frames[th]) + 1
      BY <2>2, <1>3, <1>4
    <3> QED
      BY <2>2, <3>1, <1>4
  <2> QED
    BY <2>1, <2>2
<1>6. CallsHoldIds'
  BY <1>1, <1>5, CallsRemain
<1>7. BeingPublished' = BeingPublished /\ id \notin BeingPublished
  <2>1. ASSUME NEW x \in TaskIds, Captured(frames', x)
        PROVE  Captured(frames, x)
    BY <2>1, <1>5 DEF Captured, InCall
  <2>2. ASSUME NEW x \in TaskIds, Captured(frames, x)
        PROVE  Captured(frames', x)
    <3>1. PICK t \in Threads : \E i \in 1..Len(frames[t]) :
             frames[t][i].pc = "captured" /\ frames[t][i].child = x
      BY <2>2 DEF Captured
    <3>2. PICK i \in 1..Len(frames[t]) :
             frames[t][i].pc = "captured" /\ frames[t][i].child = x
      BY <3>1
    <3>3. i \in 1..Len(frames'[t]) /\ frames'[t][i] = frames[t][i]
      BY <1>4
    <3> QED
      BY <3>2, <3>3 DEF Captured
  <2>3. ~Captured(frames, id)
    BY <1>1 DEF Captured, SchedInv, CallsHoldIds, InCall
  <2> QED
    BY <1>1, <1>4, <2>1, <2>2, <2>3, BeingPublishedIs, BeingPublishedWillBe
<1>8. MapMatchesScheduler'
  BY <1>1, <1>2, <1>7 DEF SchedInv, MapMatchesScheduler
<1>9. SchedTypeOK'
  BY <1>1, <1>4 DEF SchedInv, SchedTypeOK
<1> QED
  BY <1>6, <1>8, <1>9 DEF SchedInv

\* Inheriting changes what a frame joins, and not the call it is in.
LEMMA InheritFields ==
    ASSUME NEW f \in FrameType, NEW id, NEW left \in SUBSET TaskIds
    PROVE  /\ Inherit(f, id, left) \in FrameType
           /\ InCall(Inherit(f, id, left)) <=> InCall(f)
           /\ Inherit(f, id, left).pc = f.pc
           /\ Inherit(f, id, left).child = f.child
<1> DEFINE p == IF id \in f.pending THEN f.pending \cup left ELSE f.pending
           a == IF id \in f.awaited THEN f.awaited \cup left ELSE f.awaited
<1>1. p \in SUBSET TaskIds /\ a \in SUBSET TaskIds
  BY DEF FrameType
<1>2. Inherit(f, id, left) = [f EXCEPT !.pending = p, !.awaited = a]
  BY DEF Inherit, FrameType
<1> HIDE DEF p, a
<1> QED
  BY <1>1, <1>2 DEF FrameType, InCall

\* Ending a task leaves the calls of the other frames as they are.
LEMMA EndStep ==
    ASSUME SchedInv, NEW th \in Threads, Return(th)
    PROVE  SchedInv'
<1> DEFINE old == Top(frames[th])
           g(t) == IF t = th THEN Pop(frames[t]) ELSE frames[t]
<1>1. /\ frames \in [Threads -> Seq(FrameType)] /\ frames[th] # <<>>
      /\ frames' = [t \in Threads |->
                       [i \in DOMAIN g(t) |-> Inherit(g(t)[i], old.task, old.pending)]]
      /\ old.pc = "run" /\ old.task # 0
      /\ returned' = returned \cup {old.task}
      /\ UNCHANGED <<task_id_ctr, ready, temp_cur_map>>
      /\ TaskIds = 1..MaxTasks /\ MaxTasks \in Nat
  BY TaskAssumption DEF SchedInv, SchedTypeOK, Return, Running, CaptureReturn
<1>2. /\ Len(frames[th]) \in 1..Len(frames[th])
      /\ old = frames[th][Len(frames[th])] /\ old \in FrameType
  BY <1>1, TopFrame
<1>3. old.task \in TaskIds /\ old.pending \in SUBSET TaskIds
  BY <1>1, <1>2 DEF FrameType
<1> HIDE DEF old
<1>4. ASSUME NEW t \in Threads
      PROVE  /\ g(t) \in Seq(FrameType)
             /\ t # th => g(t) = frames[t]
             /\ t = th => Len(g(t)) = Len(frames[t]) - 1
             /\ \A i \in 1..Len(g(t)) : i \in 1..Len(frames[t]) /\ g(t)[i] = frames[t][i]
  <2>1. CASE t # th
    BY <2>1, <1>1
  <2>2. CASE t = th
    <3> DEFINE s == frames[th]
               m == Len(s) - 1
    <3>1. m \in Nat /\ s \in Seq(FrameType) /\ \A i \in 1..m : s[i] \in FrameType /\ i \in 1..Len(s)
      BY <1>1, <1>2
    <3>2. g(t) = SubSeq(s, 1, m)
      BY <2>2 DEF Pop
    <3> HIDE DEF m, g
    <3>3. 1 \in Int /\ m \in Int
      BY <3>1
    <3>4. SubSeq(s, 1, m) \in Seq(FrameType)
      BY <3>1, <3>3, SubSeqProperties, SMT
    <3>5. Len(SubSeq(s, 1, m)) = m /\ \A i \in 1..m : SubSeq(s, 1, m)[i] = s[i]
      BY <3>1, <3>3
    <3> QED
      BY <2>2, <3>1, <3>2, <3>4, <3>5 DEF m
  <2> QED
    BY <2>1, <2>2
<1>5. ASSUME NEW t \in Threads
      PROVE  /\ frames'[t] \in Seq(FrameType)
             /\ Len(frames'[t]) = Len(g(t))
             /\ \A i \in 1..Len(frames'[t]) :
                   /\ i \in 1..Len(frames[t])
                   /\ InCall(frames'[t][i]) <=> InCall(frames[t][i])
                   /\ frames'[t][i].pc = frames[t][i].pc
                   /\ frames'[t][i].child = frames[t][i].child
  <2> DEFINE s == g(t)
             h == [i \in DOMAIN s |-> Inherit(s[i], old.task, old.pending)]
  <2>1. frames'[t] = h
    BY <1>1
  <2>2. /\ s \in Seq(FrameType) /\ DOMAIN s = 1..Len(s) /\ Len(s) \in Nat
        /\ \A i \in 1..Len(s) :
              s[i] \in FrameType /\ i \in 1..Len(frames[t]) /\ s[i] = frames[t][i]
    BY <1>4
  <2> HIDE DEF g, s
  <2>3. \A i \in 1..Len(s) :
           /\ Inherit(s[i], old.task, old.pending) \in FrameType
           /\ InCall(Inherit(s[i], old.task, old.pending)) <=> InCall(s[i])
           /\ Inherit(s[i], old.task, old.pending).pc = s[i].pc
           /\ Inherit(s[i], old.task, old.pending).child = s[i].child
    BY <2>2, <1>3, InheritFields
  <2>4. h \in [1..Len(s) -> FrameType] /\ \A i \in 1..Len(s) : h[i] = Inherit(s[i], old.task, old.pending)
    BY <2>2, <2>3
  <2> HIDE DEF h
  <2>5. h \in Seq(FrameType) /\ Len(h) = Len(s)
    BY <2>2, <2>4
  <2> QED
    BY <2>1, <2>2, <2>3, <2>4, <2>5 DEF s
<1>6. frames' \in [Threads -> Seq(FrameType)]
  <2>1. frames' = [t \in Threads |-> frames'[t]]
    BY <1>1, Zenon
  <2> QED
    BY <1>5, <2>1
<1> HIDE DEF g
<1>7. CallsHoldIds'
  BY <1>1, <1>5, CallsRemain
<1>8. BeingPublished' = BeingPublished
  <2>1. ASSUME NEW x \in TaskIds, Captured(frames', x)
        PROVE  Captured(frames, x)
    BY <2>1, <1>5 DEF Captured
  <2>2. ASSUME NEW x \in TaskIds, Captured(frames, x)
        PROVE  Captured(frames', x)
    <3>1. PICK t \in Threads : \E i \in 1..Len(frames[t]) :
             frames[t][i].pc = "captured" /\ frames[t][i].child = x
      BY <2>2 DEF Captured
    <3>2. PICK i \in 1..Len(frames[t]) :
             frames[t][i].pc = "captured" /\ frames[t][i].child = x
      BY <3>1
    <3>3. ~(t = th /\ i = Len(frames[th]))
      BY <3>2, <1>1, <1>2
    <3>4. i \in 1..Len(frames'[t])
      BY <3>3, <1>1, <1>2, <1>4, <1>5
    <3> QED
      BY <3>2, <3>4, <1>5 DEF Captured
  <2> QED
    BY <1>1, <1>6, <2>1, <2>2, BeingPublishedIs, BeingPublishedWillBe
<1>9. MapMatchesScheduler' /\ SchedTypeOK'
  BY <1>1, <1>3, <1>6, <1>8 DEF SchedInv, MapMatchesScheduler, SchedTypeOK
<1> QED
  BY <1>7, <1>9 DEF SchedInv

\* Entering a wait and leaving one starts no call.
LEMMA EnterWaitStep ==
    ASSUME SchedInv, NEW th \in Threads, WaitForAll(th)
    PROVE  SchedInv'
<1> DEFINE old == Top(frames[th])
           f == [old EXCEPT !.pc = "waiting", !.kind = "wait", !.awaited = old.pending]
<1>1. /\ frames[th] # <<>> /\ old.pc = "run" /\ frames' = SetTop(th, f)
      /\ UNCHANGED <<task_id_ctr, ready, returned, temp_cur_map>>
  BY DEF WaitForAll, Running, graphVars
<1>2. old \in FrameType
  BY <1>1, TopFrame
<1>3. f \in FrameType /\ f.pc = "waiting"
  BY <1>2 DEF FrameType
<1> HIDE DEF f
<1> QED
  BY <1>1, <1>3, QuietStep DEF InCall

\* A task that goes on holds no id.
LEMMA ResumeStep ==
    ASSUME SchedInv, NEW th \in Threads, Resume(th)
    PROVE  SchedInv'
<1> DEFINE old == Top(frames[th])
           left == IF old.kind = "root" THEN old.pending ELSE {}
           f == [old EXCEPT !.pc = "run", !.kind = "none", !.child = 0, !.awaited = {},
                            !.pending = left]
<1>1. /\ frames[th] # <<>> /\ old.pc = "waiting"
      /\ UNCHANGED <<task_id_ctr, ready, returned, temp_cur_map>>
  BY DEF Resume, CaptureWaitOnly, graphVars
<1>2. old \in FrameType /\ MaxTasks \in Nat
  BY <1>1, TopFrame, TaskAssumption
<1>3. frames' = SetTop(th, f)
  BY <1>2 DEF Resume, FrameType
<1>4. left \in SUBSET TaskIds /\ {} \in SUBSET TaskIds /\ 0 \in 0..MaxTasks
  BY <1>2 DEF FrameType
<1> HIDE DEF left
<1>5. f \in FrameType /\ f.pc = "run"
  BY <1>2, <1>4 DEF FrameType
<1> HIDE DEF f
<1> QED
  BY <1>1, <1>3, <1>5, QuietStep DEF InCall

-----------------------------------------------------------------------------
\* The program starts with one frame and no id drawn.
LEMMA InitSchedInv == Init => SchedInv
<1> SUFFICES ASSUME Init PROVE SchedInv
  OBVIOUS
<1>1. /\ task_id_ctr = 0 /\ ready = {} /\ returned = {} /\ temp_cur_map = <<>>
      /\ frames = [t \in Threads |-> IF t = MainThread THEN <<Frame(0)>> ELSE <<>>]
      /\ MaxTasks \in Nat
  BY TaskAssumption DEF Init, GraphInit
<1>2. Frame(0) \in FrameType /\ Frame(0).pc = "run"
  <2>1. 0 \in 0..MaxTasks /\ {} \in SUBSET TaskIds
    BY <1>1
  <2> QED
    BY <2>1 DEF Frame, FrameType
<1>3. frames \in [Threads -> Seq(FrameType)]
  BY <1>1, <1>2
<1>4. \A t \in Threads : \A i \in 1..Len(frames[t]) : frames[t][i].pc = "run"
  BY <1>1, <1>2
<1>5. SchedTypeOK /\ CallsHoldIds
  BY <1>1, <1>3, <1>4 DEF SchedTypeOK, CallsHoldIds, InCall
<1>6. BeingPublished = {}
  BY <1>3, <1>4, BeingPublishedIs DEF Captured
<1> QED
  BY <1>1, <1>5, <1>6 DEF SchedInv, MapMatchesScheduler

\* Every action is one of the Capture* calls of GraphSpec, or none.
LEMMA NextGraph ==
    ASSUME SchedInv, [Next]_vars
    PROVE  [GraphNext]_graphVars
<1>1. CASE UNCHANGED vars
  BY <1>1 DEF vars
<1>2. ASSUME NEW th \in Threads, NEW kind \in Kinds, SetTaskId(th, kind)
      PROVE  UNCHANGED graphVars
  BY <1>2 DEF SetTaskId
<1>3. ASSUME NEW th \in Threads, Capture(th)
      PROVE  GraphNext
  <2> DEFINE c == Top(frames[th]).child
             spawns == Top(frames[th]).kind # "root"
  <2>1. c \in TaskIds /\ spawns \in BOOLEAN
    BY <1>3, CaptureStep
  <2>2. CaptureSetTaskId(th, c, spawns)
    BY <1>3, Zenon DEF Capture
  <2> HIDE DEF c, spawns
  <2> QED
    BY <2>1, <2>2, Zenon DEF GraphNext
<1>4. ASSUME NEW th \in Threads, Publish(th) \/ WaitForAll(th)
      PROVE  UNCHANGED graphVars
  BY <1>4 DEF Publish, WaitForAll
<1>5. ASSUME NEW th \in Threads, NEW id \in TaskIds, Execute(th, id)
      PROVE  GraphNext
  BY <1>5, Zenon DEF Execute, GraphNext
<1>6. ASSUME NEW th \in Threads, Return(th)
      PROVE  GraphNext
  BY <1>6, Zenon DEF Return, GraphNext
<1>7. ASSUME NEW th \in Threads, Resume(th)
      PROVE  [GraphNext]_graphVars
  BY <1>7, Zenon DEF Resume, GraphNext
<1> QED
  BY <1>1, <1>2, <1>3, <1>4, <1>5, <1>6, <1>7, Zenon DEF Next

\* Every step of the program keeps the invariant.
LEMMA NextSchedInv ==
    ASSUME SchedInv, [Next]_vars
    PROVE  SchedInv'
<1>1. CASE UNCHANGED vars
  BY <1>1 DEF vars, graphVars, schedVars, SchedInv, SchedTypeOK, CallsHoldIds,
              MapMatchesScheduler, BeingPublished
<1>2. CASE Next
  BY <1>1, <1>2, SetTaskIdStep, CaptureStep, PublishStep, EnterWaitStep, BeginStep,
     EndStep, ResumeStep, Zenon DEF Next
<1> QED
  BY <1>1, <1>2

-----------------------------------------------------------------------------
\* The scheduler state stays well typed and the ids in use stay apart.
THEOREM SchedulerInvariant == Spec => []SchedInv
<1>1. Init => SchedInv
  BY InitSchedInv
<1>2. SchedInv /\ [Next]_vars => SchedInv'
  BY NextSchedInv
<1> QED
  BY <1>1, <1>2, PTL DEF Spec

\* temp_cur_map holds exactly the tasks the scheduler may start and those about
\* to be handed to it: at() in __exec_begin__ never throws, and no entry leaks.
THEOREM TaskMapMatches == Spec => []MapMatchesScheduler
<1>1. SchedInv => MapMatchesScheduler
  BY DEF SchedInv
<1> QED
  BY <1>1, SchedulerInvariant, PTL

\* Programs of every style use the tree as GraphSpec allows.
THEOREM TaskImplementsGraph == Spec => GraphSpec
<1>1. Init => GraphInit
  BY DEF Init
<1>2. SchedInv /\ [Next]_vars => [GraphNext]_graphVars
  BY NextGraph
<1> QED
  BY <1>1, <1>2, SchedulerInvariant, PTL DEF Spec, GraphSpec

\* So whatever the program does the tree is well formed and the stacks and the map
\* hold internal nodes of it.
THEOREM TaskTreeInvariant == Spec => []IInv
BY TaskImplementsGraph, GraphInvariant, PTL

\* A verdict of the tree is never taken back while the program runs.
THEOREM TaskTreeGrows == Spec => TreeGrows
BY TaskImplementsGraph, GraphGrows, PTL

-----------------------------------------------------------------------------
(* Programs in which every task waits for what it spawned *)

\* The departures that the library at hand copes with.
Discipline == Styles \subseteq (IF PopsOpenFinish THEN {"continuation"} ELSE {})

\* The tasks that a started task has to join: it spawned them, or those that did
\* have returned.
Joins(f) == f.pending \cup f.awaited \cup (IF f.pc = "captured" THEN {f.child} ELSE {})

\* Its spawn phase is open.
Open(f) == f.pending # {} \/ (f.pc = "captured" /\ f.kind # "root")

\* It is inside a spawn_root_and_wait.
RootCall(f) == f.kind = "root" /\ f.pc \in {"captured", "waiting"}

FrameOK(f) ==
    /\ f.pc = "run" => f.kind = "none"
    /\ f.pc \in {"named", "captured"} => f.kind \in Kinds
    /\ f.pc # "waiting" => f.awaited = {}
    /\ f.pc = "waiting" /\ f.kind # "root" =>
          /\ f.kind \in {"wait", "spawn_and_wait"}
          /\ f.pending # {} /\ f.awaited = f.pending
    /\ f.kind = "root" => f.pending = {}
    /\ f.task = 0 => f.pending = {} /\ f.kind \in {"none", "root"}
    /\ f.pc = "named" => f.task < f.child
    /\ \A d \in Joins(f) : f.task < d

\* Each started task is on one stack.
FramesOK(F) ==
    /\ F \subseteq FrameType
    /\ \A f \in F : FrameOK(f)
    /\ \A f, e \in F : f.task = e.task => f = e

\* Who was spawned and not joined is joined by one task, and is in the map M of the
\* captured tasks, on a stack, or in the set R of those that have returned.
Live(F) == UNION {Joins(f) : f \in F}
OnStack(F) == {f.task : f \in F}

Joined(F, M, R) ==
    /\ \A f, e \in F : f # e => Joins(f) \cap Joins(e) = {}
    /\ \A f \in F : f.task # 0 => f.task \in Live(F)
    /\ Live(F) \subseteq M \cup R \cup OnStack(F)
    /\ M \subseteq Live(F)
    /\ OnStack(F) \cap (M \cup R) = {} /\ M \cap R = {}
    /\ \A f \in F : f.pc = "captured" => f.child \in M

\* The tasks that have a node, K, are the ones whose capture is done; n ids are drawn.
Captures(F, M, K, R, n) ==
    /\ n \in Nat /\ K \subseteq 0..n
    /\ OnStack(F) \cup Live(F) \cup M \cup R \subseteq K
    /\ \A f \in F : f.pc = "named" => f.child \in 1..n /\ f.child \notin K
    /\ \A f, e \in F : f.pc = "named" /\ e.pc = "named" /\ f.child = e.child => f = e

Control(F, M, K, R, n) == FramesOK(F) /\ Joined(F, M, R) /\ Captures(F, M, K, R, n)

\* A started task goes on, and joins the same tasks.
LEMMA ReplaceFrame ==
    ASSUME NEW F, NEW M, NEW K, NEW R, NEW n, Control(F, M, K, R, n),
           NEW old \in F, NEW f \in FrameType, f.task = old.task, FrameOK(f),
           Joins(f) = Joins(old), NEW m \in Nat, n <= m,
           f.pc = "named" => /\ f.child \in 1..m /\ f.child \notin K
                             /\ \A e \in F : e.pc = "named" => e.child # f.child,
           f.pc = "captured" => f.child \in M
    PROVE  Control((F \ {old}) \cup {f}, M, K, R, m)
<1> DEFINE F2 == (F \ {old}) \cup {f}
<1>1. \A e \in F2 : e = f \/ (e \in F /\ e # old)
  OBVIOUS
<1>2. \A e \in F : e = old \/ e \in F2
  OBVIOUS
<1>3. f \in F2
  OBVIOUS
<1> HIDE DEF F2
<1>4. FramesOK(F2)
  BY <1>1 DEF Control, FramesOK
<1>5. Live(F2) = Live(F)
  <2>1. \A d : d \in Live(F2) <=> \E e \in F2 : d \in Joins(e)
    BY DEF Live
  <2>2. \A d : d \in Live(F) <=> \E e \in F : d \in Joins(e)
    BY DEF Live
  <2> QED
    BY <2>1, <2>2, <1>1, <1>2, <1>3
<1>6. OnStack(F2) = OnStack(F)
  BY <1>1, <1>2, <1>3 DEF OnStack
<1>7. Joined(F2, M, R)
  <2>1. \A e, x \in F2 : e # x => Joins(e) \cap Joins(x) = {}
    BY <1>1 DEF Control, Joined
  <2>2. \A e \in F2 : e.task # 0 => e.task \in Live(F2)
    BY <1>1, <1>5 DEF Control, Joined
  <2>3. \A e \in F2 : e.pc = "captured" => e.child \in M
    BY <1>1 DEF Control, Joined
  <2> QED
    BY <1>5, <1>6, <2>1, <2>2, <2>3 DEF Control, Joined
<1>8. Captures(F2, M, K, R, m)
  <2>1. n \in Nat /\ 0..n \subseteq 0..m /\ 1..n \subseteq 1..m
    BY DEF Control, Captures
  <2>2. \A e \in F2 : e.pc = "named" => e.child \in 1..m /\ e.child \notin K
    BY <1>1, <2>1 DEF Control, Captures
  <2>3. \A e, x \in F2 : e.pc = "named" /\ x.pc = "named" /\ e.child = x.child => e = x
    BY <1>1 DEF Control, Captures
  <2> QED
    BY <1>5, <1>6, <2>1, <2>2, <2>3 DEF Control, Captures
<1> QED
  BY <1>4, <1>7, <1>8 DEF Control, F2

\* The named child gets its node and enters the map.
LEMMA CaptureFrame ==
    ASSUME NEW F, NEW M, NEW K, NEW R, NEW n, Control(F, M, K, R, n),
           NEW old \in F, old.pc = "named", NEW f \in FrameType,
           f.task = old.task, f.child = old.child, f.kind = old.kind,
           f.pending = old.pending, f.awaited = old.awaited, f.pc = "captured"
    PROVE  /\ Joins(f) = Joins(old) \cup {old.child}
           /\ old.child \notin Live(F)
           /\ Live((F \ {old}) \cup {f}) = Live(F) \cup {old.child}
           /\ Control((F \ {old}) \cup {f}, M \cup {old.child}, K \cup {old.child}, R, n)
<1> DEFINE F2 == (F \ {old}) \cup {f}
           c == old.child
<1>1. \A e \in F2 : e = f \/ (e \in F /\ e # old)
  OBVIOUS
<1>2. \A e \in F : e = old \/ e \in F2
  OBVIOUS
<1>3. f \in F2
  OBVIOUS
<1> HIDE DEF F2
<1>4. Joins(f) = Joins(old) \cup {c}
  BY DEF Joins
<1>5. /\ FrameOK(old) /\ c \in 1..n /\ c \notin K /\ n \in Nat /\ K \subseteq 0..n
      /\ OnStack(F) \cup Live(F) \cup M \cup R \subseteq K
  BY DEF Control, FramesOK, Captures
<1>6. FrameOK(f)
  BY <1>4, <1>5 DEF FrameOK
<1>7. FramesOK(F2)
  BY <1>1, <1>6 DEF Control, FramesOK
<1>8. Live(F2) = Live(F) \cup {c}
  <2>1. \A d : d \in Live(F2) <=> \E e \in F2 : d \in Joins(e)
    BY DEF Live
  <2>2. \A d : d \in Live(F) <=> \E e \in F : d \in Joins(e)
    BY DEF Live
  <2> QED
    BY <2>1, <2>2, <1>1, <1>2, <1>3, <1>4
<1>9. OnStack(F2) = OnStack(F)
  BY <1>1, <1>2, <1>3 DEF OnStack
<1>10. \A e \in F : c \notin Joins(e)
  BY <1>5 DEF Live
<1>11. Joined(F2, M \cup {c}, R)
  <2>1. \A e, x \in F2 : e # x => Joins(e) \cap Joins(x) = {}
    BY <1>1, <1>4, <1>10 DEF Control, Joined
  <2>2. \A e \in F2 : e.task # 0 => e.task \in Live(F2)
    BY <1>1, <1>8 DEF Control, Joined
  <2>3. \A e \in F2 : e.pc = "captured" => e.child \in M \cup {c}
    BY <1>1 DEF Control, Joined
  <2> QED
    BY <1>5, <1>8, <1>9, <2>1, <2>2, <2>3 DEF Control, Joined
<1>12. Captures(F2, M \cup {c}, K \cup {c}, R, n)
  <2>1. \A e \in F2 : e.pc = "named" => e.child \in 1..n /\ e.child \notin K \cup {c}
    <3> SUFFICES ASSUME NEW e \in F2, e.pc = "named"
                 PROVE  e.child \in 1..n /\ e.child \notin K \cup {c}
      OBVIOUS
    <3>1. e \in F /\ e # old
      BY <1>1
    <3> QED
      BY <3>1 DEF Control, Captures
  <2>2. \A e, x \in F2 : e.pc = "named" /\ x.pc = "named" /\ e.child = x.child => e = x
    BY <1>1 DEF Control, Captures
  <2>3. K \cup {c} \subseteq 0..n /\ n \in Nat
    <3>1. c \in 0..n /\ n \in Nat
      BY <1>5
    <3> QED
      BY <1>5, <3>1
  <2>4. OnStack(F2) \cup Live(F2) \cup (M \cup {c}) \cup R \subseteq K \cup {c}
    BY <1>5, <1>8, <1>9
  <2> QED
    BY <1>5, <2>1, <2>2, <2>3, <2>4 DEF Captures
<1> QED
  BY <1>4, <1>5, <1>7, <1>8, <1>11, <1>12 DEF Control, F2

\* A captured task starts.
LEMMA BeginFrame ==
    ASSUME NEW F, NEW M, NEW K, NEW R, NEW n, Control(F, M, K, R, n),
           NEW id \in M, id \in TaskIds, \A e \in F : e.pc = "captured" => e.child # id
    PROVE  /\ Joins(Frame(id)) = {} /\ ~Open(Frame(id)) /\ Frame(id) \in FrameType
           /\ Live(F \cup {Frame(id)}) = Live(F)
           /\ Control(F \cup {Frame(id)}, M \ {id}, K, R, n)
<1> DEFINE f == Frame(id)
           F2 == F \cup {f}
<1>1. \A e \in F2 : e = f \/ e \in F
  OBVIOUS
<1>2. F \subseteq F2 /\ f \in F2
  OBVIOUS
<1> HIDE DEF F2
<1>3. /\ f.task = id /\ f.pc = "run" /\ f.kind = "none" /\ f.child = 0
      /\ f.pending = {} /\ f.awaited = {}
  BY DEF Frame
<1>4. id # 0 /\ MaxTasks \in Nat /\ id \in 0..MaxTasks
  BY TaskAssumption
<1>5. f \in FrameType
  BY <1>4 DEF Frame, FrameType
<1> HIDE DEF f
<1>6. Joins(f) = {} /\ ~Open(f)
  BY <1>3 DEF Joins, Open
<1>7. FrameOK(f)
  BY <1>3, <1>4, <1>6 DEF FrameOK
<1>8. /\ id \in Live(F) /\ id \notin OnStack(F) /\ id \notin R /\ id \in K
  BY DEF Control, Joined, Captures
<1>9. \A e \in F : e.task # id
  BY <1>8 DEF OnStack
<1>10. FramesOK(F2)
  BY <1>1, <1>3, <1>5, <1>7, <1>9 DEF Control, FramesOK
<1>11. Live(F2) = Live(F)
  <2>1. \A d : d \in Live(F2) <=> \E e \in F2 : d \in Joins(e)
    BY DEF Live
  <2>2. \A d : d \in Live(F) <=> \E e \in F : d \in Joins(e)
    BY DEF Live
  <2> QED
    BY <2>1, <2>2, <1>1, <1>2, <1>6
<1>12. OnStack(F2) = OnStack(F) \cup {id}
  BY <1>1, <1>2, <1>3 DEF OnStack
<1>13. Joined(F2, M \ {id}, R)
  <2>1. \A e, x \in F2 : e # x => Joins(e) \cap Joins(x) = {}
    BY <1>1, <1>6 DEF Control, Joined
  <2>2. \A e \in F2 : e.task # 0 => e.task \in Live(F2)
    BY <1>1, <1>3, <1>8, <1>11 DEF Control, Joined
  <2>3. \A e \in F2 : e.pc = "captured" => e.child \in M \ {id}
    BY <1>1, <1>3 DEF Control, Joined
  <2> QED
    BY <1>8, <1>11, <1>12, <2>1, <2>2, <2>3 DEF Control, Joined
<1>14. Captures(F2, M \ {id}, K, R, n)
  <2>1. \A e \in F2 : e.pc = "named" => e \in F
    BY <1>1, <1>3
  <2> QED
    BY <1>8, <1>11, <1>12, <2>1 DEF Control, Captures
<1> QED
  BY <1>5, <1>6, <1>10, <1>11, <1>13, <1>14 DEF Control, F2, f

\* What a frame inherits is tasks to join; whether its phase is open stays as it was.
LEMMA InheritFrame ==
    ASSUME NEW f \in FrameType, NEW id, NEW left \in SUBSET TaskIds
    PROVE  LET e == Inherit(f, id, left) IN
           /\ e \in FrameType /\ e.task = f.task /\ e.pc = f.pc
           /\ e.kind = f.kind /\ e.child = f.child
           /\ e.pending = (IF id \in f.pending THEN f.pending \cup left ELSE f.pending)
           /\ e.awaited = (IF id \in f.awaited THEN f.awaited \cup left ELSE f.awaited)
           /\ f.pending = {} => e.pending = {}
           /\ f.awaited = {} => e.awaited = {}
           /\ Open(e) <=> Open(f)
           /\ RootCall(e) <=> RootCall(f)
<1> DEFINE p == IF id \in f.pending THEN f.pending \cup left ELSE f.pending
           a == IF id \in f.awaited THEN f.awaited \cup left ELSE f.awaited
           e == Inherit(f, id, left)
<1>1. e = [f EXCEPT !.pending = p, !.awaited = a]
  BY DEF Inherit
<1>2. p \in SUBSET TaskIds /\ a \in SUBSET TaskIds
  BY DEF FrameType
<1>3. (f.pending = {} <=> p = {}) /\ (f.awaited = {} <=> a = {})
  OBVIOUS
<1> HIDE DEF p, a, e
<1>4. /\ e \in FrameType /\ e.task = f.task /\ e.pc = f.pc /\ e.kind = f.kind
      /\ e.child = f.child /\ e.pending = p /\ e.awaited = a
  BY <1>1, <1>2 DEF FrameType
<1> QED
  BY <1>3, <1>4 DEF e, p, a, Open, RootCall

\* The started tasks after task old has returned.
Heirs(F, old) == {Inherit(e, old.task, old.pending) : e \in F \ {old}}

\* A task returns; who joins it joins what it leaves behind.
LEMMA EndFrame ==
    ASSUME NEW F, NEW M, NEW K, NEW R, NEW n, Control(F, M, K, R, n),
           NEW old \in F, old.pc = "run", old.task # 0
    PROVE  /\ Joins(old) = old.pending
           /\ \A e \in F \ {old} :
                 Joins(Inherit(e, old.task, old.pending)) =
                    IF old.task \in Joins(e) THEN Joins(e) \cup Joins(old) ELSE Joins(e)
           /\ Live(Heirs(F, old)) = Live(F)
           /\ Control(Heirs(F, old), M, K, R \cup {old.task}, n)
<1> DEFINE id == old.task
           left == old.pending
           heir(e) == Inherit(e, id, left)
           F2 == Heirs(F, old)
<1>1. /\ FrameOK(old) /\ old \in FrameType /\ left \in SUBSET TaskIds
      /\ id \in Live(F) /\ id \in OnStack(F) /\ id \notin M
  BY DEF Control, FramesOK, Joined, OnStack, FrameType
<1>2. Joins(old) = left /\ id \notin left
  <2>1. Joins(old) = left
    BY <1>1 DEF FrameOK, Joins
  <2>2. id \in Nat /\ \A d \in left : id < d
    BY <1>1, <2>1, TaskAssumption DEF FrameOK, FrameType
  <2> QED
    BY <2>1, <2>2
<1>3. ASSUME NEW e \in F
      PROVE  /\ e \in FrameType /\ FrameOK(e)
             /\ id \in Joins(e) => id \in e.pending \cup e.awaited
             /\ heir(e) \in FrameType /\ heir(e).task = e.task /\ heir(e).pc = e.pc
             /\ heir(e).kind = e.kind /\ heir(e).child = e.child
             /\ heir(e).pending = (IF id \in e.pending THEN e.pending \cup left ELSE e.pending)
             /\ heir(e).awaited = (IF id \in e.awaited THEN e.awaited \cup left ELSE e.awaited)
             /\ e.pending = {} => heir(e).pending = {}
             /\ e.awaited = {} => heir(e).awaited = {}
  <2>1. e \in FrameType /\ FrameOK(e) /\ (e.pc = "captured" => e.child # id)
    BY <1>1 DEF Control, FramesOK, Joined
  <2>2. id \in Joins(e) => id \in e.pending \cup e.awaited
    BY <2>1 DEF Joins
  <2> HIDE DEF id, left
  <2> QED
    BY <1>1, <2>1, <2>2, InheritFrame
<1> HIDE DEF heir
<1>4. ASSUME NEW e \in F
      PROVE  Joins(heir(e)) = IF id \in Joins(e) THEN Joins(e) \cup left ELSE Joins(e)
  <2> HIDE DEF id, left
  <2>1. CASE id \notin Joins(e)
    <3>1. id \notin e.pending /\ id \notin e.awaited
      BY <2>1 DEF Joins
    <3> QED
      BY <1>3, <2>1, <3>1 DEF Joins
  <2>2. CASE id \in Joins(e)
    BY <1>3, <2>2 DEF Joins
  <2> QED
    BY <2>1, <2>2
<1>5. /\ \A x \in F2 : \E e \in F : e # old /\ x = heir(e)
      /\ \A e \in F : e # old => heir(e) \in F2
  BY DEF Heirs, heir
<1> HIDE DEF F2, left
<1>6. ASSUME NEW e \in F, e # old
      PROVE  FrameOK(heir(e))
  <2>1. \A d \in Joins(heir(e)) : e.task < d
    <3>1. \A d \in Joins(e) : e.task < d
      BY <1>3 DEF FrameOK
    <3>2. \A d \in left : id < d
      BY <1>1, <1>2 DEF FrameOK
    <3>3. /\ e.task \in Nat /\ id \in Nat /\ \A d \in left : d \in Nat
      <4>1. e \in FrameType /\ MaxTasks \in Nat /\ TaskIds = 1..MaxTasks
        BY <1>3, TaskAssumption
      <4>2. e.task \in 0..MaxTasks /\ id \in 0..MaxTasks
        BY <1>1, <4>1 DEF FrameType
      <4> QED
        BY <1>1, <4>1, <4>2
    <3>4. id \in Joins(e) => \A d \in left : e.task < d
      BY <3>1, <3>2, <3>3
    <3> QED
      BY <1>4, <3>1, <3>4
  <2>2. /\ e.pending # {} => heir(e).pending # {}
        /\ e.pending = e.awaited => heir(e).pending = heir(e).awaited
    BY <1>3
  <2> QED
    BY <1>3, <2>1, <2>2 DEF FrameOK
<1>16. \A e \in F : heir(e).task = e.task /\ heir(e).pc = e.pc /\ heir(e).child = e.child
  BY <1>3
<1>7. FramesOK(F2)
  <2>1. \A f, e \in F : f.task = e.task => f = e
    BY DEF Control, FramesOK
  <2>2. \A x, y \in F2 : x.task = y.task => x = y
    BY <1>5, <1>16, <2>1
  <2>3. F2 \subseteq FrameType
    BY <1>3, <1>5
  <2> QED
    BY <1>5, <1>6, <2>2, <2>3 DEF FramesOK
<1>8. \A f, e \in F : f # e => Joins(f) \cap Joins(e) = {}
  BY DEF Control, Joined
<1>9. PICK u \in F : id \in Joins(u)
  BY <1>1 DEF Live
<1>10. u # old /\ Joins(heir(u)) = Joins(u) \cup left
       /\ \A e \in F : e # u => Joins(heir(e)) = Joins(e)
  BY <1>2, <1>4, <1>8, <1>9
<1>11. Live(F2) = Live(F)
  <2>1. \A d : d \in Live(F2) <=> \E e \in F : e # old /\ d \in Joins(heir(e))
    BY <1>5 DEF Live
  <2>2. \A d : d \in Live(F) <=> \E e \in F : d \in Joins(e)
    BY DEF Live
  <2>3. ASSUME NEW d
        PROVE  (\E e \in F : e # old /\ d \in Joins(heir(e))) <=> (\E e \in F : d \in Joins(e))
    BY <1>2, <1>9, <1>10
  <2> QED
    BY <2>1, <2>2, <2>3
<1>12. OnStack(F2) = OnStack(F) \ {id}
  <2>1. \A f, e \in F : f.task = e.task => f = e
    BY DEF Control, FramesOK
  <2>2. OnStack(F2) = {heir(e).task : e \in F \ {old}}
    BY <1>5 DEF OnStack
  <2>3. \A t : t \in OnStack(F2) <=> \E e \in F : e # old /\ t = e.task
    BY <1>16, <2>2
  <2>4. \A t : t \in OnStack(F) <=> \E e \in F : t = e.task
    BY DEF OnStack
  <2> QED
    BY <2>1, <2>3, <2>4
<1>13. Joined(F2, M, R \cup {id})
  <2>1. \A x, y \in F2 : x # y => Joins(x) \cap Joins(y) = {}
    <3> SUFFICES ASSUME NEW e \in F, NEW f \in F, e # old, f # old, heir(e) # heir(f)
                 PROVE  Joins(heir(e)) \cap Joins(heir(f)) = {}
      BY <1>5
    <3> QED
      BY <1>2, <1>8, <1>10
  <2>2. \A x \in F2 : x.task # 0 => x.task \in Live(F2)
    BY <1>5, <1>11, <1>16 DEF Control, Joined
  <2>3. \A x \in F2 : x.pc = "captured" => x.child \in M
    BY <1>5, <1>16 DEF Control, Joined
  <2> QED
    BY <1>1, <1>11, <1>12, <2>1, <2>2, <2>3 DEF Control, Joined
<1>14. Captures(F2, M, K, R \cup {id}, n)
  <2>1. \A x \in F2 : x.pc = "named" => x.child \in 1..n /\ x.child \notin K
    BY <1>5, <1>16 DEF Control, Captures
  <2>2. \A x, y \in F2 : x.pc = "named" /\ y.pc = "named" /\ x.child = y.child => x = y
    BY <1>5, <1>16 DEF Control, Captures
  <2>3. OnStack(F2) \cup Live(F2) \cup M \cup (R \cup {id}) \subseteq K
    BY <1>1, <1>11, <1>12 DEF Control, Captures
  <2> QED
    BY <2>1, <2>2, <2>3 DEF Control, Captures
<1>15. Control(F2, M, K, R \cup {id}, n)
  BY <1>7, <1>13, <1>14 DEF Control
<1> QED
  BY <1>2, <1>4, <1>11, <1>15 DEF F2, heir, left

\* A wait is over: everybody it joins has returned.
LEMMA JoinFrame ==
    ASSUME NEW F, NEW M, NEW K, NEW R, NEW n, Control(F, M, K, R, n),
           NEW old \in F, old.pc = "waiting", old.awaited \subseteq R,
           NEW f \in FrameType, f.task = old.task, f.pc = "run", f.kind = "none",
           f.pending = {}, f.awaited = {}
    PROVE  /\ Joins(f) = {} /\ Joins(old) = old.awaited
           /\ Live((F \ {old}) \cup {f}) = Live(F) \ Joins(old)
           /\ Control((F \ {old}) \cup {f}, M, K, R, n)
<1> DEFINE F2 == (F \ {old}) \cup {f}
<1>1. \A e \in F2 : e = f \/ (e \in F /\ e # old)
  OBVIOUS
<1>2. \A e \in F : e = old \/ e \in F2
  OBVIOUS
<1>3. f \in F2
  OBVIOUS
<1> HIDE DEF F2
<1>4. FrameOK(old) /\ M \cap R = {} /\ OnStack(F) \cap (M \cup R) = {}
  BY DEF Control, FramesOK, Joined
<1>5. Joins(f) = {} /\ Joins(old) = old.awaited
  BY <1>4 DEF FrameOK, Joins
<1>6. FrameOK(f)
  BY <1>5 DEF FrameOK
<1>7. FramesOK(F2)
  BY <1>1, <1>6 DEF Control, FramesOK
<1>8. \A e, x \in F : e # x => Joins(e) \cap Joins(x) = {}
  BY DEF Control, Joined
<1>9. Live(F2) = Live(F) \ Joins(old)
  <2>1. \A d : d \in Live(F2) <=> \E e \in F2 : d \in Joins(e)
    BY DEF Live
  <2>2. \A d : d \in Live(F) <=> \E e \in F : d \in Joins(e)
    BY DEF Live
  <2>3. ASSUME NEW d, d \in Live(F2)
        PROVE  d \in Live(F) /\ d \notin Joins(old)
    BY <2>1, <2>2, <2>3, <1>1, <1>5, <1>8
  <2>4. ASSUME NEW d, d \in Live(F), d \notin Joins(old)
        PROVE  d \in Live(F2)
    BY <2>1, <2>2, <2>4, <1>2
  <2> QED
    BY <2>3, <2>4
<1>10. OnStack(F2) = OnStack(F)
  BY <1>1, <1>2, <1>3 DEF OnStack
<1>11. Joined(F2, M, R)
  <2>1. \A e, x \in F2 : e # x => Joins(e) \cap Joins(x) = {}
    BY <1>1, <1>5, <1>8
  <2>2. \A e \in F2 : e.task # 0 => e.task \in Live(F2)
    <3> SUFFICES ASSUME NEW e \in F2, e.task # 0
                 PROVE  e.task \in Live(F2)
      OBVIOUS
    <3>1. e.task \in OnStack(F) /\ e.task \in Live(F)
      BY <1>1, <1>10 DEF OnStack, Control, Joined
    <3>2. e.task \notin Joins(old)
      BY <1>4, <1>5, <3>1
    <3> QED
      BY <1>9, <3>1, <3>2
  <2>3. \A e \in F2 : e.pc = "captured" => e.child \in M
    BY <1>1 DEF Control, Joined
  <2>4. M \subseteq Live(F2)
    BY <1>4, <1>5, <1>9 DEF Control, Joined
  <2> QED
    BY <1>9, <1>10, <2>1, <2>2, <2>3, <2>4 DEF Control, Joined
<1>12. Captures(F2, M, K, R, n)
  <2>1. \A e \in F2 : e.pc = "named" => e \in F
    BY <1>1
  <2> QED
    BY <1>9, <1>10, <2>1 DEF Control, Captures
<1> QED
  BY <1>5, <1>7, <1>9, <1>11, <1>12 DEF Control, F2

-----------------------------------------------------------------------------
(* The stacks of frames *)

Started(fr) == UNION {{fr[th][i] : i \in 1..Len(fr[th])} : th \in Threads}

\* A task is started once, and only the innermost task of a thread runs.
Stacks(fr) ==
    /\ fr \in [Threads -> Seq(FrameType)]
    /\ Len(fr[MainThread]) > 0
    /\ \A th \in Threads : \A i \in 1..Len(fr[th]) :
          /\ fr[th][i].task = 0 <=> th = MainThread /\ i = 1
          /\ i < Len(fr[th]) => fr[th][i].pc = "waiting"
    /\ \A t, u \in Threads : \A i \in 1..Len(fr[t]), j \in 1..Len(fr[u]) :
          fr[t][i].task = fr[u][j].task => t = u /\ i = j

\* The started tasks are those of the frames, at any depth of any stack.
LEMMA StartedIs ==
    ASSUME NEW fr
    PROVE  \A f : f \in Started(fr) <=>
                     \E th \in Threads : \E i \in 1..Len(fr[th]) : f = fr[th][i]
BY DEF Started

\* The top frame of a thread changes, and stays the frame of its task.
LEMMA TopStarted ==
    ASSUME Stacks(frames), NEW th \in Threads, frames[th] # <<>>,
           NEW f \in FrameType, f.task = Top(frames[th]).task, frames' = SetTop(th, f)
    PROVE  LET old == Top(frames[th]) IN
           /\ old \in Started(frames)
           /\ Started(frames') = (Started(frames) \ {old}) \cup {f}
           /\ Stacks(frames')
<1> DEFINE n == Len(frames[th])
           old == Top(frames[th])
<1>1. frames \in [Threads -> Seq(FrameType)]
  BY DEF Stacks
<1>2. /\ frames' \in [Threads -> Seq(FrameType)]
      /\ n \in 1..n
      /\ \A t \in Threads :
            /\ Len(frames'[t]) = Len(frames[t])
            /\ \A i \in 1..Len(frames[t]) :
                  /\ t = th /\ i = n => frames'[t][i] = f
                  /\ ~(t = th /\ i = n) => frames'[t][i] = frames[t][i]
  BY <1>1, SetTopFrames
<1>3. old = frames[th][n] /\ n \in 1..Len(frames[th])
  BY <1>2 DEF Top
<1> HIDE DEF n, old
<1>4. old \in Started(frames)
  BY <1>3, StartedIs
<1>5. ASSUME NEW e
      PROVE  e \in Started(frames') <=> (e \in Started(frames) /\ e # old) \/ e = f
  <2>1. ASSUME e \in Started(frames')
        PROVE  (e \in Started(frames) /\ e # old) \/ e = f
    <3>0. PICK t \in Threads : \E i \in 1..Len(frames'[t]) : e = frames'[t][i]
      BY <2>1, StartedIs
    <3>1. PICK i \in 1..Len(frames'[t]) : e = frames'[t][i]
      BY <3>0
    <3>2. CASE t = th /\ i = n
      BY <3>1, <3>2, <1>2
    <3>3. CASE ~(t = th /\ i = n)
      <4>1. i \in 1..Len(frames[t]) /\ e = frames[t][i]
        BY <3>1, <3>3, <1>2
      <4>2. e # old
        BY <4>1, <3>3, <1>3 DEF Stacks
      <4> QED
        BY <4>1, <4>2, StartedIs
    <3> QED
      BY <3>2, <3>3
  <2>2. ASSUME e \in Started(frames), e # old
        PROVE  e \in Started(frames')
    <3>0. PICK t \in Threads : \E i \in 1..Len(frames[t]) : e = frames[t][i]
      BY <2>2, StartedIs
    <3>1. PICK i \in 1..Len(frames[t]) : e = frames[t][i]
      BY <3>0
    <3>2. ~(t = th /\ i = n)
      BY <3>1, <2>2, <1>3
    <3>3. i \in 1..Len(frames'[t]) /\ e = frames'[t][i]
      BY <3>1, <3>2, <1>2
    <3> QED
      BY <3>3, StartedIs
  <2>3. ASSUME e = f
        PROVE  e \in Started(frames')
    <3>1. n \in 1..Len(frames'[th]) /\ e = frames'[th][n]
      BY <2>3, <1>2, <1>3
    <3> QED
      BY <3>1, StartedIs
  <2> QED
    BY <2>1, <2>2, <2>3
<1>6. Started(frames') = (Started(frames) \ {old}) \cup {f}
  BY <1>5
<1>7. f.task = old.task
  BY DEF old
<1>8. \A t \in Threads : \A i \in 1..Len(frames'[t]) :
         /\ i \in 1..Len(frames[t]) /\ frames'[t][i].task = frames[t][i].task
         /\ i < Len(frames[t]) => frames'[t][i] = frames[t][i]
  <2> SUFFICES ASSUME NEW t \in Threads, NEW i \in 1..Len(frames'[t])
               PROVE  /\ i \in 1..Len(frames[t]) /\ frames'[t][i].task = frames[t][i].task
                      /\ i < Len(frames[t]) => frames'[t][i] = frames[t][i]
    OBVIOUS
  <2>1. CASE t = th /\ i = n
    BY <2>1, <1>2, <1>3, <1>7 DEF n
  <2>2. CASE ~(t = th /\ i = n)
    BY <2>2, <1>2
  <2> QED
    BY <2>1, <2>2
<1>9. Stacks(frames')
  <2>1. Len(frames'[MainThread]) > 0
    BY <1>2, GraphAssumption DEF Stacks
  <2>2. \A t \in Threads : \A i \in 1..Len(frames'[t]) :
           /\ frames'[t][i].task = 0 <=> t = MainThread /\ i = 1
           /\ i < Len(frames'[t]) => frames'[t][i].pc = "waiting"
    BY <1>2, <1>8 DEF Stacks
  <2>3. \A t, u \in Threads : \A i \in 1..Len(frames'[t]), j \in 1..Len(frames'[u]) :
           frames'[t][i].task = frames'[u][j].task => t = u /\ i = j
    BY <1>8 DEF Stacks
  <2> QED
    BY <1>2, <2>1, <2>2, <2>3 DEF Stacks
<1> QED
  BY <1>4, <1>6, <1>9 DEF old

\* A task starts on a thread that is idle.
LEMMA PushStarted ==
    ASSUME Stacks(frames), NEW th \in Threads, Idle(th), NEW id \in TaskIds,
           \A f \in Started(frames) : f.task # id, Frame(id) \in FrameType,
           frames' = [frames EXCEPT ![th] = Append(@, Frame(id))]
    PROVE  /\ Started(frames') = Started(frames) \cup {Frame(id)}
           /\ Stacks(frames')
           /\ \A t \in Threads : t # th => frames'[t] = frames[t]
           /\ Len(frames'[th]) = Len(frames[th]) + 1
           /\ frames'[th][Len(frames[th]) + 1] = Frame(id)
           /\ \A i \in 1..Len(frames[th]) : frames'[th][i] = frames[th][i]
<1> DEFINE n == Len(frames[th])
           f == Frame(id)
<1>1. frames \in [Threads -> Seq(FrameType)]
  BY DEF Stacks
<1>2. f.task = id /\ id # 0
  BY TaskAssumption DEF Frame
<1> HIDE DEF f
<1>3. /\ frames' \in [Threads -> Seq(FrameType)]
      /\ \A t \in Threads : t # th => frames'[t] = frames[t]
      /\ Len(frames'[th]) = n + 1 /\ n \in Nat
      /\ frames'[th][n + 1] = f
      /\ \A i \in 1..n : frames'[th][i] = frames[th][i]
  BY <1>1 DEF f
<1>4. n # 0 => frames[th][n].pc = "waiting"
  BY <1>1, <1>3 DEF Idle, Top
<1> HIDE DEF n
<1>5. \A t \in Threads : \A i \in 1..Len(frames'[t]) :
         \/ t = th /\ i = n + 1 /\ frames'[t][i] = f
         \/ i \in 1..Len(frames[t]) /\ frames'[t][i] = frames[t][i] /\ ~(t = th /\ i = n + 1)
  <2> SUFFICES ASSUME NEW t \in Threads, NEW i \in 1..Len(frames'[t])
               PROVE  \/ t = th /\ i = n + 1 /\ frames'[t][i] = f
                      \/ /\ i \in 1..Len(frames[t]) /\ frames'[t][i] = frames[t][i]
                         /\ ~(t = th /\ i = n + 1)
    OBVIOUS
  <2>1. CASE t = th
    BY <2>1, <1>3 DEF n
  <2>2. CASE t # th
    BY <2>2, <1>3
  <2> QED
    BY <2>1, <2>2
<1>6. \A t \in Threads : \A i \in 1..Len(frames[t]) :
         i \in 1..Len(frames'[t]) /\ frames'[t][i] = frames[t][i]
  <2> SUFFICES ASSUME NEW t \in Threads, NEW i \in 1..Len(frames[t])
               PROVE  i \in 1..Len(frames'[t]) /\ frames'[t][i] = frames[t][i]
    OBVIOUS
  <2>1. CASE t = th
    BY <2>1, <1>3 DEF n
  <2>2. CASE t # th
    BY <2>2, <1>3
  <2> QED
    BY <2>1, <2>2
<1>7. n + 1 \in 1..Len(frames'[th])
  BY <1>3
<1>8. ASSUME NEW e
      PROVE  e \in Started(frames') <=> e \in Started(frames) \/ e = f
  <2>1. ASSUME e \in Started(frames')
        PROVE  e \in Started(frames) \/ e = f
    <3>1. PICK t \in Threads : \E i \in 1..Len(frames'[t]) : e = frames'[t][i]
      BY <2>1 DEF Started
    <3>2. PICK i \in 1..Len(frames'[t]) : e = frames'[t][i]
      BY <3>1
    <3> QED
      BY <3>2, <1>5, StartedIs
  <2>2. ASSUME e \in Started(frames)
        PROVE  e \in Started(frames')
    <3>1. PICK t \in Threads : \E i \in 1..Len(frames[t]) : e = frames[t][i]
      BY <2>2 DEF Started
    <3>2. PICK i \in 1..Len(frames[t]) : e = frames[t][i]
      BY <3>1
    <3> QED
      BY <3>2, <1>6, StartedIs
  <2>3. f \in Started(frames')
    BY <1>3, <1>7, StartedIs
  <2> QED
    BY <2>1, <2>2, <2>3
<1>9. Started(frames') = Started(frames) \cup {f}
  BY <1>8
<1>10. \A t \in Threads : \A i \in 1..Len(frames[t]) : frames[t][i].task # id
  BY StartedIs
<1>11. Stacks(frames')
  <2>1. Len(frames'[MainThread]) > 0
    <3>1. 1 \in 1..Len(frames[MainThread])
      BY <1>1, GraphAssumption DEF Stacks
    <3>2. 1 \in 1..Len(frames'[MainThread])
      BY <3>1, <1>6, GraphAssumption
    <3> QED
      BY <3>2, <1>3, GraphAssumption
  <2>2. ASSUME NEW t \in Threads, NEW i \in 1..Len(frames'[t])
        PROVE  /\ frames'[t][i].task = 0 <=> t = MainThread /\ i = 1
               /\ i < Len(frames'[t]) => frames'[t][i].pc = "waiting"
    <3>1. CASE t = th /\ i = n + 1 /\ frames'[t][i] = f
      <4>1. ~(t = MainThread /\ i = 1)
        BY <3>1, <1>3 DEF Stacks, n
      <4> QED
        BY <3>1, <4>1, <1>2, <1>3
    <3>2. CASE i \in 1..Len(frames[t]) /\ frames'[t][i] = frames[t][i]
      <4>1. frames'[t][i].task = 0 <=> t = MainThread /\ i = 1
        BY <3>2 DEF Stacks
      <4>2. CASE i < Len(frames[t])
        BY <3>2, <4>1, <4>2 DEF Stacks
      <4>3. CASE ~(i < Len(frames[t]))
        <5>1. Len(frames[t]) \in Nat /\ i = Len(frames[t])
          BY <1>1, <3>2, <4>3
        <5>2. CASE t = th
          BY <3>2, <4>1, <5>1, <5>2, <1>4 DEF n
        <5>3. CASE t # th
          BY <3>2, <4>1, <5>1, <5>3, <1>3
        <5> QED
          BY <5>2, <5>3
      <4> QED
        BY <4>2, <4>3
    <3> QED
      BY <3>1, <3>2, <1>5
  <2>3. ASSUME NEW t \in Threads, NEW u \in Threads, NEW i \in 1..Len(frames'[t]),
               NEW j \in 1..Len(frames'[u]), frames'[t][i].task = frames'[u][j].task
        PROVE  t = u /\ i = j
    <3>1. \/ t = th /\ i = n + 1 /\ frames'[t][i] = f
          \/ i \in 1..Len(frames[t]) /\ frames'[t][i] = frames[t][i]
      BY <1>5
    <3>2. \/ u = th /\ j = n + 1 /\ frames'[u][j] = f
          \/ j \in 1..Len(frames[u]) /\ frames'[u][j] = frames[u][j]
      BY <1>5
    <3> QED
      BY <3>1, <3>2, <2>3, <1>2, <1>10 DEF Stacks
  <2> QED
    BY <1>3, <2>1, <2>2, <2>3 DEF Stacks
<1> QED
  BY <1>3, <1>9, <1>11 DEF n, f

\* A task ends: what is below it on its stack stays, and inherits.
Remaining(fr, th, t) == IF t = th THEN Len(fr[t]) - 1 ELSE Len(fr[t])

\* The frames after a return, position by position.
LEMMA PoppedFrames ==
    ASSUME frames \in [Threads -> Seq(FrameType)], NEW th \in Threads, frames[th] # <<>>,
           NEW id, NEW left \in SUBSET TaskIds,
           frames' = [t \in Threads |->
              LET s == IF t = th THEN Pop(frames[t]) ELSE frames[t] IN
              [i \in DOMAIN s |-> Inherit(s[i], id, left)]]
    PROVE  /\ frames' \in [Threads -> Seq(FrameType)]
           /\ \A t \in Threads :
                 /\ Len(frames'[t]) = Remaining(frames, th, t)
                 /\ Remaining(frames, th, t) \in Nat
                 /\ \A i \in 1..Remaining(frames, th, t) :
                       /\ i \in 1..Len(frames[t])
                       /\ frames'[t][i] = Inherit(frames[t][i], id, left)
<1> DEFINE n == Len(frames[th])
           heir(e) == Inherit(e, id, left)
           kept(t) == Remaining(frames, th, t)
           g(t) == IF t = th THEN Pop(frames[t]) ELSE frames[t]
<1>1. n \in Nat /\ n > 0
  <2>1. frames[th] \in Seq(FrameType)
    OBVIOUS
  <2> QED
    BY <2>1
<1>2. frames' = [t \in Threads |-> [i \in DOMAIN g(t) |-> heir(g(t)[i])]]
  OBVIOUS
<1>3. ASSUME NEW t \in Threads
      PROVE  /\ g(t) \in Seq(FrameType) /\ Len(g(t)) = kept(t) /\ kept(t) \in Nat
             /\ \A i \in 1..kept(t) : i \in 1..Len(frames[t]) /\ g(t)[i] = frames[t][i]
  <2>1. CASE t # th
    BY <2>1 DEF Remaining
  <2>2. CASE t = th
    <3> DEFINE s == frames[th]
               m == n - 1
    <3>1. /\ m \in Nat /\ s \in Seq(FrameType) /\ m + 1 = Len(s)
          /\ \A i \in 1..m : s[i] \in FrameType /\ i \in 1..Len(s)
      BY <1>1
    <3>2. g(t) = SubSeq(s, 1, m) /\ kept(t) = m
      BY <2>2 DEF Pop, Remaining
    <3> HIDE DEF m, g, kept
    <3>3. 1 \in Int /\ m \in Int
      BY <3>1
    <3>4. SubSeq(s, 1, m) \in Seq(FrameType)
      BY <3>1, <3>3, SubSeqProperties, SMT
    <3>5. Len(SubSeq(s, 1, m)) = m /\ \A i \in 1..m : SubSeq(s, 1, m)[i] = s[i]
      BY <3>1, <3>3
    <3> QED
      BY <2>2, <3>1, <3>2, <3>4, <3>5
  <2> QED
    BY <2>1, <2>2
<1> HIDE DEF g
<1>4. \A e \in FrameType : heir(e) \in FrameType
  BY InheritFrame
<1> HIDE DEF heir, kept
<1>5. ASSUME NEW t \in Threads
      PROVE  /\ frames'[t] \in Seq(FrameType) /\ Len(frames'[t]) = kept(t)
             /\ \A i \in 1..kept(t) :
                   i \in 1..Len(frames[t]) /\ frames'[t][i] = heir(frames[t][i])
  <2> DEFINE s == g(t)
             h == [i \in DOMAIN s |-> heir(s[i])]
             k == kept(t)
  <2>1. frames'[t] = h
    BY <1>2
  <2>2. /\ s \in Seq(FrameType) /\ DOMAIN s = 1..k /\ k \in Nat
        /\ \A i \in 1..k : i \in 1..Len(frames[t]) /\ s[i] = frames[t][i] /\ s[i] \in FrameType
    BY <1>3
  <2> HIDE DEF s, k
  <2>3. h \in [1..k -> FrameType] /\ \A i \in 1..k : h[i] = heir(s[i])
    BY <2>2, <1>4
  <2> HIDE DEF h
  <2>4. h \in Seq(FrameType) /\ Len(h) = k
    BY <2>2, <2>3
  <2> QED
    BY <2>1, <2>2, <2>3, <2>4 DEF k
<1>6. frames' \in [Threads -> Seq(FrameType)]
  <2>1. frames' = [t \in Threads |-> frames'[t]]
    BY <1>2, Zenon
  <2> QED
    BY <1>5, <2>1
<1> QED
  BY <1>3, <1>5, <1>6 DEF heir, kept

\* To inherit changes neither the task of a frame nor where it is in its calls.
LEMMA InheritTask ==
    ASSUME NEW f \in FrameType, NEW id, NEW left \in SUBSET TaskIds
    PROVE  Inherit(f, id, left).task = f.task /\ Inherit(f, id, left).pc = f.pc
<1> DEFINE p == IF id \in f.pending THEN f.pending \cup left ELSE f.pending
           a == IF id \in f.awaited THEN f.awaited \cup left ELSE f.awaited
<1>1. Inherit(f, id, left) = [f EXCEPT !.pending = p, !.awaited = a]
  BY DEF Inherit
<1> HIDE DEF p, a
<1> QED
  BY <1>1 DEF FrameType

\* The started tasks after a return are the heirs of the one that returned.
LEMMA PopStarted ==
    ASSUME NEW fr, NEW gr, Stacks(fr), NEW th \in Threads, fr[th] # <<>>,
           Top(fr[th]).task # 0, gr \in [Threads -> Seq(FrameType)],
           NEW id, NEW left \in SUBSET TaskIds,
           \A t \in Threads :
              /\ Len(gr[t]) = Remaining(fr, th, t)
              /\ Remaining(fr, th, t) \in Nat
              /\ \A i \in 1..Remaining(fr, th, t) :
                    i \in 1..Len(fr[t]) /\ gr[t][i] = Inherit(fr[t][i], id, left)
    PROVE  LET old == Top(fr[th])
               heir(e) == Inherit(e, id, left)
           IN
           /\ old \in Started(fr)
           /\ Started(gr) = {heir(e) : e \in Started(fr) \ {old}}
           /\ Stacks(gr)
<1> DEFINE n == Len(fr[th])
           old == Top(fr[th])
           heir(e) == Inherit(e, id, left)
           kept(t) == Remaining(fr, th, t)
<1>0. ASSUME NEW e \in FrameType
      PROVE  heir(e).task = e.task /\ heir(e).pc = e.pc
  BY InheritTask, Zenon
<1>13. \A t \in Threads : \A i \in 1..kept(t) : gr[t][i] = heir(fr[t][i])
  OBVIOUS
<1> HIDE DEF heir
<1>1. fr \in [Threads -> Seq(FrameType)]
  BY DEF Stacks
<1>2. n \in Nat /\ n > 0 /\ n \in 1..Len(fr[th]) /\ old = fr[th][n]
  <2>1. fr[th] \in Seq(FrameType)
    BY <1>1
  <2> QED
    BY <1>1, <2>1 DEF Top
<1> HIDE DEF n, old
<1>3. old \in Started(fr)
  BY <1>2, StartedIs
<1>4. \A t \in Threads : \A i \in 1..kept(t) : fr[t][i] # old
  <2> SUFFICES ASSUME NEW t \in Threads, NEW i \in 1..kept(t), fr[t][i] = old
               PROVE  FALSE
    OBVIOUS
  <2>1. t = th /\ i = n
    BY <1>2 DEF Stacks
  <2> QED
    BY <2>1, <1>2 DEF n, Remaining
<1>5. \A t \in Threads : \A i \in 1..Len(fr[t]) : fr[t][i] # old => i \in 1..kept(t)
  <2> SUFFICES ASSUME NEW t \in Threads, NEW i \in 1..Len(fr[t]), fr[t][i] # old
               PROVE  i \in 1..kept(t)
    OBVIOUS
  <2>1. ~(t = th /\ i = n)
    BY <1>2
  <2> QED
    BY <2>1, <1>1, <1>2 DEF n, Remaining
<1>6. ASSUME NEW x
      PROVE  x \in Started(gr) <=> \E e \in Started(fr) \ {old} : x = heir(e)
  <2>1. ASSUME x \in Started(gr)
        PROVE  \E e \in Started(fr) \ {old} : x = heir(e)
    <3>0. PICK t \in Threads : \E i \in 1..Len(gr[t]) : x = gr[t][i]
      BY <2>1 DEF Started
    <3>1. PICK i \in 1..Len(gr[t]) : x = gr[t][i]
      BY <3>0
    <3>2. i \in 1..kept(t) /\ i \in 1..Len(fr[t]) /\ x = heir(fr[t][i])
      BY <3>1, <1>13
    <3>3. fr[t][i] # old
      BY <3>2, <1>4
    <3>4. fr[t][i] \in Started(fr)
      BY <3>2, StartedIs
    <3> QED
      BY <3>2, <3>3, <3>4
  <2>2. ASSUME NEW e \in Started(fr) \ {old}, x = heir(e)
        PROVE  x \in Started(gr)
    <3>0. PICK t \in Threads : \E i \in 1..Len(fr[t]) : e = fr[t][i]
      BY DEF Started
    <3>1. PICK i \in 1..Len(fr[t]) : e = fr[t][i]
      BY <3>0
    <3>2. i \in 1..kept(t)
      BY <3>1, <1>5
    <3>3. i \in 1..Len(gr[t]) /\ x = gr[t][i]
      BY <2>2, <3>1, <3>2, <1>13
    <3> QED
      BY <3>3 DEF Started
  <2> QED
    BY <2>1, <2>2
<1>7. Started(gr) = {heir(e) : e \in Started(fr) \ {old}}
  BY <1>6
<1>8. ASSUME NEW t \in Threads, NEW i \in 1..Len(gr[t])
      PROVE  /\ i \in 1..Len(fr[t]) /\ gr[t][i].task = fr[t][i].task
             /\ gr[t][i].pc = fr[t][i].pc
             /\ i < Len(gr[t]) => i < Len(fr[t])
  <2>1. i \in 1..Len(fr[t]) /\ gr[t][i] = heir(fr[t][i])
    BY <1>13
  <2>2. fr[t][i] \in FrameType
    BY <1>1, <2>1
  <2>3. Len(gr[t]) = Len(fr[t]) \/ Len(gr[t]) = Len(fr[t]) - 1
    BY DEF Remaining
  <2>4. Len(gr[t]) \in Nat /\ Len(fr[t]) \in Nat
    BY <1>1
  <2> QED
    BY <2>1, <2>2, <2>3, <2>4, <1>0
<1>9. Len(gr[MainThread]) > 0
  <2>1. MainThread \in Threads /\ fr[MainThread] \in Seq(FrameType)
    BY <1>1, GraphAssumption
  <2>2. Len(fr[MainThread]) \in Nat /\ Len(fr[MainThread]) > 0
    BY <2>1 DEF Stacks
  <2>3. CASE MainThread # th
    BY <2>1, <2>2, <2>3 DEF Remaining
  <2>4. CASE MainThread = th
    <3>1. n # 1
      BY <2>4, <1>2 DEF Stacks, old
    <3>2. Len(gr[MainThread]) = n - 1
      BY <2>1, <2>4 DEF Remaining, n
    <3> QED
      BY <3>1, <3>2, <1>2
  <2> QED
    BY <2>3, <2>4
<1>10. ASSUME NEW t \in Threads, NEW i \in 1..Len(gr[t])
       PROVE  /\ gr[t][i].task = 0 <=> t = MainThread /\ i = 1
              /\ i < Len(gr[t]) => gr[t][i].pc = "waiting"
  BY <1>8 DEF Stacks
<1>11. ASSUME NEW t \in Threads, NEW u \in Threads, NEW i \in 1..Len(gr[t]),
              NEW j \in 1..Len(gr[u]), gr[t][i].task = gr[u][j].task
       PROVE  t = u /\ i = j
  <2>1. /\ i \in 1..Len(fr[t]) /\ j \in 1..Len(fr[u])
        /\ fr[t][i].task = fr[u][j].task
    BY <1>8, <1>11
  <2> QED
    BY <2>1 DEF Stacks
<1>12. Stacks(gr)
  BY <1>9, <1>10, <1>11 DEF Stacks
<1> QED
  BY <1>3, <1>7, <1>12 DEF old, heir

-----------------------------------------------------------------------------
(* The stacks of nodes *)

\* A started task holds its node and, while its spawn phase is open, the phase, in
\* which it then runs.
Height(f) == IF Open(f) THEN 2 ELSE 1

Holds(g, f, c, k) ==
    /\ OwnNode(g, c[k + 1], f.task)
    /\ Open(f) => /\ c[k + 2] \in Nodes(g) /\ IsPhase(g, c[k + 2])
                  /\ g[c[k + 2]].taskId = f.task
                  /\ g[c[k + 2]].parent = c[k + 1]
    /\ f.task # 0 => IsLast(g, f.task, g[c[k + Height(f)]].cur_step)

\* The frames s of a thread hold its nodes c; those of frame i are above position L[i].
Laid(g, s, c, L) ==
    /\ L \in [1..(Len(s) + 1) -> Nat]
    /\ L[1] = 0 /\ L[Len(s) + 1] = Len(c)
    /\ \A i \in 1..Len(s) : L[i + 1] = L[i] + Height(s[i]) /\ Holds(g, s[i], c, L[i])
    /\ \A i, j \in 1..(Len(s) + 1) : i <= j => L[i] <= L[j]

Layouts(g, fr, cu) == \A th \in Threads : \E L : Laid(g, fr[th], cu[th], L)

\* What a task holds does not change while other tasks grow the tree.
LEMMA HoldsOn ==
    ASSUME NEW g, NEW h, NEW f, NEW e, NEW c, NEW d, NEW k \in Nat, Holds(g, f, c, k),
           f.task = 0 \/ GrowsBeside(g, h, f.task),
           \A n \in Nodes(g) :
              /\ n \in Nodes(h) /\ h[n].taskId = g[n].taskId /\ h[n].parent = g[n].parent
              /\ IsTask(h, n) <=> IsTask(g, n)
              /\ IsPhase(h, n) <=> IsPhase(g, n),
           e.task = f.task, Open(e) <=> Open(f),
           \A i \in 1..(k + Height(f)) : d[i] = c[i]
    PROVE  Holds(h, e, d, k)
<1>1. Height(e) = Height(f) /\ Height(f) \in {1, 2} /\ (Open(f) <=> Height(f) = 2)
  BY DEF Height
<1>2. d[k + 1] = c[k + 1] /\ (Open(f) => d[k + 2] = c[k + 2])
      /\ d[k + Height(f)] = c[k + Height(f)]
  BY <1>1
<1>3. OwnNode(h, c[k + 1], f.task)
  BY DEF Holds, OwnNode
<1>4. Open(f) => /\ c[k + 2] \in Nodes(h) /\ IsPhase(h, c[k + 2])
                 /\ h[c[k + 2]].taskId = f.task
                 /\ h[c[k + 2]].parent = c[k + 1]
  BY DEF Holds
<1>5. ASSUME f.task # 0
      PROVE  IsLast(h, f.task, h[c[k + Height(f)]].cur_step)
  <2> DEFINE x == c[k + Height(f)]
  <2>1. x \in Nodes(g) /\ g[x].taskId = f.task
    BY <1>1 DEF Holds, OwnNode
  <2>2. IsLast(g, f.task, g[x].cur_step)
    BY <1>5 DEF Holds
  <2> HIDE DEF x
  <2>3. h[x].cur_step = g[x].cur_step
    BY <1>5, <2>1 DEF GrowsBeside
  <2>4. IsLast(h, f.task, h[x].cur_step)
    BY <1>5, <2>2, <2>3, LastStays
  <2> QED
    BY <2>4 DEF x
<1> QED
  BY <1>1, <1>2, <1>3, <1>4, <1>5 DEF Holds

\* h keeps the nodes of g.
Keeps(g, h) ==
    \A n \in Nodes(g) :
       /\ n \in Nodes(h) /\ h[n].taskId = g[n].taskId /\ h[n].parent = g[n].parent
       /\ IsTask(h, n) <=> IsTask(g, n)
       /\ IsPhase(h, n) <=> IsPhase(g, n)

\* The first m frames stay, and at most one follows them.
LEMMA LaidUpTo ==
    ASSUME NEW g, NEW h, Keeps(g, h), NEW s, NEW c, NEW L, Laid(g, s, c, L),
           Len(s) \in Nat, NEW m \in Nat, m <= Len(s),
           NEW s2, Len(s2) = m \/ Len(s2) = m + 1, NEW d,
           \A i \in 1..m : /\ s2[i].task = s[i].task /\ (Open(s2[i]) <=> Open(s[i]))
                           /\ s[i].task = 0 \/ GrowsBeside(g, h, s[i].task),
           \A i \in 1..L[m + 1] : d[i] = c[i],
           Len(s2) = m => Len(d) = L[m + 1],
           Len(s2) = m + 1 => /\ Len(d) = L[m + 1] + Height(s2[m + 1])
                              /\ Holds(h, s2[m + 1], d, L[m + 1])
    PROVE  \E M : Laid(h, s2, d, M)
<1> DEFINE M == [i \in 1..(Len(s2) + 1) |->
                    IF i <= m + 1 THEN L[i] ELSE L[m + 1] + Height(s2[m + 1])]
<1>1. /\ L \in [1..(Len(s) + 1) -> Nat]
      /\ L[1] = 0
      /\ \A i \in 1..Len(s) : L[i + 1] = L[i] + Height(s[i]) /\ Holds(g, s[i], c, L[i])
      /\ \A i, j \in 1..(Len(s) + 1) : i <= j => L[i] <= L[j]
  BY DEF Laid
<1>2. \A f : Height(f) \in {1, 2} /\ Height(f) \in Nat
  BY DEF Height
<1>3. Len(s2) \in Nat /\ m + 1 \in 1..(Len(s) + 1) /\ L[m + 1] \in Nat
  <2>1. Len(s2) \in Nat /\ m + 1 \in 1..(Len(s) + 1)
    OBVIOUS
  <2> QED
    BY <1>1, <2>1
<1>4. /\ \A i \in 1..(m + 1) : i \in 1..(Len(s) + 1) /\ i \in 1..(Len(s2) + 1) /\ M[i] = L[i]
      /\ Len(s2) = m + 1 => M[m + 2] = L[m + 1] + Height(s2[m + 1])
  BY <1>3
<1>11. \A i \in 1..(m + 1) : L[i] \in Nat /\ L[i] <= L[m + 1]
  <2> SUFFICES ASSUME NEW i \in 1..(m + 1)
               PROVE  L[i] \in Nat /\ L[i] <= L[m + 1]
    OBVIOUS
  <2>1. i \in 1..(Len(s) + 1) /\ i <= m + 1
    BY <1>4
  <2> QED
    BY <2>1, <1>1, <1>3
<1>5. M \in [1..(Len(s2) + 1) -> Nat]
  <2>1. \A i \in 1..(Len(s2) + 1) : i <= m + 1 => L[i] \in Nat
    BY <1>3, <1>11
  <2>2. L[m + 1] + Height(s2[m + 1]) \in Nat
    BY <1>2, <1>3
  <2> QED
    BY <2>1, <2>2
<1>6. \A i \in 1..(Len(s2) + 1) : i \in 1..(m + 1) \/ (i = m + 2 /\ Len(s2) = m + 1)
  BY <1>3
<1> HIDE DEF M
<1>7. M[1] = 0 /\ M[Len(s2) + 1] = Len(d)
  <2>1. M[1] = 0
    BY <1>1, <1>4
  <2>2. CASE Len(s2) = m
    <3>1. m + 1 \in 1..(m + 1)
      OBVIOUS
    <3> QED
      BY <1>4, <2>1, <2>2, <3>1
  <2>3. CASE Len(s2) = m + 1
    <3>1. m + 1 + 1 = m + 2
      OBVIOUS
    <3> QED
      BY <1>4, <2>1, <2>3, <3>1
  <2> QED
    BY <2>2, <2>3
<1>8. ASSUME NEW i \in 1..Len(s2)
      PROVE  M[i + 1] = M[i] + Height(s2[i]) /\ Holds(h, s2[i], d, M[i])
  <2>1. CASE i \in 1..m
    <3>1. /\ i \in 1..Len(s) /\ i + 1 \in 1..(m + 1) /\ i \in 1..(m + 1)
          /\ M[i] = L[i] /\ M[i + 1] = L[i + 1]
      BY <1>3, <1>4, <2>1
    <3>2. /\ L[i] \in Nat /\ L[i + 1] <= L[m + 1] /\ L[i + 1] \in Nat
      BY <1>11, <3>1
    <3>3. L[i + 1] = L[i] + Height(s[i]) /\ Holds(g, s[i], c, L[i])
      BY <1>1, <3>1
    <3>4. /\ s2[i].task = s[i].task /\ (Open(s2[i]) <=> Open(s[i]))
          /\ s[i].task = 0 \/ GrowsBeside(g, h, s[i].task)
      BY <2>1
    <3>5. \A x \in 1..(L[i] + Height(s[i])) : d[x] = c[x]
      BY <1>2, <1>3, <3>2, <3>3
    <3>6. Holds(h, s2[i], d, L[i])
      <4>1. \A n \in Nodes(g) :
               /\ n \in Nodes(h) /\ h[n].taskId = g[n].taskId /\ h[n].parent = g[n].parent
               /\ IsTask(h, n) <=> IsTask(g, n)
               /\ IsPhase(h, n) <=> IsPhase(g, n)
        BY DEF Keeps
      <4> QED
        BY <3>2, <3>3, <3>4, <3>5, <4>1, HoldsOn
    <3>7. Height(s2[i]) = Height(s[i])
      BY <3>4 DEF Height
    <3> QED
      BY <3>1, <3>3, <3>6, <3>7
  <2>2. CASE i = m + 1
    <3>1. Len(s2) = m + 1 /\ M[m + 1] = L[m + 1] /\ M[m + 1 + 1] = L[m + 1] + Height(s2[m + 1])
      <4>1. m + 1 \in 1..(m + 1) /\ m + 1 + 1 = m + 2 /\ Len(s2) = m + 1
        BY <1>3, <2>2
      <4> QED
        BY <1>4, <4>1
    <3> QED
      BY <2>2, <3>1
  <2> QED
    BY <1>3, <2>1, <2>2
<1>9. ASSUME NEW i \in 1..(Len(s2) + 1), NEW j \in 1..(Len(s2) + 1), i <= j
      PROVE  M[i] <= M[j]
  <2>1. CASE j \in 1..(m + 1)
    <3>1. i \in 1..(m + 1)
      BY <1>9, <2>1
    <3> QED
      BY <1>1, <1>4, <1>9, <2>1, <3>1
  <2>2. CASE j = m + 2 /\ Len(s2) = m + 1 /\ i \in 1..(m + 1)
    <3>1. M[i] <= L[m + 1] /\ M[i] \in Nat
      BY <1>11, <1>4, <2>2
    <3>2. M[j] = L[m + 1] + Height(s2[m + 1])
      BY <1>4, <2>2
    <3> QED
      BY <1>2, <1>3, <3>1, <3>2
  <2>3. CASE j = m + 2 /\ i = m + 2
    BY <2>3, <1>5
  <2> QED
    BY <1>6, <2>1, <2>2, <2>3
<1>10. Laid(h, s2, d, M)
  BY <1>5, <1>7, <1>8, <1>9 DEF Laid
<1> QED
  BY <1>10

\* The frames of a thread that others leave alone.
LEMMA LaidOn ==
    ASSUME NEW g, NEW h, Keeps(g, h), NEW s, NEW c, NEW L, Laid(g, s, c, L), Len(s) \in Nat,
           NEW s2, Len(s2) = Len(s),
           \A i \in 1..Len(s) : /\ s2[i].task = s[i].task /\ (Open(s2[i]) <=> Open(s[i]))
                                /\ s[i].task = 0 \/ GrowsBeside(g, h, s[i].task)
    PROVE  \E M : Laid(h, s2, c, M)
<1>1. /\ Len(c) = L[Len(s) + 1]
      /\ \A i \in 1..L[Len(s) + 1] : c[i] = c[i]
  BY DEF Laid
<1>2. Len(s) <= Len(s) /\ Len(s) # Len(s) + 1
  OBVIOUS
<1> QED
  BY <1>1, <1>2, LaidUpTo

\* What is on top of a stack of nodes: frame f is above position k of c.
AtTop(g, f, c, k) ==
    /\ k \in Nat /\ Len(c) = k + Height(f) /\ Holds(g, f, c, k)
    /\ c # <<>> /\ Top(c) \in Nodes(g)
    /\ g[Top(c)].taskId = f.task /\ g[Top(c)].type # "STEP"
    /\ f.task # 0 => IsLast(g, f.task, g[Top(c)].cur_step)
    /\ Open(f) <=> IsPhase(g, Top(c))
    /\ Open(f) => Len(c) = k + 2 /\ g[Top(c)].parent = c[k + 1] /\ Top(c) = c[k + 2]
    /\ ~Open(f) => Len(c) = k + 1 /\ Top(c) = c[k + 1]

\* The innermost frame of a layout holds what is on top of the stack of nodes.
LEMMA TopLaid ==
    ASSUME NEW g, NEW s, NEW c \in Seq(Nat), NEW L, Laid(g, s, c, L), Len(s) \in Nat, Len(s) > 0
    PROVE  AtTop(g, s[Len(s)], c, L[Len(s)])
<1> DEFINE n == Len(s)
           f == s[n]
           k == L[n]
<1>1. n \in 1..n /\ n \in 1..(n + 1) /\ n \in 1..Len(s)
  OBVIOUS
<1>2. k \in Nat /\ Len(c) = k + Height(f) /\ Holds(g, f, c, k)
  BY <1>1 DEF Laid
<1> HIDE DEF k, n, f
<1>3. Height(f) = IF Open(f) THEN 2 ELSE 1
  BY DEF Height
<1>4. Top(c) = c[k + Height(f)] /\ c # <<>>
  <2>1. Top(c) = c[k + Height(f)]
    BY <1>2 DEF Top
  <2>2. Len(c) # 0
    BY <1>2, <1>3
  <2> QED
    BY <2>1, <2>2
<1>5. CASE Open(f)
  <2>1. /\ c[k + 2] \in Nodes(g) /\ IsPhase(g, c[k + 2])
        /\ g[c[k + 2]].taskId = f.task /\ g[c[k + 2]].parent = c[k + 1]
        /\ f.task # 0 => IsLast(g, f.task, g[c[k + 2]].cur_step)
    BY <1>2, <1>3, <1>5 DEF Holds
  <2>2. g[c[k + 2]].type # "STEP"
    BY <2>1 DEF IsPhase
  <2> QED
    BY <1>2, <1>3, <1>4, <1>5, <2>1, <2>2 DEF n, f, k, AtTop
<1>6. CASE ~Open(f)
  <2>1. /\ OwnNode(g, c[k + 1], f.task)
        /\ f.task # 0 => IsLast(g, f.task, g[c[k + 1]].cur_step)
    BY <1>2, <1>3, <1>6 DEF Holds
  <2>2. /\ c[k + 1] \in Nodes(g) /\ g[c[k + 1]].taskId = f.task
        /\ g[c[k + 1]].type # "STEP" /\ ~IsPhase(g, c[k + 1])
    BY <2>1 DEF OwnNode, IsTask
  <2> QED
    BY <1>2, <1>3, <1>4, <1>6, <2>1, <2>2 DEF n, f, k, AtTop
<1> QED
  BY <1>5, <1>6

-----------------------------------------------------------------------------
(* The invariant of such programs *)

\* tidToTaskIdMap holds the tasks of the frames, but for the program outside any task.
Outside(th) == IF th = MainThread THEN 1 ELSE 0

TidsOK(fr, tid) ==
    \A th \in Threads :
       /\ Len(fr[th]) = Len(tid[th]) + Outside(th)
       /\ \A i \in 1..Len(tid[th]) : tid[th][i] = fr[th][i + Outside(th)].task

\* The map leads to the nodes of the captured tasks.
MapOK(g, map) ==
    \A id \in DOMAIN map :
       OwnNode(g, map[id], id) /\ IsLast(g, id, g[map[id]].cur_step)

Tidy ==
    /\ Shaped(tgraph_nodes)
    /\ Control(Started(frames), DOMAIN temp_cur_map, Known(tgraph_nodes), returned,
               task_id_ctr)
    /\ Stacks(frames)
    /\ Layouts(tgraph_nodes, frames, cur)
    /\ TidsOK(frames, tidToTaskIdMap)
    /\ MapOK(tgraph_nodes, temp_cur_map)

DInv == SchedInv /\ IInv /\ Tidy

\* The innermost frame of a thread and what is on top of its stacks.
LEMMA OnTop ==
    ASSUME DInv, NEW th \in Threads, frames[th] # <<>>
    PROVE  /\ Len(frames[th]) \in Nat /\ Len(frames[th]) > 0
           /\ Top(frames[th]) = frames[th][Len(frames[th])]
           /\ Top(frames[th]) \in FrameType /\ Top(frames[th]) \in Started(frames)
           /\ FrameOK(Top(frames[th])) /\ cur[th] \in Seq(Nat)
           /\ \A L : Laid(tgraph_nodes, frames[th], cur[th], L) =>
                 AtTop(tgraph_nodes, Top(frames[th]), cur[th], L[Len(frames[th])])
           /\ \E L : Laid(tgraph_nodes, frames[th], cur[th], L)
<1>1. SchedInv /\ cur \in [Threads -> Seq(Nat)] /\ Tidy
  BY DEF DInv, IInv, GraphTypeOK
<1>2. /\ Len(frames[th]) \in 1..Len(frames[th])
      /\ Top(frames[th]) = frames[th][Len(frames[th])]
      /\ Top(frames[th]) \in FrameType
  BY <1>1, TopFrame
<1>3. Len(frames[th]) \in Nat /\ Len(frames[th]) > 0 /\ cur[th] \in Seq(Nat)
  <2>1. frames[th] \in Seq(FrameType)
    BY <1>1 DEF SchedInv, SchedTypeOK
  <2> QED
    BY <1>1, <1>2, <2>1
<1>4. Top(frames[th]) \in Started(frames)
  BY <1>2 DEF Started
<1>5. FrameOK(Top(frames[th]))
  BY <1>1, <1>4 DEF Tidy, Control, FramesOK
<1>6. \E L : Laid(tgraph_nodes, frames[th], cur[th], L)
  BY <1>1 DEF Tidy, Layouts
<1>7. ASSUME NEW L, Laid(tgraph_nodes, frames[th], cur[th], L)
      PROVE  AtTop(tgraph_nodes, Top(frames[th]), cur[th], L[Len(frames[th])])
  <2> DEFINE g == tgraph_nodes
             s == frames[th]
             c == cur[th]
  <2>1. Len(s) \in Nat /\ Len(s) > 0 /\ c \in Seq(Nat) /\ Laid(g, s, c, L)
    BY <1>3, <1>7
  <2> HIDE DEF g, s, c
  <2>2. AtTop(g, s[Len(s)], c, L[Len(s)])
    BY <2>1, TopLaid
  <2> QED
    BY <2>2, <1>2 DEF g, s, c
<1> QED
  BY <1>2, <1>3, <1>4, <1>5, <1>6, <1>7, Zenon

\* The top frame changes and the tree grows beside the other tasks.
LEMMA TopLayouts ==
    ASSUME Stacks(frames), NEW g, NEW h, Keeps(g, h), NEW c, NEW d, Layouts(g, frames, c),
           NEW th \in Threads, frames[th] # <<>>, NEW f \in FrameType,
           f.task = Top(frames[th]).task, frames' = SetTop(th, f),
           \A e \in Started(frames) :
              e # Top(frames[th]) => e.task = 0 \/ GrowsBeside(g, h, e.task),
           \A t \in Threads : t # th => d[t] = c[t],
           NEW L, Laid(g, frames[th], c[th], L),
           \A i \in 1..L[Len(frames[th])] : d[th][i] = c[th][i],
           Len(d[th]) = L[Len(frames[th])] + Height(f),
           Holds(h, f, d[th], L[Len(frames[th])])
    PROVE  /\ Layouts(h, frames', d)
           /\ \A t \in Threads :
                 /\ Len(frames'[t]) = Len(frames[t])
                 /\ \A i \in 1..Len(frames[t]) : frames'[t][i].task = frames[t][i].task
<1> DEFINE n == Len(frames[th])
           old == Top(frames[th])
<1>1. frames \in [Threads -> Seq(FrameType)]
  BY DEF Stacks
<1>2. /\ n \in 1..n
      /\ \A t \in Threads :
            /\ Len(frames'[t]) = Len(frames[t])
            /\ \A i \in 1..Len(frames[t]) :
                  /\ t = th /\ i = n => frames'[t][i] = f
                  /\ ~(t = th /\ i = n) => frames'[t][i] = frames[t][i]
  BY <1>1, SetTopFrames
<1>3. old = frames[th][n] /\ n \in Nat /\ n > 0 /\ \A t \in Threads : Len(frames[t]) \in Nat
  <2>1. \A t \in Threads : frames[t] \in Seq(FrameType)
    BY <1>1
  <2> QED
    BY <2>1, <1>2 DEF Top
<1>4. \A t \in Threads : \A i \in 1..Len(frames[t]) : ~(t = th /\ i = n) =>
         frames[t][i].task = 0 \/ GrowsBeside(g, h, frames[t][i].task)
  <2> SUFFICES ASSUME NEW t \in Threads, NEW i \in 1..Len(frames[t]), ~(t = th /\ i = n)
               PROVE  frames[t][i].task = 0 \/ GrowsBeside(g, h, frames[t][i].task)
    OBVIOUS
  <2>1. frames[t][i] # old
    BY <1>2, <1>3 DEF Stacks
  <2>2. frames[t][i] \in Started(frames)
    BY DEF Started
  <2> QED
    BY <2>1, <2>2
<1>5. f.task = old.task
  OBVIOUS
<1> HIDE DEF n, old
<1>6. \A t \in Threads : \A i \in 1..Len(frames[t]) : frames'[t][i].task = frames[t][i].task
  BY <1>2, <1>3, <1>5
<1>7. ASSUME NEW t \in Threads, t # th
      PROVE  \E M : Laid(h, frames'[t], d[t], M)
  <2>1. PICK K : Laid(g, frames[t], c[t], K)
    BY DEF Layouts
  <2>2. \A i \in 1..Len(frames[t]) :
           /\ frames'[t][i].task = frames[t][i].task /\ (Open(frames'[t][i]) <=> Open(frames[t][i]))
           /\ frames[t][i].task = 0 \/ GrowsBeside(g, h, frames[t][i].task)
    BY <1>2, <1>4, <1>7
  <2>3. Len(frames'[t]) = Len(frames[t]) /\ Len(frames[t]) \in Nat /\ d[t] = c[t]
    BY <1>2, <1>3, <1>7
  <2> DEFINE s == frames[t]
             s2 == frames'[t]
  <2> HIDE DEF s, s2
  <2>4. \E M : Laid(h, s2, c[t], M)
    <3>1. /\ Laid(g, s, c[t], K) /\ Len(s) \in Nat /\ Len(s2) = Len(s)
          /\ \A i \in 1..Len(s) :
                /\ s2[i].task = s[i].task /\ (Open(s2[i]) <=> Open(s[i]))
                /\ s[i].task = 0 \/ GrowsBeside(g, h, s[i].task)
      BY <2>1, <2>2, <2>3 DEF s, s2
    <3> QED
      BY <3>1, LaidOn
  <2> QED
    BY <2>3, <2>4 DEF s2
<1>8. \E M : Laid(h, frames'[th], d[th], M)
  <2> DEFINE s == frames[th]
             s2 == frames'[th]
             m == n - 1
             c1 == c[th]
             d1 == d[th]
  <2>1. /\ m \in Nat /\ m <= Len(s) /\ Len(s2) = m + 1 /\ Len(s) \in Nat /\ m + 1 = Len(s)
        /\ s2[m + 1] = f
    BY <1>2, <1>3 DEF n
  <2>2. \A i \in 1..m : /\ s2[i].task = s[i].task /\ (Open(s2[i]) <=> Open(s[i]))
                        /\ s[i].task = 0 \/ GrowsBeside(g, h, s[i].task)
    <3> SUFFICES ASSUME NEW i \in 1..m
                 PROVE  /\ s2[i].task = s[i].task /\ (Open(s2[i]) <=> Open(s[i]))
                        /\ s[i].task = 0 \/ GrowsBeside(g, h, s[i].task)
      OBVIOUS
    <3>1. i \in 1..Len(frames[th]) /\ i # n
      BY <2>1 DEF n
    <3> QED
      BY <3>1, <1>2, <1>4
  <2>3. /\ Laid(g, s, c1, L) /\ \A i \in 1..L[m + 1] : d1[i] = c1[i]
        /\ Len(d1) = L[m + 1] + Height(s2[m + 1]) /\ Holds(h, s2[m + 1], d1, L[m + 1])
    BY <2>1
  <2> HIDE DEF s, s2, m, c1, d1
  <2>4. Len(s2) # m
    BY <2>1
  <2>5. \E M : Laid(h, s2, d1, M)
    BY <2>1, <2>2, <2>3, <2>4, LaidUpTo
  <2> QED
    BY <2>5 DEF s2, d1
<1>9. Layouts(h, frames', d)
  BY <1>7, <1>8 DEF Layouts
<1> QED
  BY <1>2, <1>6, <1>9

\* tidToTaskIdMap still matches frames of the same tasks.
LEMMA TidsStay ==
    ASSUME NEW fr, NEW gr, NEW tid \in [Threads -> Seq(Nat)], TidsOK(fr, tid),
           \A t \in Threads : /\ Len(gr[t]) = Len(fr[t])
                              /\ \A i \in 1..Len(fr[t]) : gr[t][i].task = fr[t][i].task
    PROVE  TidsOK(gr, tid)
<1> SUFFICES ASSUME NEW t \in Threads
             PROVE  /\ Len(gr[t]) = Len(tid[t]) + Outside(t)
                    /\ \A i \in 1..Len(tid[t]) : tid[t][i] = gr[t][i + Outside(t)].task
  BY DEF TidsOK
<1>1. /\ Len(fr[t]) = Len(tid[t]) + Outside(t)
      /\ \A i \in 1..Len(tid[t]) : tid[t][i] = fr[t][i + Outside(t)].task
  BY DEF TidsOK
<1>2. Outside(t) \in Nat /\ Len(tid[t]) \in Nat
  BY DEF Outside
<1>3. \A i \in 1..Len(tid[t]) : i + Outside(t) \in 1..Len(fr[t])
  BY <1>1, <1>2
<1> QED
  BY <1>1, <1>3

\* A step that touches no stack of nodes and no tree.
LEMMA QuietTidy ==
    ASSUME DInv, NEW th \in Threads, frames[th] # <<>>, NEW f \in FrameType,
           f.task = Top(frames[th]).task, Open(f) <=> Open(Top(frames[th])),
           frames' = SetTop(th, f), UNCHANGED <<graphVars, returned>>,
           FrameOK(f), Joins(f) = Joins(Top(frames[th])),
           task_id_ctr' \in Nat, task_id_ctr <= task_id_ctr',
           f.pc = "named" =>
              /\ f.child \in 1..task_id_ctr' /\ f.child \notin Known(tgraph_nodes)
              /\ \A e \in Started(frames) : e.pc = "named" => e.child # f.child,
           f.pc = "captured" => f.child \in DOMAIN temp_cur_map
    PROVE  Tidy'
<1> DEFINE old == Top(frames[th])
<1>1. Tidy /\ tidToTaskIdMap \in [Threads -> Seq(Nat)]
  BY DEF DInv, IInv, GraphTypeOK
<1>2. /\ tgraph_nodes' = tgraph_nodes /\ cur' = cur /\ temp_cur_map' = temp_cur_map
      /\ tidToTaskIdMap' = tidToTaskIdMap /\ returned' = returned
  BY DEF graphVars
<1>3. /\ Started(frames') = (Started(frames) \ {old}) \cup {f}
      /\ old \in Started(frames) /\ Stacks(frames')
  BY <1>1, TopStarted DEF Tidy
<1>4. Control(Started(frames'), DOMAIN temp_cur_map, Known(tgraph_nodes), returned,
              task_id_ctr')
  <2> DEFINE F == Started(frames)
             M == DOMAIN temp_cur_map
             K == Known(tgraph_nodes)
             R == returned
             n == task_id_ctr
             m == task_id_ctr'
  <2>1. Control(F, M, K, R, n)
    BY <1>1 DEF Tidy
  <2>2. /\ old \in F /\ f \in FrameType /\ f.task = old.task /\ FrameOK(f)
        /\ Joins(f) = Joins(old) /\ m \in Nat /\ n <= m
        /\ f.pc = "named" => /\ f.child \in 1..m /\ f.child \notin K
                             /\ \A e \in F : e.pc = "named" => e.child # f.child
        /\ f.pc = "captured" => f.child \in M
    BY <1>3
  <2> HIDE DEF F, M, K, R, n, m, old
  <2>3. Control((F \ {old}) \cup {f}, M, K, R, m)
    BY <2>1, <2>2, ReplaceFrame
  <2> QED
    BY <1>3, <2>3 DEF F, M, K, R, m
<1>5. PICK L : Laid(tgraph_nodes, frames[th], cur[th], L)
  BY OnTop
<1>6. /\ L[Len(frames[th])] \in Nat
      /\ Len(cur[th]) = L[Len(frames[th])] + Height(old)
      /\ Holds(tgraph_nodes, old, cur[th], L[Len(frames[th])])
  BY <1>5, OnTop DEF AtTop
<1>7. Keeps(tgraph_nodes, tgraph_nodes) /\ \A t : GrowsBeside(tgraph_nodes, tgraph_nodes, t)
  BY StaysBeside DEF Keeps
<1>8. Holds(tgraph_nodes, f, cur[th], L[Len(frames[th])]) /\ Height(f) = Height(old)
  BY <1>6 DEF Holds, Height
<1>9. /\ Layouts(tgraph_nodes, frames', cur)
      /\ \A t \in Threads :
            /\ Len(frames'[t]) = Len(frames[t])
            /\ \A i \in 1..Len(frames[t]) : frames'[t][i].task = frames[t][i].task
  <2> DEFINE g == tgraph_nodes
             c == cur
  <2>1. /\ Stacks(frames) /\ Keeps(g, g) /\ Layouts(g, frames, c)
        /\ \A t : GrowsBeside(g, g, t)
        /\ Laid(g, frames[th], c[th], L)
        /\ Len(c[th]) = L[Len(frames[th])] + Height(f)
        /\ Holds(g, f, c[th], L[Len(frames[th])])
    BY <1>1, <1>5, <1>6, <1>7, <1>8 DEF Tidy
  <2> HIDE DEF g, c
  <2>2. /\ Layouts(g, frames', c)
        /\ \A t \in Threads :
              /\ Len(frames'[t]) = Len(frames[t])
              /\ \A i \in 1..Len(frames[t]) : frames'[t][i].task = frames[t][i].task
    BY <2>1, TopLayouts
  <2> QED
    BY <2>2 DEF g, c
<1>10. TidsOK(frames', tidToTaskIdMap)
  <2>1. tidToTaskIdMap \in [Threads -> Seq(Nat)] /\ TidsOK(frames, tidToTaskIdMap)
    BY <1>1 DEF Tidy
  <2> DEFINE now == frames'
             tid == tidToTaskIdMap
  <2>2. \A t \in Threads :
           /\ Len(now[t]) = Len(frames[t])
           /\ \A i \in 1..Len(frames[t]) : now[t][i].task = frames[t][i].task
    BY <1>9
  <2>3. tid \in [Threads -> Seq(Nat)] /\ TidsOK(frames, tid)
    BY <2>1
  <2> HIDE DEF now, tid
  <2>4. TidsOK(now, tid)
    BY <2>2, <2>3, TidsStay
  <2> QED
    BY <2>4 DEF now, tid
<1>11. Shaped(tgraph_nodes) /\ MapOK(tgraph_nodes, temp_cur_map)
  BY <1>1 DEF Tidy
<1>12. Stacks(frames')
  BY <1>3
<1>13. Layouts(tgraph_nodes, frames', cur)
  BY <1>9
<1>14. Layouts(tgraph_nodes', frames', cur') /\ TidsOK(frames', tidToTaskIdMap')
  BY <1>2, <1>10, <1>13, Zenon
<1>15. Shaped(tgraph_nodes') /\ MapOK(tgraph_nodes', temp_cur_map')
  BY <1>2, <1>11, Zenon
<1>16. Control(Started(frames'), DOMAIN temp_cur_map', Known(tgraph_nodes'), returned',
               task_id_ctr')
  BY <1>2, <1>4, Zenon
<1> QED
  BY <1>12, <1>14, <1>15, <1>16, Zenon DEF Tidy

-----------------------------------------------------------------------------
(* Each action keeps it *)

\* Drawing an id for a child keeps the tree and the stacks as they are.
LEMMA SetTaskIdTidy ==
    ASSUME Discipline, DInv, NEW th \in Threads, NEW kind \in Kinds, SetTaskId(th, kind)
    PROVE  Tidy'
<1> DEFINE old == Top(frames[th])
           c == task_id_ctr + 1
           f == [old EXCEPT !.pc = "named", !.kind = kind, !.child = c]
<1>1. /\ frames[th] # <<>> /\ frames' = SetTop(th, f) /\ old.pc = "run"
      /\ task_id_ctr' = c /\ UNCHANGED <<graphVars, returned>>
      /\ old.task = 0 => kind = "root"
      /\ kind = "root" /\ old.pending # {} => "nested_root" \in Styles
      /\ task_id_ctr < MaxTasks
  BY DEF SetTaskId, Running
<1>2. /\ old \in FrameType /\ old \in Started(frames) /\ FrameOK(old)
  BY <1>1, OnTop
<1>3. /\ task_id_ctr \in Nat /\ MaxTasks \in Nat /\ task_id_ctr \in 0..MaxTasks
  BY TaskAssumption DEF DInv, SchedInv, SchedTypeOK
<1>4. c \in Nat /\ c \in 0..MaxTasks /\ c \in 1..c /\ task_id_ctr <= c
  BY <1>1, <1>3
<1> HIDE DEF old
<1>5. /\ f \in FrameType /\ f.pc = "named" /\ f.child = c /\ f.kind = kind
      /\ f.task = old.task /\ f.pending = old.pending /\ f.awaited = old.awaited
  BY <1>2, <1>4 DEF FrameType
<1> HIDE DEF f
<1>6. /\ Open(f) <=> Open(old)
      /\ Joins(f) = Joins(old)
  BY <1>1, <1>5 DEF Open, Joins
<1>7. /\ Known(tgraph_nodes) \subseteq 0..task_id_ctr /\ old.task \in Known(tgraph_nodes)
      /\ \A e \in Started(frames) : e.pc = "named" => e.child \in 1..task_id_ctr
  <2>1. Captures(Started(frames), DOMAIN temp_cur_map, Known(tgraph_nodes), returned,
                 task_id_ctr)
    BY DEF DInv, Tidy, Control
  <2> QED
    BY <2>1, <1>2 DEF Captures, OnStack
<1>8. old.task < c /\ c \notin Known(tgraph_nodes)
      /\ \A e \in Started(frames) : e.pc = "named" => e.child # c
  BY <1>3, <1>7
<1>9. kind = "root" => old.pending = {}
  BY <1>1 DEF Discipline
<1>10. FrameOK(f)
  BY <1>1, <1>2, <1>5, <1>6, <1>8, <1>9 DEF FrameOK
<1> HIDE DEF c
<1>11. f.task = Top(frames[th]).task /\ (Open(f) <=> Open(Top(frames[th])))
       /\ Joins(f) = Joins(Top(frames[th]))
  BY <1>5, <1>6 DEF old
<1>12. task_id_ctr' \in Nat /\ task_id_ctr <= task_id_ctr' /\ f.child \in 1..task_id_ctr'
       /\ f.child \notin Known(tgraph_nodes)
       /\ \A e \in Started(frames) : e.pc = "named" => e.child # f.child
       /\ f.pc # "captured"
  BY <1>1, <1>4, <1>5, <1>8
<1> QED
  BY <1>1, <1>5, <1>10, <1>11, <1>12, QuietTidy

\* A captured child becomes one that may begin; its parent joins it as before.
LEMMA PublishTidy ==
    ASSUME DInv, NEW th \in Threads, Publish(th)
    PROVE  Tidy'
<1> DEFINE old == Top(frames[th])
           c == old.child
           own == old.pending \cup (IF old.kind = "root" THEN {} ELSE {c})
           f == IF old.kind = "spawn"
                THEN [old EXCEPT !.pc = "run", !.kind = "none", !.child = 0, !.pending = own]
                ELSE [old EXCEPT !.pc = "waiting", !.pending = own,
                                 !.awaited = IF old.kind = "root" THEN {c} ELSE own]
<1>1. /\ frames[th] # <<>> /\ frames' = SetTop(th, f) /\ old.pc = "captured"
      /\ UNCHANGED <<graphVars, task_id_ctr, returned>>
  BY DEF Publish
<1>2. old \in FrameType /\ old \in Started(frames) /\ FrameOK(old)
  BY <1>1, OnTop
<1>3. task_id_ctr \in Nat
  BY DEF DInv, SchedInv, SchedTypeOK
<1> HIDE DEF old
<1>4. c \in TaskIds /\ own \in SUBSET TaskIds
  <2>1. c \in DOMAIN temp_cur_map
    BY <1>1, <1>2 DEF DInv, Tidy, Control, Joined
  <2>2. c \in TaskIds
    BY <2>1 DEF DInv, IInv, GraphTypeOK
  <2> QED
    BY <2>2, <1>2 DEF FrameType
<1>5. /\ old.kind \in Kinds /\ old.awaited = {}
      /\ old.kind = "root" => old.pending = {}
      /\ old.task = 0 => old.kind = "root" /\ old.pending = {}
  BY <1>1, <1>2 DEF FrameOK, Kinds
<1> HIDE DEF c
<1>6. f \in FrameType /\ f.task = old.task /\ f.pending = own
  <2>1. 0 \in 0..MaxTasks /\ {c} \in SUBSET TaskIds
    BY <1>4, TaskAssumption
  <2> HIDE DEF own
  <2>2. CASE old.kind = "spawn"
    BY <1>2, <1>4, <2>1, <2>2 DEF FrameType
  <2>3. CASE old.kind # "spawn"
    BY <1>2, <1>4, <2>1, <2>3 DEF FrameType
  <2> QED
    BY <2>2, <2>3
<1>7. /\ old.kind = "spawn" => f.pc = "run" /\ f.kind = "none" /\ f.awaited = {}
      /\ old.kind # "spawn" => /\ f.pc = "waiting" /\ f.kind = old.kind
                               /\ f.awaited = IF old.kind = "root" THEN {c} ELSE own
  <2> HIDE DEF own
  <2>2. CASE old.kind = "spawn"
    BY <1>2, <1>5, <2>2 DEF FrameType
  <2>3. CASE old.kind # "spawn"
    BY <1>2, <2>3 DEF FrameType
  <2> QED
    BY <2>2, <2>3
<1> HIDE DEF f
<1>8. Joins(f) = Joins(old)
  <2>1. Joins(old) = old.pending \cup {c}
    BY <1>1, <1>5 DEF Joins, c
  <2>2. CASE old.kind = "spawn"
    BY <1>6, <1>7, <2>1, <2>2 DEF Joins
  <2>3. CASE old.kind = "root"
    BY <1>5, <1>6, <1>7, <2>1, <2>3 DEF Joins
  <2>4. CASE old.kind = "spawn_and_wait"
    BY <1>6, <1>7, <2>1, <2>4 DEF Joins
  <2> QED
    BY <1>5, <2>2, <2>3, <2>4 DEF Kinds
<1>9. Open(f) <=> Open(old)
  <2>1. CASE old.kind = "root"
    BY <1>5, <1>6, <1>7, <2>1 DEF Open
  <2>2. CASE old.kind # "root"
    BY <1>1, <1>6, <1>7, <2>2 DEF Open
  <2> QED
    BY <2>1, <2>2
<1>10. FrameOK(f)
  <2>1. \A d \in Joins(f) : f.task < d
    BY <1>2, <1>6, <1>8 DEF FrameOK
  <2>2. CASE old.kind = "spawn"
    BY <1>5, <1>6, <1>7, <2>1, <2>2 DEF FrameOK
  <2>3. CASE old.kind = "root"
    BY <1>5, <1>6, <1>7, <2>1, <2>3 DEF FrameOK
  <2>4. CASE old.kind = "spawn_and_wait"
    BY <1>5, <1>6, <1>7, <2>1, <2>4 DEF FrameOK
  <2> QED
    BY <1>5, <2>2, <2>3, <2>4 DEF Kinds
<1>11. /\ f.task = Top(frames[th]).task /\ (Open(f) <=> Open(Top(frames[th])))
       /\ Joins(f) = Joins(Top(frames[th]))
       /\ f.pc # "named" /\ f.pc # "captured"
  BY <1>6, <1>7, <1>8, <1>9 DEF old
<1>12. task_id_ctr' \in Nat /\ task_id_ctr <= task_id_ctr'
  BY <1>1, <1>3
<1> QED
  BY <1>1, <1>6, <1>10, <1>11, <1>12, QuietTidy

\* A task that begins to wait awaits all that it spawned and keeps its phase open.
LEMMA WaitForAllTidy ==
    ASSUME Discipline, DInv, NEW th \in Threads, WaitForAll(th)
    PROVE  Tidy'
<1> DEFINE old == Top(frames[th])
           f == [old EXCEPT !.pc = "waiting", !.kind = "wait", !.awaited = old.pending]
<1>1. /\ frames[th] # <<>> /\ frames' = SetTop(th, f) /\ old.pc = "run" /\ old.task # 0
      /\ UNCHANGED <<graphVars, task_id_ctr, returned>>
      /\ old.pending # {}
  BY DEF WaitForAll, Running, Discipline
<1>2. old \in FrameType /\ old \in Started(frames) /\ FrameOK(old)
  BY <1>1, OnTop
<1>3. task_id_ctr \in Nat
  BY DEF DInv, SchedInv, SchedTypeOK
<1> HIDE DEF old
<1>4. /\ f \in FrameType /\ f.task = old.task /\ f.pending = old.pending
      /\ f.awaited = old.pending /\ f.pc = "waiting" /\ f.kind = "wait"
  BY <1>2 DEF FrameType
<1> HIDE DEF f
<1>5. Joins(f) = Joins(old) /\ (Open(f) <=> Open(old))
  BY <1>1, <1>2, <1>4 DEF FrameOK, Joins, Open
<1>6. FrameOK(f)
  BY <1>1, <1>2, <1>4, <1>5 DEF FrameOK
<1>7. /\ f.task = Top(frames[th]).task /\ (Open(f) <=> Open(Top(frames[th])))
      /\ Joins(f) = Joins(Top(frames[th]))
      /\ f.pc # "named" /\ f.pc # "captured"
  BY <1>4, <1>5 DEF old
<1>8. task_id_ctr' \in Nat /\ task_id_ctr <= task_id_ctr'
  BY <1>1, <1>3
<1> QED
  BY <1>1, <1>4, <1>6, <1>7, <1>8, QuietTidy

\* The top frame goes on while its task changes the tree.
LEMMA GrowTidy ==
    ASSUME DInv, NEW th \in Threads, frames[th] # <<>>, NEW f \in FrameType,
           f.task = Top(frames[th]).task, frames' = SetTop(th, f),
           Shaped(tgraph_nodes'), Keeps(tgraph_nodes, tgraph_nodes'),
           Control((Started(frames) \ {Top(frames[th])}) \cup {f}, DOMAIN temp_cur_map',
                   Known(tgraph_nodes'), returned', task_id_ctr'),
           \A e \in Started(frames) : e # Top(frames[th]) =>
              e.task = 0 \/ GrowsBeside(tgraph_nodes, tgraph_nodes', e.task),
           \A t \in Threads : t # th => cur'[t] = cur[t],
           tidToTaskIdMap' = tidToTaskIdMap,
           MapOK(tgraph_nodes', temp_cur_map'),
           NEW L, Laid(tgraph_nodes, frames[th], cur[th], L),
           \A i \in 1..L[Len(frames[th])] : cur'[th][i] = cur[th][i],
           Len(cur'[th]) = L[Len(frames[th])] + Height(f),
           Holds(tgraph_nodes', f, cur'[th], L[Len(frames[th])])
    PROVE  Tidy'
<1> DEFINE old == Top(frames[th])
<1>1. /\ Stacks(frames) /\ Layouts(tgraph_nodes, frames, cur)
      /\ TidsOK(frames, tidToTaskIdMap) /\ tidToTaskIdMap \in [Threads -> Seq(Nat)]
  BY DEF DInv, Tidy, IInv, GraphTypeOK
<1>2. /\ Started(frames') = (Started(frames) \ {old}) \cup {f}
      /\ Stacks(frames')
  BY <1>1, TopStarted
<1>3. /\ Layouts(tgraph_nodes', frames', cur')
      /\ \A t \in Threads :
            /\ Len(frames'[t]) = Len(frames[t])
            /\ \A i \in 1..Len(frames[t]) : frames'[t][i].task = frames[t][i].task
  <2> DEFINE g == tgraph_nodes
             h == tgraph_nodes'
             c == cur
             d == cur'
  <2>1. /\ Stacks(frames) /\ Keeps(g, h) /\ Layouts(g, frames, c)
        /\ \A e \in Started(frames) :
              e # Top(frames[th]) => e.task = 0 \/ GrowsBeside(g, h, e.task)
        /\ \A t \in Threads : t # th => d[t] = c[t]
        /\ Laid(g, frames[th], c[th], L)
        /\ \A i \in 1..L[Len(frames[th])] : d[th][i] = c[th][i]
        /\ Len(d[th]) = L[Len(frames[th])] + Height(f)
        /\ Holds(h, f, d[th], L[Len(frames[th])])
    BY <1>1
  <2> HIDE DEF g, h, c, d
  <2>2. /\ Layouts(h, frames', d)
        /\ \A t \in Threads :
              /\ Len(frames'[t]) = Len(frames[t])
              /\ \A i \in 1..Len(frames[t]) : frames'[t][i].task = frames[t][i].task
    BY <2>1, TopLayouts
  <2> QED
    BY <2>2 DEF h, d
<1>4. TidsOK(frames', tidToTaskIdMap)
  <2>1. tidToTaskIdMap \in [Threads -> Seq(Nat)] /\ TidsOK(frames, tidToTaskIdMap)
    BY <1>1
  <2>2. \A t \in Threads :
           /\ Len(frames'[t]) = Len(frames[t])
           /\ \A i \in 1..Len(frames[t]) : frames'[t][i].task = frames[t][i].task
    BY <1>3
  <2> DEFINE fr == frames
             gr == frames'
             tid == tidToTaskIdMap
  <2> HIDE DEF fr, gr, tid
  <2>3. TidsOK(fr, tid) /\ tid \in [Threads -> Seq(Nat)]
        /\ \A t \in Threads : /\ Len(gr[t]) = Len(fr[t])
                              /\ \A i \in 1..Len(fr[t]) : gr[t][i].task = fr[t][i].task
    BY <2>1, <2>2 DEF fr, gr, tid
  <2>4. TidsOK(gr, tid)
    BY <2>3, TidsStay
  <2> QED
    BY <2>4 DEF gr, tid
<1>5. TidsOK(frames', tidToTaskIdMap') /\ Layouts(tgraph_nodes', frames', cur')
  BY <1>3, <1>4, Zenon
<1>6. Control(Started(frames'), DOMAIN temp_cur_map', Known(tgraph_nodes'), returned',
              task_id_ctr')
  BY <1>2, Zenon
<1>7. Stacks(frames')
  BY <1>2
<1> QED
  BY <1>5, <1>6, <1>7, Zenon DEF Tidy

\* The child of a call is captured: what a spawn and a root have in common.
LEMMA CaptureTidy ==
    ASSUME DInv, NEW th \in Threads, frames[th] # <<>>, Top(frames[th]).pc = "named",
           NEW f, f = [Top(frames[th]) EXCEPT !.pc = "captured"],
           frames' = SetTop(th, f), returned' = returned, task_id_ctr' = task_id_ctr,
           tidToTaskIdMap' = tidToTaskIdMap,
           NEW node, temp_cur_map' = MapInsert(temp_cur_map, Top(frames[th]).child, node),
           Shaped(tgraph_nodes'), Keeps(tgraph_nodes, tgraph_nodes'),
           Known(tgraph_nodes') = Known(tgraph_nodes) \cup {Top(frames[th]).child},
           OwnNode(tgraph_nodes', node, Top(frames[th]).child),
           IsLast(tgraph_nodes', Top(frames[th]).child, tgraph_nodes'[node].cur_step),
           \A t : t # Top(frames[th]).task /\ t # Top(frames[th]).child =>
              GrowsBeside(tgraph_nodes, tgraph_nodes', t),
           \A t \in Threads : t # th => cur'[t] = cur[t],
           NEW L, Laid(tgraph_nodes, frames[th], cur[th], L),
           \A i \in 1..L[Len(frames[th])] : cur'[th][i] = cur[th][i],
           Len(cur'[th]) = L[Len(frames[th])] + Height(f),
           Holds(tgraph_nodes', f, cur'[th], L[Len(frames[th])])
    PROVE  Tidy'
<1> DEFINE old == Top(frames[th])
           id == old.child
           F == Started(frames)
           M == DOMAIN temp_cur_map
           K == Known(tgraph_nodes)
           R == returned
           n == task_id_ctr
<1>1. old \in FrameType /\ old \in F
  BY OnTop
<1>2. Control(F, M, K, R, n)
  BY DEF DInv, Tidy
<1> HIDE DEF F, M, K, R, n
<1>3. /\ f \in FrameType /\ f.task = old.task /\ f.child = id /\ f.kind = old.kind
      /\ f.pending = old.pending /\ f.awaited = old.awaited /\ f.pc = "captured"
  BY <1>1 DEF FrameType
<1>4. Control((F \ {old}) \cup {f}, M \cup {id}, K \cup {id}, R, n)
  <2> HIDE DEF old
  <2>1. old.pc = "named"
    BY DEF old
  <2> QED
    BY <1>1, <1>2, <1>3, <2>1, CaptureFrame
<1>5. DOMAIN temp_cur_map' = M \cup {id}
  BY DEF MapInsert, M
<1>6. Control((Started(frames) \ {old}) \cup {f}, DOMAIN temp_cur_map', Known(tgraph_nodes'),
              returned', task_id_ctr')
  BY <1>4, <1>5, Zenon DEF F, K, R, n
<1>7. id \notin K /\ \A e \in F : e.task \in K /\ (e.task = old.task => e = old)
  BY <1>1, <1>2 DEF Control, Captures, FramesOK, OnStack
<1>8. \A x \in M : x \in K /\ x # old.task
  BY <1>1, <1>2 DEF Control, Captures, Joined, OnStack
<1>9. \A e \in Started(frames) : e # old =>
         e.task = 0 \/ GrowsBeside(tgraph_nodes, tgraph_nodes', e.task)
  BY <1>7 DEF F
<1>10. MapOK(tgraph_nodes', temp_cur_map')
  <2> SUFFICES ASSUME NEW x \in DOMAIN temp_cur_map'
               PROVE  /\ OwnNode(tgraph_nodes', temp_cur_map'[x], x)
                      /\ IsLast(tgraph_nodes', x, tgraph_nodes'[temp_cur_map'[x]].cur_step)
    BY DEF MapOK
  <2>1. CASE x = id
    <3>1. temp_cur_map'[x] = node
      BY <1>7, <1>8, <2>1 DEF MapInsert, M
    <3> QED
      BY <2>1, <3>1, Zenon
  <2>2. CASE x # id
    <3>1. x \in M /\ temp_cur_map'[x] = temp_cur_map[x]
      BY <1>5, <2>2 DEF MapInsert, M
    <3> DEFINE y == temp_cur_map[x]
    <3>2. OwnNode(tgraph_nodes, y, x) /\ IsLast(tgraph_nodes, x, tgraph_nodes[y].cur_step)
      BY <3>1 DEF DInv, Tidy, MapOK, M
    <3>3. GrowsBeside(tgraph_nodes, tgraph_nodes', x)
      BY <1>8, <2>2, <3>1
    <3> HIDE DEF y
    <3>4. OwnNode(tgraph_nodes', y, x) /\ IsLast(tgraph_nodes', x, tgraph_nodes'[y].cur_step)
      BY <3>2, <3>3, LastStays
    <3> QED
      BY <3>1, <3>4, Zenon DEF y
  <2> QED
    BY <2>1, <2>2
<1> QED
  BY <1>3, <1>6, <1>9, <1>10, GrowTidy

\* CaptureSpawn and CaptureSpawnAndWait open the phase, or add to it.
LEMMA SpawnTidy ==
    ASSUME DInv, NEW th \in Threads, Capture(th), Top(frames[th]).kind # "root"
    PROVE  Tidy'
<1> DEFINE old == Top(frames[th])
           f == [old EXCEPT !.pc = "captured"]
           id == old.child
           g == tgraph_nodes
           c == cur[th]
           p == Top(c)
           s == SpawnTree(g, p, id)
<1>1. /\ frames[th] # <<>> /\ old.pc = "named" /\ frames' = SetTop(th, f)
      /\ UNCHANGED <<task_id_ctr, returned>>
      /\ CaptureSpawnOnly(th, id)
  BY Zenon DEF Capture, CaptureSetTaskId
<1>2. /\ tgraph_nodes' = s.tree
      /\ cur' = IF s.phase = p THEN cur ELSE [cur EXCEPT ![th] = Push(@, s.phase)]
      /\ temp_cur_map' = MapInsert(temp_cur_map, id, s.node)
      /\ tidToTaskIdMap' = tidToTaskIdMap
  BY <1>1, Zenon DEF CaptureSpawnOnly
<1>3. /\ old \in FrameType /\ old \in Started(frames) /\ FrameOK(old)
      /\ cur[th] \in Seq(Nat)
  BY <1>1, OnTop
<1>4. PICK L : Laid(g, frames[th], c, L)
  BY <1>1, OnTop
<1> DEFINE k == L[Len(frames[th])]
<1>5. AtTop(g, old, c, k)
  BY <1>1, <1>4, OnTop
<1>6. WellFormed(g) /\ Shaped(g) /\ cur \in [Threads -> Seq(Nat)]
  BY DEF DInv, IInv, Tidy, GraphTypeOK
<1>7. /\ id \in Nat /\ id \notin Known(g)
  <2>1. Captures(Started(frames), DOMAIN temp_cur_map, Known(g), returned, task_id_ctr)
    BY DEF DInv, Tidy, Control
  <2> QED
    BY <1>1, <1>3, <2>1 DEF Captures
<1>8. /\ f.task = old.task /\ f.kind = old.kind /\ f.pc = "captured" /\ Open(f)
  <2> HIDE DEF old
  <2>1. old.kind # "root"
    BY DEF old
  <2> QED
    BY <1>3, <2>1 DEF FrameType, Open
<1> HIDE DEF old, f, id, s, k
<1>9. old.task # 0
  <2>1. old.kind # "root"
    BY DEF old
  <2> QED
    BY <1>1, <1>3, <2>1 DEF FrameOK, Kinds
<1>10. /\ p \in Nodes(g) /\ g[p].type # "STEP" /\ g[p].taskId = old.task
       /\ k \in Nat /\ (Open(old) <=> IsPhase(g, p)) /\ OwnNode(g, c[k + 1], old.task)
       /\ Open(old) => Len(c) = k + 2 /\ g[p].parent = c[k + 1] /\ p = c[k + 2]
       /\ ~Open(old) => Len(c) = k + 1 /\ p = c[k + 1]
  BY <1>5 DEF AtTop, Holds
<1>30. c \in Seq(Nat)
  BY <1>3
<1> HIDE DEF p, c
<1>11. /\ \A t : t # old.task /\ t # id => GrowsBeside(g, s.tree, t)
       /\ Keeps(g, s.tree)
       /\ Known(s.tree) = Known(g) \cup {id}
       /\ OwnNode(s.tree, s.node, id) /\ IsLast(s.tree, id, s.tree[s.node].cur_step)
       /\ s.phase \in Nodes(s.tree) /\ IsLast(s.tree, old.task, s.tree[s.phase].cur_step)
       /\ IsPhase(s.tree, s.phase) /\ s.tree[s.phase].taskId = old.task
       /\ s.phase = p <=> IsPhase(g, p)
       /\ s.phase # p => s.tree[s.phase].parent = p
       /\ Shaped(s.tree)
  <2> HIDE DEF g
  <2> DEFINE h == s.tree
             tid == g[p].taskId
  <2>1. /\ \A t : t # tid /\ t # id => GrowsBeside(g, h, t)
        /\ \A n \in Nodes(g) : n \in Nodes(h) /\ (IsTask(h, n) <=> IsTask(g, n))
                               /\ (IsPhase(h, n) <=> IsPhase(g, n))
                               /\ h[n].taskId = g[n].taskId /\ h[n].parent = g[n].parent
        /\ Known(h) = Known(g) \cup {id}
        /\ OwnNode(h, s.node, id) /\ IsLast(h, id, h[s.node].cur_step)
        /\ s.phase \in Nodes(h) /\ IsLast(h, tid, h[s.phase].cur_step)
        /\ IsPhase(h, s.phase) /\ h[s.phase].taskId = tid
        /\ s.phase = p <=> IsPhase(g, p)
        /\ s.phase # p => h[s.phase].parent = p
    <3>1. SpawnGrown(g, s, p, id)
      BY <1>6, <1>7, <1>10, SpawnGrows DEF s
    <3> QED
      BY <3>1, Zenon DEF SpawnGrown
  <2>2. Shaped(s.tree)
    BY <1>6, <1>7, <1>10, SpawnShaped DEF s
  <2>3. Keeps(g, s.tree)
    BY <2>1 DEF Keeps
  <2>4. tid = old.task
    BY <1>10
  <2> HIDE DEF tid
  <2> QED
    BY <2>1, <2>2, <2>3, <2>4, Zenon
<1> DEFINE h == s.tree
           d == cur'[th]
<1>12. /\ \A t \in Threads : t # th => cur'[t] = cur[t]
       /\ s.phase = p => d = c
       /\ s.phase # p => d = Append(c, s.phase)
  BY <1>2, <1>6 DEF Push, c
<1>13. OwnNode(h, c[k + 1], old.task)
  BY <1>10, <1>11 DEF OwnNode, Keeps
<1>14. Height(f) = 2
  BY <1>8 DEF Height
<1>15. /\ Len(d) = k + 2 /\ d[k + 1] = c[k + 1] /\ d[k + 2] = s.phase
       /\ \A i \in 1..k : d[i] = c[i]
       /\ h[s.phase].parent = c[k + 1]
  <2> HIDE DEF d, h
  <2>1. CASE Open(old)
    <3>1. d = c /\ s.phase = p
      BY <1>10, <1>11, <1>12, <2>1
    <3>2. h[p].parent = c[k + 1]
      BY <1>10, <1>11, <2>1 DEF Keeps, h
    <3> QED
      BY <1>10, <2>1, <3>1, <3>2
  <2>2. CASE ~Open(old)
    <3>1. d = Append(c, s.phase) /\ s.phase # p
      BY <1>10, <1>11, <1>12, <2>2
    <3>2. Len(c) = k + 1 /\ p = c[k + 1] /\ k \in Nat
      BY <1>10, <2>2
    <3>3. Len(d) = k + 2 /\ d[k + 2] = s.phase /\ \A i \in 1..(k + 1) : d[i] = c[i]
      BY <1>30, <3>1, <3>2
    <3>4. k + 1 \in 1..(k + 1) /\ \A i \in 1..k : i \in 1..(k + 1)
      BY <3>2
    <3>5. h[s.phase].parent = p
      BY <1>11, <3>1 DEF h
    <3> QED
      BY <3>2, <3>3, <3>4, <3>5
  <2> QED
    BY <2>1, <2>2
<1> HIDE DEF d
<1>16. Holds(h, f, d, k)
  BY <1>8, <1>11, <1>13, <1>14, <1>15 DEF Holds
<1>17. /\ frames[th] # <<>> /\ Top(frames[th]).pc = "named"
       /\ f = [Top(frames[th]) EXCEPT !.pc = "captured"]
       /\ frames' = SetTop(th, f) /\ returned' = returned /\ task_id_ctr' = task_id_ctr
       /\ tidToTaskIdMap' = tidToTaskIdMap
       /\ temp_cur_map' = MapInsert(temp_cur_map, Top(frames[th]).child, s.node)
  BY <1>1, <1>2 DEF old, f, id
<1>18. /\ Shaped(tgraph_nodes') /\ Keeps(tgraph_nodes, tgraph_nodes')
       /\ Known(tgraph_nodes') = Known(tgraph_nodes) \cup {Top(frames[th]).child}
       /\ OwnNode(tgraph_nodes', s.node, Top(frames[th]).child)
       /\ IsLast(tgraph_nodes', Top(frames[th]).child, tgraph_nodes'[s.node].cur_step)
       /\ \A t : t # Top(frames[th]).task /\ t # Top(frames[th]).child =>
             GrowsBeside(tgraph_nodes, tgraph_nodes', t)
  BY <1>2, <1>11, Zenon DEF old, id, g
<1>19. /\ \A t \in Threads : t # th => cur'[t] = cur[t]
       /\ Laid(tgraph_nodes, frames[th], cur[th], L)
       /\ \A i \in 1..L[Len(frames[th])] : cur'[th][i] = cur[th][i]
       /\ Len(cur'[th]) = L[Len(frames[th])] + Height(f)
       /\ Holds(tgraph_nodes', f, cur'[th], L[Len(frames[th])])
  BY <1>2, <1>4, <1>12, <1>14, <1>15, <1>16 DEF c, d, k, h
<1> QED
  BY <1>17, <1>18, <1>19, CaptureTidy

\* CaptureSpawnRootAndWait adds the root below the node of the task, which opens no phase.
LEMMA RootTidy ==
    ASSUME DInv, NEW th \in Threads, Capture(th), Top(frames[th]).kind = "root"
    PROVE  Tidy'
<1> DEFINE old == Top(frames[th])
           f == [old EXCEPT !.pc = "captured"]
           id == old.child
           g == tgraph_nodes
           c == cur[th]
           p == Top(c)
           s == RootTree(g, p, id)
<1>1. /\ frames[th] # <<>> /\ old.pc = "named" /\ frames' = SetTop(th, f)
      /\ UNCHANGED <<task_id_ctr, returned>>
      /\ CaptureSpawnAndWait(th, id)
  BY Zenon DEF Capture, CaptureSetTaskId
<1>2. /\ tgraph_nodes' = s.tree
      /\ cur' = cur
      /\ temp_cur_map' = MapInsert(temp_cur_map, id, s.node)
      /\ tidToTaskIdMap' = tidToTaskIdMap
  BY <1>1, Zenon DEF CaptureSpawnAndWait
<1>3. /\ old \in FrameType /\ old \in Started(frames) /\ FrameOK(old)
      /\ cur[th] \in Seq(Nat)
  BY <1>1, OnTop
<1>4. PICK L : Laid(g, frames[th], c, L)
  BY <1>1, OnTop
<1> DEFINE k == L[Len(frames[th])]
<1>5. AtTop(g, old, c, k)
  BY <1>1, <1>4, OnTop
<1>6. WellFormed(g) /\ Shaped(g) /\ cur \in [Threads -> Seq(Nat)]
  BY DEF DInv, IInv, Tidy, GraphTypeOK
<1>7. /\ id \in Nat /\ id \notin Known(g) /\ old.task \in Known(g)
  <2>1. Captures(Started(frames), DOMAIN temp_cur_map, Known(g), returned, task_id_ctr)
    BY DEF DInv, Tidy, Control
  <2> QED
    BY <1>1, <1>3, <2>1 DEF Captures, OnStack
<1>8. /\ f.task = old.task /\ ~Open(f) /\ ~Open(old)
  <2> HIDE DEF old
  <2>1. old.kind = "root"
    BY DEF old
  <2> QED
    BY <1>1, <1>3, <2>1 DEF FrameType, Open, FrameOK
<1> HIDE DEF old, f, id, s, k
<1>10. /\ p \in Nodes(g) /\ g[p].type # "STEP" /\ g[p].taskId = old.task
       /\ k \in Nat /\ OwnNode(g, c[k + 1], old.task) /\ Len(c) = k + 1 /\ p = c[k + 1]
       /\ Holds(g, old, c, k)
  BY <1>5, <1>8 DEF AtTop, Holds
<1> HIDE DEF p, c
<1>9. IsTask(g, p)
  BY <1>10 DEF OwnNode
<1>11. /\ \A t : t # id => GrowsBeside(g, s.tree, t)
       /\ Known(s.tree) = Known(g) \cup {id}
       /\ OwnNode(s.tree, s.node, id) /\ IsLast(s.tree, id, s.tree[s.node].cur_step)
       /\ Shaped(s.tree)
  <2> HIDE DEF g
  <2>1. /\ \A t : t # id => GrowsBeside(g, s.tree, t)
        /\ Known(s.tree) = Known(g) \cup {id}
        /\ OwnNode(s.tree, s.node, id) /\ IsLast(s.tree, id, s.tree[s.node].cur_step)
    BY <1>6, <1>7, <1>10, RootGrows DEF s
  <2>2. Shaped(s.tree)
    BY <1>6, <1>7, <1>9, <1>10, RootShaped DEF s
  <2> QED
    BY <2>1, <2>2, Zenon
<1>12. GrowsBeside(g, s.tree, old.task)
  BY <1>7, <1>11
<1>13. Keeps(g, s.tree)
  BY <1>12 DEF GrowsBeside, Keeps
<1>14. Height(f) = 1 /\ Height(old) = 1
  BY <1>8 DEF Height
<1>15. Holds(s.tree, f, c, k)
  <2> HIDE DEF g
  <2>1. \A n \in Nodes(g) :
           /\ n \in Nodes(s.tree) /\ s.tree[n].taskId = g[n].taskId
           /\ s.tree[n].parent = g[n].parent
           /\ IsTask(s.tree, n) <=> IsTask(g, n)
           /\ IsPhase(s.tree, n) <=> IsPhase(g, n)
    BY <1>13 DEF Keeps
  <2> DEFINE h == s.tree
  <2> HIDE DEF h
  <2>2. \A n \in Nodes(g) :
           /\ n \in Nodes(h) /\ h[n].taskId = g[n].taskId
           /\ h[n].parent = g[n].parent
           /\ IsTask(h, n) <=> IsTask(g, n)
           /\ IsPhase(h, n) <=> IsPhase(g, n)
    BY <2>1 DEF h
  <2>3. GrowsBeside(g, h, old.task)
    BY <1>12 DEF h
  <2>4. Holds(h, f, c, k)
    BY <1>8, <1>10, <2>2, <2>3, HoldsOn
  <2> QED
    BY <2>4 DEF h
<1>17. /\ frames[th] # <<>> /\ Top(frames[th]).pc = "named"
       /\ f = [Top(frames[th]) EXCEPT !.pc = "captured"]
       /\ frames' = SetTop(th, f) /\ returned' = returned /\ task_id_ctr' = task_id_ctr
       /\ tidToTaskIdMap' = tidToTaskIdMap
       /\ temp_cur_map' = MapInsert(temp_cur_map, Top(frames[th]).child, s.node)
  BY <1>1, <1>2 DEF old, f, id
<1>18. /\ Shaped(tgraph_nodes') /\ Keeps(tgraph_nodes, tgraph_nodes')
       /\ Known(tgraph_nodes') = Known(tgraph_nodes) \cup {Top(frames[th]).child}
       /\ OwnNode(tgraph_nodes', s.node, Top(frames[th]).child)
       /\ IsLast(tgraph_nodes', Top(frames[th]).child, tgraph_nodes'[s.node].cur_step)
       /\ \A t : t # Top(frames[th]).task /\ t # Top(frames[th]).child =>
             GrowsBeside(tgraph_nodes, tgraph_nodes', t)
  BY <1>2, <1>11, <1>13, Zenon DEF old, id, g
<1>19. /\ \A t \in Threads : t # th => cur'[t] = cur[t]
       /\ Laid(tgraph_nodes, frames[th], cur[th], L)
       /\ \A i \in 1..L[Len(frames[th])] : cur'[th][i] = cur[th][i]
       /\ Len(cur'[th]) = L[Len(frames[th])] + Height(f)
       /\ Holds(tgraph_nodes', f, cur'[th], L[Len(frames[th])])
  BY <1>2, <1>4, <1>10, <1>14, <1>15 DEF c, k
<1> QED
  BY <1>17, <1>18, <1>19, CaptureTidy

\* The stack of one thread changes; the frames of the others stay, or inherit.
LEMMA LayoutsBut ==
    ASSUME NEW g, NEW h, Keeps(g, h), NEW fr, NEW gr, NEW c, NEW d, Layouts(g, fr, c),
           NEW th \in Threads,
           \A t \in Threads : t # th =>
              /\ d[t] = c[t] /\ Len(gr[t]) = Len(fr[t]) /\ Len(fr[t]) \in Nat
              /\ \A i \in 1..Len(fr[t]) :
                    /\ gr[t][i].task = fr[t][i].task /\ (Open(gr[t][i]) <=> Open(fr[t][i]))
                    /\ fr[t][i].task = 0 \/ GrowsBeside(g, h, fr[t][i].task),
           \E M : Laid(h, gr[th], d[th], M)
    PROVE  Layouts(h, gr, d)
<1> SUFFICES ASSUME NEW t \in Threads, t # th
             PROVE  \E M : Laid(h, gr[t], d[t], M)
  BY DEF Layouts
<1>1. PICK L : Laid(g, fr[t], c[t], L)
  BY DEF Layouts
<1> DEFINE s == fr[t]
           s2 == gr[t]
           ct == c[t]
<1>2. /\ d[t] = ct /\ Len(s2) = Len(s) /\ Len(s) \in Nat /\ Laid(g, s, ct, L)
      /\ \A i \in 1..Len(s) :
            /\ s2[i].task = s[i].task /\ (Open(s2[i]) <=> Open(s[i]))
            /\ s[i].task = 0 \/ GrowsBeside(g, h, s[i].task)
  BY <1>1
<1> HIDE DEF s, s2, ct
<1>3. \E M : Laid(h, s2, ct, M)
  BY <1>2, LaidOn
<1> QED
  BY <1>2, <1>3 DEF s2

\* A tree that does not change keeps its nodes.
LEMMA KeepsSame ==
    ASSUME NEW g
    PROVE  Keeps(g, g) /\ \A t : GrowsBeside(g, g, t)
BY StaysBeside DEF Keeps

\* One more frame, with its node, on the stacks of a thread.
LEMMA LaidPush ==
    ASSUME NEW g, NEW s, NEW c \in Seq(Nat), NEW L, Laid(g, s, c, L), Len(s) \in Nat,
           NEW f, ~Open(f), NEW node \in Nat, OwnNode(g, node, f.task),
           IsLast(g, f.task, g[node].cur_step),
           NEW s2, Len(s2) = Len(s) + 1, s2[Len(s) + 1] = f, \A i \in 1..Len(s) : s2[i] = s[i]
    PROVE  \E M : Laid(g, s2, Append(c, node), M)
<1> DEFINE d == Append(c, node)
           m == Len(s)
<1>1. L[m + 1] = Len(c) /\ Len(c) \in Nat
  BY DEF Laid
<1>2. Len(d) = Len(c) + 1 /\ d[Len(c) + 1] = node /\ \A i \in 1..Len(c) : d[i] = c[i]
  BY <1>1
<1>3. Height(f) = 1
  BY DEF Height
<1> HIDE DEF d
<1>4. Holds(g, f, d, L[m + 1])
  BY <1>1, <1>2, <1>3 DEF Holds
<1>5. Keeps(g, g) /\ \A t : GrowsBeside(g, g, t)
  BY KeepsSame
<1>6. /\ m \in Nat /\ m <= Len(s) /\ Len(s2) = m + 1 /\ Len(s2) # m
      /\ \A i \in 1..m : /\ s2[i].task = s[i].task /\ (Open(s2[i]) <=> Open(s[i]))
                         /\ s[i].task = 0 \/ GrowsBeside(g, g, s[i].task)
      /\ \A i \in 1..L[m + 1] : d[i] = c[i]
      /\ Len(d) = L[m + 1] + Height(s2[m + 1]) /\ Holds(g, s2[m + 1], d, L[m + 1])
  BY <1>1, <1>2, <1>3, <1>4, <1>5
<1> HIDE DEF m
<1>7. \E M : Laid(g, s2, d, M)
  BY <1>5, <1>6, LaidUpTo
<1> QED
  BY <1>7 DEF d

\* CaptureExecute pushes the node of the task on the stack of the thread that runs it.
LEMMA ExecuteTidy ==
    ASSUME DInv, NEW th \in Threads, NEW id \in TaskIds, Execute(th, id)
    PROVE  Tidy'
<1> DEFINE g == tgraph_nodes
           node == temp_cur_map[id]
           F == Started(frames)
           M == DOMAIN temp_cur_map
           K == Known(g)
           R == returned
           n == task_id_ctr
           f == Frame(id)
<1>1. /\ Idle(th) /\ id \in ready /\ id \in M
      /\ cur' = [cur EXCEPT ![th] = Append(@, node)]
      /\ tidToTaskIdMap' = [tidToTaskIdMap EXCEPT ![th] = Append(@, g[node].taskId)]
      /\ temp_cur_map' = Restrict(temp_cur_map, M \ {id})
      /\ tgraph_nodes' = g /\ returned' = R /\ task_id_ctr' = n
      /\ frames' = [frames EXCEPT ![th] = Append(@, f)]
  BY DEF Execute, CaptureExecute, Push
<1>2. /\ Shaped(g) /\ Control(F, M, K, R, n) /\ Stacks(frames)
      /\ Layouts(g, frames, cur) /\ TidsOK(frames, tidToTaskIdMap)
      /\ MapOK(g, temp_cur_map)
      /\ cur \in [Threads -> Seq(Nat)] /\ tidToTaskIdMap \in [Threads -> Seq(Nat)]
      /\ temp_cur_map \in [M -> Nat]
  BY DEF DInv, Tidy, IInv, GraphTypeOK
<1>3. OwnNode(g, node, id) /\ IsLast(g, id, g[node].cur_step) /\ node \in Nat
      /\ g[node].taskId = id
  BY <1>1, <1>2 DEF MapOK, OwnNode
<1>4. \A e \in F : e.pc = "captured" => e.child # id
  <2> SUFFICES ASSUME NEW e \in F, e.pc = "captured"
               PROVE  e.child # id
    OBVIOUS
  <2>1. PICK t \in Threads : \E i \in 1..Len(frames[t]) : e = frames[t][i]
    BY DEF Started
  <2>2. PICK i \in 1..Len(frames[t]) : e = frames[t][i]
    BY <2>1
  <2> QED
    BY <2>2, <1>1 DEF DInv, SchedInv, CallsHoldIds, InCall
<1>5. \A e \in F : e.task # id
  BY <1>1, <1>2 DEF Control, Joined, OnStack
<1> HIDE DEF F, M, K, R, n
<1>6. /\ ~Open(f) /\ f \in FrameType
      /\ Control(F \cup {f}, M \ {id}, K, R, n)
  BY <1>1, <1>2, <1>4, BeginFrame
<1>7. /\ Started(frames') = F \cup {f}
      /\ Stacks(frames')
      /\ \A t \in Threads : t # th => frames'[t] = frames[t]
      /\ Len(frames'[th]) = Len(frames[th]) + 1
      /\ frames'[th][Len(frames[th]) + 1] = f
      /\ \A i \in 1..Len(frames[th]) : frames'[th][i] = frames[th][i]
  BY <1>1, <1>2, <1>5, <1>6, PushStarted DEF F
<1>8. /\ \A t \in Threads : Len(frames[t]) \in Nat
      /\ f.task = id
  <2>1. \A t \in Threads : frames[t] \in Seq(FrameType)
    BY <1>2 DEF Stacks
  <2> QED
    BY <2>1 DEF Frame
<1>9. DOMAIN temp_cur_map' = M \ {id} /\ \A x \in M \ {id} : temp_cur_map'[x] = temp_cur_map[x]
  BY <1>1 DEF Restrict
<1> HIDE DEF node, f
<1>10. /\ cur'[th] = Append(cur[th], node)
       /\ \A t \in Threads : t # th => cur'[t] = cur[t]
       /\ tidToTaskIdMap'[th] = Append(tidToTaskIdMap[th], id)
       /\ \A t \in Threads : t # th => tidToTaskIdMap'[t] = tidToTaskIdMap[t]
  BY <1>1, <1>2, <1>3
<1> HIDE DEF g
<1>11. \E L : Laid(g, frames'[th], cur'[th], L)
  <2> DEFINE s == frames[th]
             s2 == frames'[th]
             c == cur[th]
  <2>1. PICK L : Laid(g, s, c, L)
    BY <1>2 DEF Layouts
  <2>2. /\ c \in Seq(Nat) /\ Len(s) \in Nat /\ Len(s2) = Len(s) + 1 /\ s2[Len(s) + 1] = f
        /\ \A i \in 1..Len(s) : s2[i] = s[i]
        /\ OwnNode(g, node, f.task) /\ IsLast(g, f.task, g[node].cur_step)
    BY <1>2, <1>3, <1>7, <1>8
  <2> HIDE DEF s, s2, c
  <2>3. \E X : Laid(g, s2, Append(c, node), X)
    BY <1>3, <1>6, <2>1, <2>2, LaidPush
  <2> QED
    BY <2>3, <1>10 DEF s2, c
<1>12. Layouts(g, frames', cur')
  <2> DEFINE fr == frames
             gr == frames'
             c == cur
             d == cur'
  <2>1. Keeps(g, g) /\ \A t : GrowsBeside(g, g, t)
    BY KeepsSame
  <2>2. \A t \in Threads : t # th =>
              /\ d[t] = c[t] /\ Len(gr[t]) = Len(fr[t]) /\ Len(fr[t]) \in Nat
              /\ \A i \in 1..Len(fr[t]) :
                    /\ gr[t][i].task = fr[t][i].task /\ (Open(gr[t][i]) <=> Open(fr[t][i]))
                    /\ fr[t][i].task = 0 \/ GrowsBeside(g, g, fr[t][i].task)
    BY <2>1, <1>7, <1>8, <1>10
  <2>3. Layouts(g, fr, c) /\ \E L : Laid(g, gr[th], d[th], L)
    BY <1>2, <1>11
  <2> HIDE DEF fr, gr, c, d
  <2>4. Layouts(g, gr, d)
    BY <2>1, <2>2, <2>3, LayoutsBut
  <2> QED
    BY <2>4 DEF gr, d
<1>13. TidsOK(frames', tidToTaskIdMap')
  <2> SUFFICES ASSUME NEW t \in Threads
               PROVE  /\ Len(frames'[t]) = Len(tidToTaskIdMap'[t]) + Outside(t)
                      /\ \A i \in 1..Len(tidToTaskIdMap'[t]) :
                            tidToTaskIdMap'[t][i] = frames'[t][i + Outside(t)].task
    BY DEF TidsOK
  <2> DEFINE o == Outside(t)
             q == tidToTaskIdMap[t]
             q2 == tidToTaskIdMap'[t]
             s == frames[t]
             s2 == frames'[t]
  <2>1. /\ Len(s) = Len(q) + o /\ \A i \in 1..Len(q) : q[i] = s[i + o].task
        /\ q \in Seq(Nat) /\ Len(s) \in Nat
    BY <1>2, <1>8 DEF TidsOK
  <2>2. o \in Nat
    BY DEF Outside
  <2>3. CASE t # th
    BY <2>1, <2>3, <1>7, <1>10
  <2>4. CASE t = th
    <3>1. /\ q2 = Append(q, id) /\ Len(s2) = Len(s) + 1 /\ s2[Len(s) + 1].task = id
          /\ \A i \in 1..Len(s) : s2[i] = s[i]
      BY <2>4, <1>7, <1>8, <1>10
    <3> HIDE DEF o, q, q2, s, s2
    <3>2. Len(q) \in Nat /\ Len(q2) = Len(q) + 1 /\ q2[Len(q) + 1] = id
          /\ \A i \in 1..Len(q) : q2[i] = q[i]
      BY <2>1, <3>1
    <3>3. Len(s2) = Len(q2) + o
      BY <2>1, <2>2, <3>1, <3>2
    <3>4. ASSUME NEW i \in 1..Len(q2)
          PROVE  q2[i] = s2[i + o].task
      <4>1. CASE i = Len(q) + 1
        <5>1. i + o = Len(s) + 1
          BY <2>1, <2>2, <3>2, <4>1
        <5> QED
          BY <3>1, <3>2, <4>1, <5>1
      <4>2. CASE i # Len(q) + 1
        <5>1. i \in 1..Len(q) /\ i + o \in 1..Len(s)
          BY <2>1, <2>2, <3>2, <4>2
        <5> QED
          BY <2>1, <3>1, <3>2, <5>1
      <4> QED
        BY <4>1, <4>2
    <3> QED
      BY <3>3, <3>4 DEF o, q2, s2
  <2> QED
    BY <2>3, <2>4
<1>14. MapOK(g, temp_cur_map')
  BY <1>2, <1>9 DEF MapOK, M
<1>15. Control(Started(frames'), DOMAIN temp_cur_map', Known(tgraph_nodes'), returned',
               task_id_ctr')
  BY <1>1, <1>6, <1>7, <1>9, Zenon DEF K
<1>16. Shaped(tgraph_nodes') /\ Layouts(tgraph_nodes', frames', cur')
       /\ MapOK(tgraph_nodes', temp_cur_map')
  BY <1>1, <1>2, <1>12, <1>14, Zenon
<1>17. Stacks(frames')
  BY <1>7
<1> QED
  BY <1>13, <1>15, <1>16, <1>17, Zenon DEF Tidy

\* The innermost frame and its nodes leave the stacks of a thread.
LEMMA LaidPop ==
    ASSUME NEW g, NEW s, NEW c, NEW L, Laid(g, s, c, L), Len(s) \in Nat, Len(s) > 0,
           NEW s2, Len(s2) = Len(s) - 1,
           \A i \in 1..Len(s2) : s2[i].task = s[i].task /\ (Open(s2[i]) <=> Open(s[i])),
           NEW d, Len(d) = L[Len(s)], \A i \in 1..L[Len(s)] : d[i] = c[i]
    PROVE  \E M : Laid(g, s2, d, M)
<1> DEFINE m == Len(s) - 1
<1>1. m \in Nat /\ m <= Len(s) /\ m + 1 = Len(s) /\ Len(s2) = m /\ Len(s2) # m + 1
  OBVIOUS
<1>2. Keeps(g, g) /\ \A t : GrowsBeside(g, g, t)
  BY KeepsSame
<1>3. /\ \A i \in 1..m : /\ s2[i].task = s[i].task /\ (Open(s2[i]) <=> Open(s[i]))
                         /\ s[i].task = 0 \/ GrowsBeside(g, g, s[i].task)
      /\ \A i \in 1..L[m + 1] : d[i] = c[i]
      /\ Len(d) = L[m + 1]
  BY <1>1, <1>2
<1> HIDE DEF m
<1> QED
  BY <1>1, <1>2, <1>3, LaidUpTo

\* To inherit opens no phase and closes none.
LEMMA InheritOpen ==
    ASSUME NEW f \in FrameType, NEW id, NEW left \in SUBSET TaskIds
    PROVE  Inherit(f, id, left).task = f.task /\ (Open(Inherit(f, id, left)) <=> Open(f))
<1> DEFINE p == IF id \in f.pending THEN f.pending \cup left ELSE f.pending
           a == IF id \in f.awaited THEN f.awaited \cup left ELSE f.awaited
<1>1. Inherit(f, id, left) = [f EXCEPT !.pending = p, !.awaited = a]
  BY DEF Inherit
<1>2. f.pending = {} <=> p = {}
  OBVIOUS
<1> HIDE DEF p, a
<1> QED
  BY <1>1, <1>2 DEF FrameType, Open

\* CaptureReturn takes the one node of the task off the stack, as its phase is closed.
LEMMA ReturnTidy ==
    ASSUME Discipline, DInv, NEW th \in Threads, Return(th)
    PROVE  Tidy'
<1> DEFINE g == tgraph_nodes
           old == Top(frames[th])
           c == cur[th]
           F == Started(frames)
           M == DOMAIN temp_cur_map
           K == Known(g)
           R == returned
           n == task_id_ctr
           id == old.task
           left == old.pending
           open == PopsOpenFinish /\ g[Top(c)].type = "FINISH" /\ ~g[Top(c)].sp_root_n_wt_flag
<1>1. /\ frames[th] # <<>> /\ old.pc = "run" /\ id # 0
      /\ left # {} => "continuation" \in Styles
      /\ tidToTaskIdMap[th] # <<>>
      /\ tidToTaskIdMap' = [tidToTaskIdMap EXCEPT ![th] = Pop(@)]
      /\ cur' = [cur EXCEPT ![th] = IF open THEN Pop(Pop(@)) ELSE Pop(@)]
      /\ tgraph_nodes' = g /\ temp_cur_map' = temp_cur_map
      /\ returned' = R \cup {id} /\ task_id_ctr' = n
      /\ frames' = [t \in Threads |->
            LET s == IF t = th THEN Pop(frames[t]) ELSE frames[t] IN
            [i \in DOMAIN s |-> Inherit(s[i], id, left)]]
  BY DEF Return, Running, CaptureReturn
<1>2. /\ Shaped(g) /\ Control(F, M, K, R, n) /\ Stacks(frames)
      /\ Layouts(g, frames, cur) /\ TidsOK(frames, tidToTaskIdMap)
      /\ MapOK(g, temp_cur_map)
      /\ cur \in [Threads -> Seq(Nat)] /\ tidToTaskIdMap \in [Threads -> Seq(Nat)]
      /\ frames \in [Threads -> Seq(FrameType)]
  BY DEF DInv, Tidy, IInv, GraphTypeOK, Stacks
<1>3. PICK L : Laid(g, frames[th], c, L)
  BY <1>1, OnTop
<1> DEFINE k == L[Len(frames[th])]
<1>4. /\ old \in FrameType /\ old \in F /\ FrameOK(old) /\ AtTop(g, old, c, k)
      /\ Len(frames[th]) \in Nat /\ Len(frames[th]) > 0
  BY <1>1, <1>3, OnTop
<1>5. left \in SUBSET TaskIds
  BY <1>4 DEF FrameType
<1> HIDE DEF k, F, M, K, R, n
\* CaptureReturn pops the phase exactly if one is open.
<1>6. open <=> Open(old)
  <2>1. ~PopsOpenFinish => ~Open(old)
    BY <1>1 DEF Discipline, Open
  <2>2. Top(c) # 1
    BY <1>1, <1>2, <1>4 DEF AtTop, Shaped
  <2>3. Open(old) <=> IsPhase(g, Top(c))
    BY <1>4 DEF AtTop
  <2> HIDE DEF old
  <2> QED
    BY <2>1, <2>2, <2>3 DEF IsPhase
<1> HIDE DEF open
<1>7. /\ Len(cur'[th]) = k /\ \A i \in 1..k : cur'[th][i] = c[i]
      /\ \A t \in Threads : t # th => cur'[t] = cur[t]
  <2>1. /\ cur'[th] = IF Open(old) THEN Pop(Pop(c)) ELSE Pop(c)
        /\ \A t \in Threads : t # th => cur'[t] = cur[t]
    BY <1>1, <1>2, <1>6
  <2>2. c \in Seq(Nat) /\ k \in Nat /\ c # <<>>
        /\ (Open(old) => Len(c) = k + 2) /\ (~Open(old) => Len(c) = k + 1)
    BY <1>2, <1>4 DEF AtTop
  <2> DEFINE p == Pop(c)
             d == cur'[th]
             o == Open(old)
  <2>3. p \in Seq(Nat) /\ Len(p) = Len(c) - 1 /\ \A i \in 1..(Len(c) - 1) : p[i] = c[i]
    BY <2>2, StackFacts
  <2>4. d = IF o THEN Pop(p) ELSE p
    BY <2>1
  <2>5. (o => Len(c) = k + 2) /\ (~o => Len(c) = k + 1)
    BY <2>2
  <2> HIDE DEF p, d, o, c
  <2>6. CASE o
    <3>1. p # <<>> /\ Len(p) = k + 1
      BY <2>2, <2>3, <2>5, <2>6
    <3>2. Len(Pop(p)) = k /\ \A i \in 1..k : Pop(p)[i] = p[i]
      <4>1. p \in Seq(Nat)
        BY <2>3
      <4>2. Len(Pop(p)) = Len(p) - 1 /\ \A i \in 1..(Len(p) - 1) : Pop(p)[i] = p[i]
        BY <3>1, <4>1, StackFacts, Zenon
      <4> QED
        BY <2>2, <3>1, <4>2
    <3>3. d = Pop(p) /\ k \in Nat /\ Len(c) = k + 2
      BY <2>2, <2>4, <2>5, <2>6
    <3>4. Len(d) = k /\ \A i \in 1..k : d[i] = c[i]
      BY <2>3, <3>2, <3>3
    <3> QED
      BY <2>1, <3>4, Zenon DEF d, c
  <2>7. CASE ~o
    <3>1. d = p /\ k \in Nat /\ Len(c) = k + 1
      BY <2>2, <2>4, <2>5, <2>7
    <3>2. Len(d) = k /\ \A i \in 1..k : d[i] = c[i]
      BY <2>3, <3>1
    <3> QED
      BY <2>1, <3>2, Zenon DEF d, c
  <2> QED
    BY <2>6, <2>7
<1>8. /\ frames' \in [Threads -> Seq(FrameType)]
      /\ \A t \in Threads :
            /\ Len(frames'[t]) = Remaining(frames, th, t)
            /\ Remaining(frames, th, t) \in Nat
            /\ \A i \in 1..Remaining(frames, th, t) :
                  /\ i \in 1..Len(frames[t])
                  /\ frames'[t][i] = Inherit(frames[t][i], id, left)
  <2> HIDE DEF id, left
  <2> QED
    BY <1>1, <1>2, <1>5, PoppedFrames
<1>9. /\ Started(frames') = Heirs(F, old)
      /\ Stacks(frames')
  <2> DEFINE fr == frames
             gr == frames'
             x == id
             y == left
  <2>1. /\ Stacks(fr) /\ fr[th] # <<>> /\ Top(fr[th]).task # 0
        /\ gr \in [Threads -> Seq(FrameType)] /\ y \in SUBSET TaskIds
        /\ \A t \in Threads :
              /\ Len(gr[t]) = Remaining(fr, th, t)
              /\ Remaining(fr, th, t) \in Nat
              /\ \A i \in 1..Remaining(fr, th, t) :
                    i \in 1..Len(fr[t]) /\ gr[t][i] = Inherit(fr[t][i], x, y)
    BY <1>1, <1>2, <1>5, <1>8
  <2> HIDE DEF fr, gr, x, y
  <2>2. /\ Started(gr) = {Inherit(e, x, y) : e \in Started(fr) \ {Top(fr[th])}}
        /\ Stacks(gr)
    BY <2>1, PopStarted
  <2> QED
    BY <2>2, Zenon DEF fr, gr, x, y, F, Heirs
<1>10. Control(Heirs(F, old), M, K, R \cup {id}, n)
  <2>1. old \in F /\ old.pc = "run" /\ old.task # 0
    BY <1>1, <1>4
  <2> DEFINE o == old
  <2> HIDE DEF o
  <2>2. o \in F /\ o.pc = "run" /\ o.task # 0
    BY <2>1 DEF o
  <2>4. Control(F, M, K, R, n)
    BY <1>2
  <2>3. Control(Heirs(F, o), M, K, R \cup {o.task}, n)
    BY <2>2, <2>4, EndFrame
  <2> QED
    BY <2>3 DEF o
<1>11. \A t \in Threads : \A i \in 1..Len(frames'[t]) :
          /\ i \in 1..Len(frames[t])
          /\ frames'[t][i].task = frames[t][i].task
          /\ Open(frames'[t][i]) <=> Open(frames[t][i])
  <2> SUFFICES ASSUME NEW t \in Threads, NEW i \in 1..Len(frames'[t])
               PROVE  /\ i \in 1..Len(frames[t])
                      /\ frames'[t][i].task = frames[t][i].task
                      /\ Open(frames'[t][i]) <=> Open(frames[t][i])
    OBVIOUS
  <2> DEFINE e == frames[t][i]
             x == id
             y == left
  <2>1. i \in 1..Len(frames[t]) /\ frames'[t][i] = Inherit(e, x, y) /\ y \in SUBSET TaskIds
    BY <1>5, <1>8
  <2>2. e \in FrameType
    BY <1>2, <2>1
  <2> HIDE DEF e, x, y
  <2>4. y \in SUBSET TaskIds
    BY <2>1
  <2>3. Inherit(e, x, y).task = e.task /\ (Open(Inherit(e, x, y)) <=> Open(e))
    BY <2>2, <2>4, InheritOpen, Zenon
  <2> QED
    BY <2>1, <2>3 DEF e
<1>12. /\ Len(frames'[th]) = Len(frames[th]) - 1
       /\ \A t \in Threads : t # th => Len(frames'[t]) = Len(frames[t])
       /\ \A t \in Threads : Len(frames[t]) \in Nat
  BY <1>2, <1>8 DEF Remaining
<1> HIDE DEF old, id, left, g
<1>13. \E X : Laid(g, frames'[th], cur'[th], X)
  <2> DEFINE s == frames[th]
             s2 == frames'[th]
             d == cur'[th]
  <2>1. /\ Laid(g, s, c, L) /\ Len(s) \in Nat /\ Len(s) > 0 /\ Len(s2) = Len(s) - 1
        /\ \A i \in 1..Len(s2) : s2[i].task = s[i].task /\ (Open(s2[i]) <=> Open(s[i]))
        /\ Len(d) = L[Len(s)] /\ \A i \in 1..L[Len(s)] : d[i] = c[i]
    BY <1>3, <1>4, <1>7, <1>11, <1>12 DEF k
  <2> HIDE DEF s, s2, d, c
  <2>2. \E X : Laid(g, s2, d, X)
    BY <2>1, LaidPop
  <2> QED
    BY <2>2 DEF s2, d
<1> HIDE DEF c
<1>14. Layouts(g, frames', cur')
  <2> DEFINE fr == frames
             gr == frames'
             cc == cur
             d == cur'
  <2>1. Keeps(g, g) /\ \A t : GrowsBeside(g, g, t)
    BY KeepsSame
  <2>2. \A t \in Threads : t # th =>
              /\ d[t] = cc[t] /\ Len(gr[t]) = Len(fr[t]) /\ Len(fr[t]) \in Nat
              /\ \A i \in 1..Len(fr[t]) :
                    /\ gr[t][i].task = fr[t][i].task /\ (Open(gr[t][i]) <=> Open(fr[t][i]))
                    /\ fr[t][i].task = 0 \/ GrowsBeside(g, g, fr[t][i].task)
    BY <2>1, <1>7, <1>11, <1>12
  <2>3. Layouts(g, fr, cc) /\ \E X : Laid(g, gr[th], d[th], X)
    BY <1>2, <1>13
  <2> HIDE DEF fr, gr, cc, d
  <2>4. Layouts(g, gr, d)
    BY <2>1, <2>2, <2>3, LayoutsBut
  <2> QED
    BY <2>4 DEF gr, d
<1>15. TidsOK(frames', tidToTaskIdMap')
  <2> SUFFICES ASSUME NEW t \in Threads
               PROVE  /\ Len(frames'[t]) = Len(tidToTaskIdMap'[t]) + Outside(t)
                      /\ \A i \in 1..Len(tidToTaskIdMap'[t]) :
                            tidToTaskIdMap'[t][i] = frames'[t][i + Outside(t)].task
    BY DEF TidsOK
  <2> DEFINE o == Outside(t)
             q == tidToTaskIdMap[t]
             q2 == tidToTaskIdMap'[t]
             s == frames[t]
             s2 == frames'[t]
  <2>1. /\ Len(s) = Len(q) + o /\ \A i \in 1..Len(q) : q[i] = s[i + o].task
        /\ q \in Seq(Nat) /\ Len(s) \in Nat
        /\ \A i \in 1..Len(s2) : s2[i].task = s[i].task
    BY <1>2, <1>11, <1>12 DEF TidsOK
  <2>2. o \in Nat
    BY DEF Outside
  <2>3. CASE t # th
    <3>1. q2 = q /\ Len(s2) = Len(s)
      BY <2>3, <1>1, <1>2, <1>12
    <3> HIDE DEF o, q, q2, s, s2
    <3>2. \A i \in 1..Len(q) : i + o \in 1..Len(s2)
      BY <2>1, <2>2, <3>1
    <3>3. Len(s2) = Len(q2) + o /\ \A i \in 1..Len(q2) : q2[i] = s2[i + o].task
      BY <2>1, <3>1, <3>2
    <3> QED
      BY <3>3 DEF o, q2, s2
  <2>4. CASE t = th
    <3>1. q # <<>> /\ q2 = Pop(q) /\ Len(s2) = Len(s) - 1
      BY <2>4, <1>1, <1>2, <1>12
    <3> HIDE DEF o, q, q2, s, s2
    <3>2. Len(q) \in Nat /\ Len(q2) = Len(q) - 1 /\ \A i \in 1..(Len(q) - 1) : q2[i] = q[i]
      <4>1. q \in Seq(Nat) /\ q # <<>>
        BY <2>1, <3>1
      <4>2. Len(Pop(q)) = Len(q) - 1 /\ \A i \in 1..(Len(q) - 1) : Pop(q)[i] = q[i]
        BY <4>1, StackFacts, Zenon
      <4> QED
        BY <4>1, <4>2, <3>1
    <3>3. \A i \in 1..Len(q2) : i \in 1..Len(q) /\ i + o \in 1..Len(s2)
      BY <2>1, <2>2, <3>1, <3>2
    <3>4. Len(s2) = Len(q2) + o /\ \A i \in 1..Len(q2) : q2[i] = s2[i + o].task
      BY <2>1, <2>2, <3>1, <3>2, <3>3
    <3> QED
      BY <3>4 DEF o, q2, s2
  <2> QED
    BY <2>3, <2>4
<1>16. Control(Started(frames'), DOMAIN temp_cur_map', Known(tgraph_nodes'), returned',
               task_id_ctr')
  BY <1>1, <1>9, <1>10, Zenon DEF K, M
<1>17. Shaped(tgraph_nodes') /\ Layouts(tgraph_nodes', frames', cur')
       /\ MapOK(tgraph_nodes', temp_cur_map')
  BY <1>1, <1>2, <1>14, Zenon
<1>18. Stacks(frames')
  BY <1>9
<1> QED
  BY <1>15, <1>16, <1>17, <1>18, Zenon DEF Tidy

\* A wait is over: the frame of the task that goes on.
LEMMA ResumedFrame ==
    ASSUME DInv, NEW th \in Threads, Resume(th)
    PROVE  LET old == Top(frames[th])
               f == [old EXCEPT !.pc = "run", !.kind = "none", !.child = 0,
                                !.awaited = {}, !.pending = {}]
           IN  /\ frames[th] # <<>> /\ old.pc = "waiting" /\ frames' = SetTop(th, f)
               /\ f \in FrameType /\ f.task = old.task /\ ~Open(f)
               /\ old.kind = "root" => ~Open(old)
               /\ old.kind # "root" => Open(old)
               /\ task_id_ctr' = task_id_ctr /\ returned' = returned
               /\ Control((Started(frames) \ {old}) \cup {f}, DOMAIN temp_cur_map,
                          Known(tgraph_nodes), returned, task_id_ctr)
<1> DEFINE old == Top(frames[th])
           f == [old EXCEPT !.pc = "run", !.kind = "none", !.child = 0,
                            !.awaited = {}, !.pending = {}]
           F == Started(frames)
           M == DOMAIN temp_cur_map
           K == Known(tgraph_nodes)
           R == returned
           n == task_id_ctr
<1>1. /\ frames[th] # <<>> /\ old.pc = "waiting" /\ old.awaited \subseteq R
      /\ frames' = SetTop(th, [old EXCEPT !.pc = "run", !.kind = "none", !.child = 0,
                                          !.awaited = {},
                                          !.pending = IF old.kind = "root" THEN @ ELSE {}])
      /\ task_id_ctr' = n /\ returned' = R
  BY DEF Resume
<1>2. old \in FrameType /\ old \in F /\ FrameOK(old)
  BY <1>1, OnTop
<1>3. Control(F, M, K, R, n)
  BY DEF DInv, Tidy
<1>4. 0 \in 0..MaxTasks
  BY TaskAssumption
<1>11. frames' = SetTop(th, f)
  <2>1. old.kind = "root" => old.pending = {}
    BY <1>2 DEF FrameOK
  <2> QED
    BY <1>1, <2>1
<1> HIDE DEF old, F, M, K, R, n
<1>5. /\ f \in FrameType /\ f.task = old.task /\ f.pc = "run" /\ f.kind = "none"
      /\ f.pending = {} /\ f.awaited = {}
  BY <1>2, <1>4 DEF FrameType
<1>6. /\ old.kind = "root" => old.pending = {} /\ ~Open(old)
      /\ old.kind # "root" => Open(old)
  BY <1>1, <1>2 DEF FrameOK, Open
<1> HIDE DEF f
<1>8. ~Open(f)
  BY <1>5 DEF Open
<1>9. old \in F /\ old.pc = "waiting" /\ old.awaited \subseteq R
  BY <1>1, <1>2
<1>10. Control((F \ {old}) \cup {f}, M, K, R, n)
  BY <1>3, <1>5, <1>9, JoinFrame
<1> QED
  BY <1>1, <1>5, <1>6, <1>8, <1>10, <1>11, Zenon DEF old, f, F, M, K, R, n

\* The end of a spawn_root_and_wait leaves the stacks of nodes as they are.
LEMMA ResumeRootTidy ==
    ASSUME DInv, NEW th \in Threads, Resume(th), Top(frames[th]).kind = "root"
    PROVE  Tidy'
<1> DEFINE g == tgraph_nodes
           old == Top(frames[th])
           f == [old EXCEPT !.pc = "run", !.kind = "none", !.child = 0,
                            !.awaited = {}, !.pending = {}]
<1>1. /\ frames[th] # <<>> /\ frames' = SetTop(th, f)
      /\ f \in FrameType /\ f.task = old.task /\ ~Open(f) /\ ~Open(old)
      /\ task_id_ctr' = task_id_ctr /\ returned' = returned
      /\ Control((Started(frames) \ {old}) \cup {f}, DOMAIN temp_cur_map,
                 Known(g), returned, task_id_ctr)
  BY ResumedFrame, Zenon
<1>2. /\ tgraph_nodes' = g /\ cur' = cur /\ temp_cur_map' = temp_cur_map
      /\ tidToTaskIdMap' = tidToTaskIdMap
  BY DEF Resume, graphVars
<1>3. PICK L : Laid(g, frames[th], cur[th], L)
  BY <1>1, OnTop
<1> DEFINE k == L[Len(frames[th])]
<1>4. AtTop(g, old, cur[th], k)
  BY <1>1, <1>3, OnTop
<1> HIDE DEF f, k
<1>5. /\ Len(cur[th]) = k + Height(f)
      /\ Holds(g, f, cur[th], k)
  <2> HIDE DEF old
  <2> QED
    BY <1>1, <1>4 DEF AtTop, Holds, Height
<1>6. Keeps(g, g) /\ \A t : GrowsBeside(g, g, t)
  BY KeepsSame
<1>7. Shaped(g) /\ MapOK(g, temp_cur_map)
  BY DEF DInv, Tidy
<1>8. /\ Shaped(tgraph_nodes') /\ Keeps(tgraph_nodes, tgraph_nodes')
      /\ MapOK(tgraph_nodes', temp_cur_map')
      /\ Control((Started(frames) \ {Top(frames[th])}) \cup {f}, DOMAIN temp_cur_map',
                 Known(tgraph_nodes'), returned', task_id_ctr')
  BY <1>1, <1>2, <1>6, <1>7, Zenon
<1>9. \A e \in Started(frames) : e # Top(frames[th]) =>
         e.task = 0 \/ GrowsBeside(tgraph_nodes, tgraph_nodes', e.task)
  BY <1>2, <1>6
<1>10. /\ \A t \in Threads : t # th => cur'[t] = cur[t]
       /\ Laid(tgraph_nodes, frames[th], cur[th], L)
       /\ \A i \in 1..L[Len(frames[th])] : cur'[th][i] = cur[th][i]
       /\ Len(cur'[th]) = L[Len(frames[th])] + Height(f)
       /\ Holds(tgraph_nodes', f, cur'[th], L[Len(frames[th])])
  BY <1>2, <1>3, <1>5 DEF k
<1>11. f.task = Top(frames[th]).task
  BY <1>1
<1> QED
  BY <1>1, <1>2, <1>8, <1>9, <1>10, <1>11, GrowTidy

\* CaptureWait takes the phase off the stack; its task goes on in a new step below its node.
LEMMA ResumeWaitTidy ==
    ASSUME DInv, NEW th \in Threads, Resume(th), Top(frames[th]).kind # "root"
    PROVE  Tidy'
<1> DEFINE g == tgraph_nodes
           old == Top(frames[th])
           c == cur[th]
           own == Top(Pop(c))
           h == AddStep(g, own)
           tid == old.task
           f == [old EXCEPT !.pc = "run", !.kind = "none", !.child = 0,
                            !.awaited = {}, !.pending = {}]
<1>1. /\ frames[th] # <<>> /\ frames' = SetTop(th, f)
      /\ f \in FrameType /\ f.task = tid /\ ~Open(f) /\ Open(old)
      /\ task_id_ctr' = task_id_ctr /\ returned' = returned
      /\ Control((Started(frames) \ {old}) \cup {f}, DOMAIN temp_cur_map,
                 Known(g), returned, task_id_ctr)
  BY ResumedFrame, Zenon
<1>2. /\ tgraph_nodes' = h /\ cur' = [cur EXCEPT ![th] = Pop(c)]
      /\ temp_cur_map' = temp_cur_map /\ tidToTaskIdMap' = tidToTaskIdMap
  BY DEF Resume, CaptureWaitOnly
<1>3. PICK L : Laid(g, frames[th], c, L)
  BY <1>1, OnTop
<1> DEFINE k == L[Len(frames[th])]
<1>4. AtTop(g, old, c, k) /\ old \in Started(frames)
  BY <1>1, <1>3, OnTop
<1>5. /\ WellFormed(g) /\ Shaped(g) /\ cur \in [Threads -> Seq(Nat)]
      /\ MapOK(g, temp_cur_map)
      /\ Control(Started(frames), DOMAIN temp_cur_map, Known(g), returned, task_id_ctr)
  BY DEF DInv, IInv, Tidy, GraphTypeOK
<1> HIDE DEF f, k, h
<1>6. c \in Seq(Nat) /\ c # <<>> /\ k \in Nat /\ Len(c) = k + 2
      /\ OwnNode(g, c[k + 1], tid)
  BY <1>1, <1>4, <1>5 DEF AtTop, Holds
<1>7. /\ Len(Pop(c)) = k + 1 /\ \A i \in 1..(k + 1) : Pop(c)[i] = c[i]
      /\ own = c[k + 1]
  <2>1. Len(Pop(c)) = Len(c) - 1 /\ \A i \in 1..(Len(c) - 1) : Pop(c)[i] = c[i]
    BY <1>6, StackFacts, Zenon
  <2>2. Len(Pop(c)) = k + 1 /\ \A i \in 1..(k + 1) : Pop(c)[i] = c[i]
    BY <1>6, <2>1
  <2>3. k + 1 \in 1..(k + 1)
    BY <1>6
  <2> QED
    BY <2>2, <2>3 DEF Top
<1>8. /\ own \in Nodes(g) /\ g[own].type # "STEP" /\ g[own].taskId = tid
      /\ OwnNode(g, own, tid)
  BY <1>6, <1>7 DEF OwnNode, IsTask
<1> HIDE DEF own, tid
<1>9. /\ \A t : t # tid => GrowsBeside(g, h, t)
      /\ Known(h) = Known(g)
      /\ \A n \in Nodes(g) : n \in Nodes(h) /\ (IsTask(h, n) <=> IsTask(g, n))
                             /\ h[n].taskId = g[n].taskId
      /\ IsLast(h, tid, h[own].cur_step)
      /\ Shaped(h)
  <2> HIDE DEF g
  <2>1. /\ \A t : t # g[own].taskId => GrowsBeside(g, h, t)
        /\ Known(h) = Known(g)
        /\ \A n \in Nodes(g) : n \in Nodes(h) /\ (IsTask(h, n) <=> IsTask(g, n))
                               /\ h[n].taskId = g[n].taskId
        /\ IsLast(h, g[own].taskId, h[own].cur_step)
    BY <1>5, <1>8, StepGrows DEF h
  <2>2. Shaped(h)
    BY <1>5, <1>8, StepShaped DEF h
  <2> QED
    BY <1>8, <2>1, <2>2, Zenon
<1>10. Keeps(g, h)
  <2>1. tid \in Nat
    BY <1>4, <1>5, TaskAssumption DEF Control, FramesOK, FrameType, tid
  <2>2. tid + 1 # tid
    BY <2>1
  <2>3. GrowsBeside(g, h, tid + 1)
    BY <1>9, <2>2
  <2> QED
    BY <2>3 DEF GrowsBeside, Keeps
<1>11. OwnNode(h, own, tid)
  BY <1>8, <1>9 DEF OwnNode
<1>12. \A e \in Started(frames) : e # old => e.task # tid
  BY <1>4, <1>5 DEF Control, FramesOK, tid
<1>13. \A x \in DOMAIN temp_cur_map : x # tid
  BY <1>4, <1>5 DEF Control, Joined, OnStack, tid
<1>14. MapOK(h, temp_cur_map)
  <2> SUFFICES ASSUME NEW x \in DOMAIN temp_cur_map
               PROVE  /\ OwnNode(h, temp_cur_map[x], x)
                      /\ IsLast(h, x, h[temp_cur_map[x]].cur_step)
    BY DEF MapOK
  <2> DEFINE y == temp_cur_map[x]
  <2>1. OwnNode(g, y, x) /\ IsLast(g, x, g[y].cur_step) /\ GrowsBeside(g, h, x)
    BY <1>5, <1>9, <1>13 DEF MapOK
  <2> HIDE DEF y, g
  <2>2. OwnNode(h, y, x) /\ IsLast(h, x, h[y].cur_step)
    BY <2>1, LastStays
  <2> QED
    BY <2>2 DEF y
<1>15. Height(f) = 1
  BY <1>1 DEF Height
<1> DEFINE d == cur'[th]
<1>16. d = Pop(c) /\ \A t \in Threads : t # th => cur'[t] = cur[t]
  BY <1>2, <1>5
<1>17. /\ Len(d) = k + 1 /\ d[k + 1] = own /\ \A i \in 1..k : d[i] = c[i]
  <2>1. k + 1 \in 1..(k + 1) /\ \A i \in 1..k : i \in 1..(k + 1)
    BY <1>6
  <2> QED
    BY <1>7, <1>16, <2>1
<1> HIDE DEF d, c, old
<1>18. Holds(h, f, d, k)
  BY <1>1, <1>9, <1>11, <1>15, <1>17 DEF Holds
<1>19. /\ Shaped(tgraph_nodes') /\ Keeps(tgraph_nodes, tgraph_nodes')
       /\ MapOK(tgraph_nodes', temp_cur_map')
       /\ Control((Started(frames) \ {Top(frames[th])}) \cup {f}, DOMAIN temp_cur_map',
                  Known(tgraph_nodes'), returned', task_id_ctr')
  BY <1>1, <1>2, <1>9, <1>10, <1>14, Zenon DEF old
<1>20. \A e \in Started(frames) : e # Top(frames[th]) =>
         e.task = 0 \/ GrowsBeside(tgraph_nodes, tgraph_nodes', e.task)
  BY <1>2, <1>9, <1>12 DEF old
<1>21. /\ \A t \in Threads : t # th => cur'[t] = cur[t]
       /\ Laid(tgraph_nodes, frames[th], cur[th], L)
       /\ \A i \in 1..L[Len(frames[th])] : cur'[th][i] = cur[th][i]
       /\ Len(cur'[th]) = L[Len(frames[th])] + Height(f)
       /\ Holds(tgraph_nodes', f, cur'[th], L[Len(frames[th])])
  BY <1>2, <1>3, <1>15, <1>16, <1>17, <1>18 DEF k, c, d
<1>22. f.task = Top(frames[th]).task /\ f \in FrameType /\ frames[th] # <<>>
       /\ frames' = SetTop(th, f) /\ tidToTaskIdMap' = tidToTaskIdMap
  BY <1>1, <1>2 DEF old, tid
<1> QED
  BY <1>19, <1>20, <1>21, <1>22, GrowTidy

\* At first main runs outside any task, on the root of the tree.
LEMMA InitTidy == Init => Tidy
<1> SUFFICES ASSUME Init PROVE Tidy
  OBVIOUS
<1> DEFINE f == Frame(0)
<1>1. /\ tgraph_nodes = HeadTree /\ temp_cur_map = <<>> /\ task_id_ctr = 0 /\ returned = {}
      /\ cur = [t \in Threads |-> IF t = MainThread THEN <<1>> ELSE <<>>]
      /\ tidToTaskIdMap = [t \in Threads |-> <<>>]
      /\ frames = [t \in Threads |-> IF t = MainThread THEN <<f>> ELSE <<>>]
      /\ MainThread \in Threads
  BY GraphAssumption DEF Init, GraphInit
<1>2. /\ f.task = 0 /\ f.pc = "run" /\ f.kind = "none" /\ f.child = 0
      /\ f.pending = {} /\ f.awaited = {}
  BY DEF Frame
<1>3. f \in FrameType
  <2>1. 0 \in 0..MaxTasks /\ {} \in SUBSET TaskIds
    BY TaskAssumption
  <2> QED
    BY <2>1 DEF Frame, FrameType
<1> HIDE DEF f
<1>4. Joins(f) = {} /\ ~Open(f)
  BY <1>2 DEF Joins, Open
<1>5. FrameOK(f)
  BY <1>2, <1>4 DEF FrameOK
<1>6. /\ frames \in [Threads -> Seq(FrameType)]
      /\ Len(frames[MainThread]) = 1 /\ frames[MainThread][1] = f
      /\ \A t \in Threads : t # MainThread => frames[t] = <<>> /\ Len(frames[t]) = 0
  BY <1>1, <1>3
<1>7. Started(frames) = {f}
  <2>1. \A t \in Threads : \A i \in 1..Len(frames[t]) : frames[t][i] = f
    <3> SUFFICES ASSUME NEW t \in Threads, NEW i \in 1..Len(frames[t])
                 PROVE  frames[t][i] = f
      OBVIOUS
    <3>1. t = MainThread
      BY <1>6
    <3>3. Len(frames[t]) = 1
      BY <1>6, <3>1
    <3>2. i = 1
      BY <3>3
    <3> QED
      BY <1>6, <3>1, <3>2
  <2>2. 1 \in 1..Len(frames[MainThread])
    BY <1>6
  <2>3. ASSUME NEW x
        PROVE  x \in Started(frames) <=> x = f
    BY <1>1, <1>6, <2>1, <2>2, StartedIs
  <2> QED
    BY <2>3
<1>8. Stacks(frames)
  <2>1. \A t \in Threads : \A i \in 1..Len(frames[t]) :
           t = MainThread /\ i = 1 /\ frames[t][i] = f
    <3> SUFFICES ASSUME NEW t \in Threads, NEW i \in 1..Len(frames[t])
                 PROVE  t = MainThread /\ i = 1 /\ frames[t][i] = f
      OBVIOUS
    <3>1. t = MainThread
      BY <1>6
    <3>3. Len(frames[t]) = 1
      BY <1>6, <3>1
    <3>2. i = 1
      BY <3>3
    <3> QED
      BY <1>6, <3>1, <3>2
  <2>2. Len(frames[MainThread]) > 0
    BY <1>6
  <2>3. ASSUME NEW t \in Threads, NEW i \in 1..Len(frames[t])
        PROVE  ~(i < Len(frames[t]))
    BY <1>6, <2>1
  <2> QED
    BY <1>2, <1>6, <2>1, <2>2, <2>3 DEF Stacks
<1>9. /\ Nodes(HeadTree) = {1} /\ HeadTree[1].taskId = 0 /\ HeadTree[1].type = "FINISH"
  BY DEF Nodes, HeadTree, NewNode
<1>10. Known(HeadTree) = {0} /\ OwnNode(HeadTree, 1, 0)
  BY <1>9 DEF Known, OwnNode, IsTask, IsPhase
<1>11. Control({f}, {}, {0}, {}, 0)
  <2>1. Live({f}) = {} /\ OnStack({f}) = {0}
    BY <1>2, <1>4 DEF Live, OnStack
  <2>2. FramesOK({f})
    BY <1>3, <1>5 DEF FramesOK
  <2>3. Joined({f}, {}, {})
    BY <1>2, <2>1 DEF Joined
  <2>4. Captures({f}, {}, {0}, {}, 0)
    <3>1. 0 \in Nat /\ {0} \subseteq 0..0
      OBVIOUS
    <3> QED
      BY <1>2, <2>1, <3>1 DEF Captures
  <2> QED
    BY <2>2, <2>3, <2>4 DEF Control
<1>12. DOMAIN temp_cur_map = {}
  BY <1>1
<1>13. Control(Started(frames), DOMAIN temp_cur_map, Known(tgraph_nodes), returned,
               task_id_ctr)
  BY <1>1, <1>7, <1>10, <1>11, <1>12
<1>14. Layouts(tgraph_nodes, frames, cur)
  <2> SUFFICES ASSUME NEW t \in Threads
               PROVE  \E L : Laid(HeadTree, frames[t], cur[t], L)
    BY <1>1 DEF Layouts
  <2>1. CASE t = MainThread
    <3> DEFINE s == frames[t]
               L == [i \in 1..2 |-> i - 1]
               c == <<1>>
    <3>1. Len(s) = 1 /\ s[1] = f /\ cur[t] = c
      BY <2>1, <1>1, <1>6
    <3>2. L \in [1..2 -> Nat] /\ L[1] = 0 /\ L[2] = 1 /\ Len(c) = 1 /\ c[1] = 1
      OBVIOUS
    <3>3. Height(f) = 1
      BY <1>4 DEF Height
    <3> HIDE DEF s, L, c
    <3>4. Holds(HeadTree, f, c, L[1])
      BY <1>2, <1>4, <1>10, <3>2 DEF Holds
    <3>5. \A i \in 1..1 : i = 1
      OBVIOUS
    <3>6. \A i \in 1..2 : i = 1 \/ i = 2
      OBVIOUS
    <3>7. /\ L \in [1..(Len(s) + 1) -> Nat]
          /\ L[1] = 0 /\ L[Len(s) + 1] = Len(c)
          /\ \A i \in 1..Len(s) :
                L[i + 1] = L[i] + Height(s[i]) /\ Holds(HeadTree, s[i], c, L[i])
          /\ \A i, j \in 1..(Len(s) + 1) : i <= j => L[i] <= L[j]
      BY <3>1, <3>2, <3>3, <3>4, <3>5, <3>6
    <3>8. Laid(HeadTree, s, c, L)
      BY <3>7 DEF Laid
    <3> QED
      BY <3>1, <3>8 DEF s
  <2>2. CASE t # MainThread
    <3> DEFINE s == frames[t]
               L == [i \in 1..1 |-> 0]
               c == cur[t]
    <3>1. Len(s) = 0 /\ Len(c) = 0
      BY <2>2, <1>1, <1>6
    <3>2. L \in [1..1 -> Nat] /\ L[1] = 0
      OBVIOUS
    <3>3. \A i \in 1..1 : i = 1
      OBVIOUS
    <3> HIDE DEF s, L, c
    <3>4. /\ L \in [1..(Len(s) + 1) -> Nat]
          /\ L[1] = 0 /\ L[Len(s) + 1] = Len(c)
          /\ \A i \in 1..Len(s) :
                L[i + 1] = L[i] + Height(s[i]) /\ Holds(HeadTree, s[i], c, L[i])
          /\ \A i, j \in 1..(Len(s) + 1) : i <= j => L[i] <= L[j]
      BY <3>1, <3>2, <3>3
    <3>5. Laid(HeadTree, s, c, L)
      BY <3>4 DEF Laid
    <3> QED
      BY <3>5 DEF s, c
  <2> QED
    BY <2>1, <2>2
<1>15. TidsOK(frames, tidToTaskIdMap)
  <2> SUFFICES ASSUME NEW t \in Threads
               PROVE  /\ Len(frames[t]) = Len(tidToTaskIdMap[t]) + Outside(t)
                      /\ \A i \in 1..Len(tidToTaskIdMap[t]) :
                            tidToTaskIdMap[t][i] = frames[t][i + Outside(t)].task
    BY DEF TidsOK
  <2>1. Len(tidToTaskIdMap[t]) = 0
    BY <1>1
  <2>2. Len(frames[t]) = Outside(t)
    BY <1>6 DEF Outside
  <2> QED
    BY <2>1, <2>2 DEF Outside
<1>16. MapOK(tgraph_nodes, temp_cur_map)
  BY <1>12 DEF MapOK
<1>17. Shaped(tgraph_nodes)
  BY <1>1, HeadTreeShaped
<1> QED
  BY <1>8, <1>13, <1>14, <1>15, <1>16, <1>17 DEF Tidy

\* Every step of the program keeps the invariant.
LEMMA NextDInv ==
    ASSUME Discipline, DInv, [Next]_vars
    PROVE  DInv'
<1>1. SchedInv' /\ IInv'
  <2>1. SchedInv /\ IInv
    BY DEF DInv
  <2>2. [GraphNext]_graphVars
    BY <2>1, NextGraph
  <2> QED
    BY <2>1, <2>2, NextSchedInv, NextIInv
<1>2. Tidy'
  <2>1. CASE UNCHANGED vars
    <3>1. /\ tgraph_nodes' = tgraph_nodes /\ frames' = frames /\ cur' = cur
          /\ temp_cur_map' = temp_cur_map /\ tidToTaskIdMap' = tidToTaskIdMap
          /\ returned' = returned /\ task_id_ctr' = task_id_ctr
      BY <2>1 DEF vars, graphVars, schedVars
    <3>2. Tidy
      BY DEF DInv
    <3> QED
      BY <3>1, <3>2, Zenon DEF Tidy
  <2>2. ASSUME NEW th \in Threads, Capture(th)
        PROVE  Tidy'
    BY <2>2, SpawnTidy, RootTidy, Zenon
  <2>3. ASSUME NEW th \in Threads, Resume(th)
        PROVE  Tidy'
    BY <2>3, ResumeRootTidy, ResumeWaitTidy, Zenon
  <2>4. CASE Next
    BY <2>1, <2>2, <2>3, <2>4, SetTaskIdTidy, PublishTidy, WaitForAllTidy, ExecuteTidy,
       ReturnTidy, Zenon DEF Next
  <2> QED
    BY <2>1, <2>4
<1> QED
  BY <1>1, <1>2 DEF DInv

\* The inductive invariant of programs in which every task waits for what it spawned.
THEOREM DisciplineInvariant ==
    ASSUME Discipline
    PROVE  Spec => []DInv
<1>1. Init => DInv
  BY InitSchedInv, InitIInv, InitTidy DEF Init, DInv
<1>2. DInv /\ [Next]_vars => DInv'
  BY NextDInv
<1> QED
  BY <1>1, <1>2, PTL DEF Spec

\* When a task makes a Capture* call, the node on top of its thread's stack is a node
\* of the task, and so is the id that getCurTask() reads.
THEOREM TopNodeIsOwn ==
    ASSUME Discipline
    PROVE  Spec => []OwnNodeOnTop
<1>1. DInv => OwnNodeOnTop
  <2> SUFFICES ASSUME DInv, NEW th \in Threads, Running(th), Top(frames[th]).task # 0
               PROVE  /\ cur[th] # <<>>
                      /\ Top(tidToTaskIdMap[th]) = Top(frames[th]).task
                      /\ tgraph_nodes[Top(cur[th])].taskId = Top(frames[th]).task
                      /\ getCurTask(th) # 0
    BY DEF OwnNodeOnTop
  <2> DEFINE g == tgraph_nodes
             c == cur[th]
             f == Top(frames[th])
             n == Len(frames[th])
             q == tidToTaskIdMap[th]
  <2>1. frames[th] # <<>>
    BY DEF Running
  <2>2. PICK L : Laid(g, frames[th], c, L)
    BY <2>1, OnTop
  <2>3. AtTop(g, f, c, L[n]) /\ n \in Nat /\ n > 0 /\ f = frames[th][n]
    BY <2>1, <2>2, OnTop
  <2>4. /\ Shaped(g) /\ Stacks(frames)
        /\ n = Len(q) + Outside(th) /\ q \in Seq(Nat)
        /\ \A i \in 1..Len(q) : q[i] = frames[th][i + Outside(th)].task
    BY DEF DInv, Tidy, TidsOK, IInv, GraphTypeOK
  <2>5. Top(q) = f.task
    <3>1. ~(th = MainThread /\ n = 1)
      BY <2>3, <2>4 DEF Stacks
    <3>2. Len(q) \in Nat /\ Len(q) # 0
      <4>1. Len(q) \in Nat /\ n = Len(q) + Outside(th) /\ n \in Nat /\ n > 0
        BY <2>3, <2>4
      <4>2. Outside(th) = IF th = MainThread THEN 1 ELSE 0
        BY DEF Outside
      <4>3. th = MainThread => n # 1
        BY <3>1
      <4> HIDE DEF n, q
      <4> QED
        BY <4>1, <4>2, <4>3
    <3>3. Len(q) \in 1..Len(q)
      BY <3>2
    <3> QED
      BY <2>3, <2>4, <3>3 DEF Top
  <2> HIDE DEF f
  <2>6. c # <<>> /\ Top(c) \in Nodes(g) /\ g[Top(c)].taskId = f.task /\ g[Top(c)].type # "STEP"
    BY <2>3 DEF AtTop
  <2>7. g[Top(c)].cur_step # 0
    <3>1. Top(c) # 1
      BY <2>4, <2>6 DEF Shaped, f
    <3> QED
      BY <2>4, <2>6, <3>1 DEF Shaped
  <2> QED
    BY <2>5, <2>6, <2>7 DEF getCurTask, f
<1> QED
  BY <1>1, DisciplineInvariant, PTL

\* CaptureReturn leaves nothing of the task that ends on the stacks of its thread.
THEOREM StacksAreDrained ==
    ASSUME Discipline
    PROVE  Spec => []StacksDrain
<1>1. DInv => StacksDrain
  <2> SUFFICES ASSUME DInv, NEW th \in Threads
               PROVE  /\ frames[th] = <<>> => cur[th] = <<>>
                      /\ Len(frames[th]) = 1 /\ Top(frames[th]).task = 0 => cur[th] = <<1>>
    BY DEF StacksDrain
  <2> DEFINE g == tgraph_nodes
             c == cur[th]
             f == Top(frames[th])
             s == frames[th]
  <2>1. c \in Seq(Nat) /\ Shaped(g) /\ \E L : Laid(g, s, c, L)
    BY DEF DInv, IInv, GraphTypeOK, Tidy, Layouts
  <2>2. PICK L : Laid(g, s, c, L)
    BY <2>1
  <2>3. ASSUME s = <<>>
        PROVE  c = <<>>
    <3>1. Len(s) = 0
      BY <2>3
    <3> HIDE DEF s, c
    <3>2. Len(c) = 0
      BY <2>2, <3>1 DEF Laid
    <3> QED
      BY <2>1, <3>2
  <2>4. ASSUME Len(s) = 1, f.task = 0
        PROVE  c = <<1>>
    <3>1. s # <<>>
      BY <2>4
    <3>2. FrameOK(f) /\ AtTop(g, f, c, L[1])
      BY <2>2, <2>4, <3>1, OnTop
    <3>3. L[1] = 0
      BY <2>2 DEF Laid
    <3> HIDE DEF f, c, g, s
    <3>4. ~Open(f)
      BY <2>4, <3>2 DEF FrameOK, Open, Kinds
    <3>5. Len(c) = 1 /\ OwnNode(g, c[1], 0)
      BY <2>4, <3>2, <3>3, <3>4 DEF AtTop, Holds
    <3>6. IsTask(g, 1) /\ g[1].taskId = 0 /\ 1 \in Nodes(g)
      <4>1. g[1].taskId = 0 /\ g[1].type = "FINISH"
        BY <2>1 DEF Shaped
      <4>2. 1 \in Nodes(g)
        BY DEF DInv, IInv, WellFormed, ParentsFirst, Nodes, g
      <4> QED
        BY <4>1, <4>2 DEF IsTask, IsPhase
    <3>7. c[1] = 1
      BY <2>1, <3>5, <3>6 DEF Shaped, OwnNode
    <3> QED
      BY <2>1, <3>5, <3>7
  <2> QED
    BY <2>3, <2>4
<1> QED
  BY <1>1, DisciplineInvariant, PTL

\* CaptureWait takes one phase off the stack and never the node below it.
THEOREM WaitKeepsNode ==
    ASSUME Discipline
    PROVE  Spec => []WaitLeavesNode
<1>1. DInv => WaitLeavesNode
  <2> SUFFICES ASSUME DInv, NEW th \in Threads, frames[th] # <<>>,
                      Top(frames[th]).kind \in {"wait", "spawn_and_wait"},
                      Top(frames[th]).pc = "waiting"
               PROVE  Len(cur[th]) > 1
    BY DEF WaitLeavesNode
  <2> DEFINE f == Top(frames[th])
             c == cur[th]
             n == Len(frames[th])
  <2>1. PICK L : Laid(tgraph_nodes, frames[th], c, L)
    BY OnTop
  <2>2. FrameOK(f) /\ AtTop(tgraph_nodes, f, c, L[n])
    BY <2>1, OnTop
  <2>3. f.kind # "root" /\ f.pc = "waiting"
    OBVIOUS
  <2> HIDE DEF f, c, n
  <2>4. Open(f)
    BY <2>2, <2>3 DEF FrameOK, Open
  <2>5. L[n] \in Nat /\ Len(c) = L[n] + 2
    BY <2>2, <2>4 DEF AtTop
  <2>6. Len(c) > 1
    BY <2>5
  <2> QED
    BY <2>6 DEF c
<1> QED
  BY <1>1, DisciplineInvariant, PTL

\* The ground truth beside the program.
Strand == [task : TaskIds, step : Nat]

TruthOK ==
    /\ strands \in Seq(Strand)
    /\ past \in [TaskIds \cup {0} -> SUBSET (1..Len(strands))]

\* The strand that a task enters is recorded with a node of the tree.
LEMMA StepTyped ==
    ASSUME DInv', NEW th \in Threads, frames'[th] # <<>>
    PROVE  tgraph_nodes'[Top(cur'[th])].cur_step \in Nat
<1>1. /\ frames' \in [Threads -> Seq(FrameType)] /\ cur' \in [Threads -> Seq(Nat)]
      /\ WellFormed(tgraph_nodes') /\ \E L : Laid(tgraph_nodes', frames'[th], cur'[th], L)
  BY DEF DInv, Tidy, Stacks, Layouts, IInv, GraphTypeOK
<1> DEFINE g == tgraph_nodes'
           s == frames'[th]
           c == cur'[th]
<1>2. PICK L : Laid(g, s, c, L)
  BY <1>1
<1>3. s \in Seq(FrameType) /\ s # <<>> /\ c \in Seq(Nat) /\ g \in Seq(AFTask)
  BY <1>1 DEF WellFormed
<1>4. Len(s) \in Nat /\ Len(s) > 0
  BY <1>3
<1> HIDE DEF g, s, c
<1>5. AtTop(g, s[Len(s)], c, L[Len(s)])
  BY <1>2, <1>3, <1>4, TopLaid
<1>6. Top(c) \in 1..Len(g)
  BY <1>5 DEF AtTop, Nodes
<1> DEFINE n == Top(c)
<1>7. n \in 1..Len(g) /\ g \in Seq(AFTask)
  BY <1>3, <1>6
<1> HIDE DEF n
<1>8. g[n] \in AFTask
  BY <1>7
<1>9. g[n].cur_step \in Nat
  BY <1>8 DEF AFTask
<1> QED
  BY <1>9 DEF g, c, n

\* One more strand.
LEMMA StrandTyped ==
    ASSUME TruthOK, NEW t \in TaskIds, NEW step \in Nat,
           strands' = Append(strands, [task |-> t, step |-> step])
    PROVE  /\ strands' \in Seq(Strand) /\ Len(strands) \in Nat
           /\ Len(strands') = Len(strands) + 1
           /\ Len(strands) + 1 \in 1..Len(strands')
           /\ 1..Len(strands) \subseteq 1..Len(strands')
<1>1. [task |-> t, step |-> step] \in Strand
  BY DEF Strand
<1>2. strands \in Seq(Strand)
  BY DEF TruthOK
<1> QED
  BY <1>1, <1>2

\* A task that enters a strand is recorded with it and with what came before.
LEMMA StartTyped ==
    ASSUME TruthOK, DInv', NEW th \in Threads, frames'[th] # <<>>,
           NEW t \in TaskIds \cup {0}, NEW base \in SUBSET (1..Len(strands)),
           StartStrand(th, t, base)
    PROVE  TruthOK'
<1>1. CASE t = 0
  BY <1>1 DEF StartStrand, TruthOK
<1>2. CASE t # 0
  <2> DEFINE step == tgraph_nodes'[Top(cur'[th])].cur_step
             new == Len(strands) + 1
  <2>1. step \in Nat
    BY StepTyped
  <2>2. /\ strands' = Append(strands, [task |-> t, step |-> step])
        /\ past' = [past EXCEPT ![t] = base \cup {new}]
    BY <1>2 DEF StartStrand
  <2> HIDE DEF step
  <2>3. /\ strands' \in Seq(Strand) /\ new \in 1..Len(strands')
        /\ 1..Len(strands) \subseteq 1..Len(strands')
    BY <1>2, <2>1, <2>2, StrandTyped
  <2> HIDE DEF new
  <2>4. past \in [TaskIds \cup {0} -> SUBSET (1..Len(strands))]
    BY DEF TruthOK
  <2> DEFINE P == 1..Len(strands)
             Q == 1..Len(strands')
  <2>5. P \subseteq Q /\ new \in Q /\ base \subseteq P /\ past \in [TaskIds \cup {0} -> SUBSET P]
    BY <2>3, <2>4
  <2> HIDE DEF P, Q
  <2>6. past' \in [TaskIds \cup {0} -> SUBSET Q]
    BY <2>2, <2>5
  <2> QED
    BY <2>3, <2>6 DEF TruthOK, Q
<1> QED
  BY <1>1, <1>2

\* The same at a spawn, where the parent may enter a strand as well.
LEMMA CaptureTyped ==
    ASSUME DInv, DInv', TruthOK, NEW th \in Threads, Capture(th)
    PROVE  TruthOK'
<1> DEFINE f == Top(frames[th])
           D == TaskIds \cup {0}
           P == 1..Len(strands)
           Q == 1..Len(strands')
           new == Len(strands) + 1
           step == tgraph_nodes'[Top(cur'[th])].cur_step
<1>1. /\ frames[th] # <<>> /\ f.pc = "named"
      /\ f.kind = "root" => /\ past' = [past EXCEPT ![f.child] = past[f.task]]
                            /\ strands' = strands
      /\ f.kind # "root" => /\ strands' = Append(strands, [task |-> f.task, step |-> step])
                            /\ past' = [past EXCEPT ![f.child] = past[f.task],
                                                    ![f.task] = @ \cup {new}]
  BY DEF Capture
<1>2. f \in FrameType /\ FrameOK(f) /\ f.child \in TaskIds
  BY <1>1, OnTop, CaptureStep DEF DInv
<1>3. f.task \in D /\ (f.task # 0 => f.task \in TaskIds) /\ f.child \in D
  BY <1>2, TaskAssumption DEF FrameType
<1>4. f.kind # "root" => f.task # 0
  BY <1>1, <1>2 DEF FrameOK, Kinds
<1>5. strands \in Seq(Strand) /\ past \in [D -> SUBSET P]
  BY DEF TruthOK
<1> HIDE DEF f, P, step, new
<1>6. CASE f.kind = "root"
  <2>1. past' \in [D -> SUBSET P]
    BY <1>1, <1>3, <1>5, <1>6
  <2> QED
    BY <1>1, <1>5, <1>6, <2>1 DEF TruthOK, P
<1>7. CASE f.kind # "root"
  <2>1. frames'[th] # <<>>
    <3>1. /\ frames \in [Threads -> Seq(FrameType)]
          /\ frames' = SetTop(th, [f EXCEPT !.pc = "captured"])
          /\ [f EXCEPT !.pc = "captured"] \in FrameType
      BY <1>2 DEF DInv, Tidy, Stacks, Capture, f, FrameType
    <3>2. Len(frames'[th]) = Len(frames[th]) /\ Len(frames[th]) \in 1..Len(frames[th])
      BY <1>1, <3>1, SetTopFrames
    <3> QED
      BY <3>1, <3>2
  <2>2. step \in Nat
    BY <2>1, StepTyped DEF step
  <2>3. /\ strands' \in Seq(Strand) /\ new \in Q /\ P \subseteq Q
    BY <1>1, <1>3, <1>4, <1>7, <2>2, StrandTyped DEF P, new
  <2> HIDE DEF Q
  <2>4. past' \in [D -> SUBSET Q]
    BY <1>1, <1>3, <1>5, <1>7, <2>3
  <2> QED
    BY <2>3, <2>4 DEF TruthOK, Q
<1> QED
  BY <1>6, <1>7

\* Every step keeps the ground truth typed.
LEMMA NextTruth ==
    ASSUME DInv, DInv', TruthOK, [Next]_vars
    PROVE  TruthOK'
<1>1. CASE UNCHANGED truthVars
  BY <1>1 DEF truthVars, TruthOK
<1>2. ASSUME NEW th \in Threads, NEW id \in TaskIds, Execute(th, id)
      PROVE  TruthOK'
  <2>1. StartStrand(th, id, past[id])
    BY <1>2 DEF Execute
  <2>2. frames'[th] # <<>>
    <3>1. frames' = [frames EXCEPT ![th] = Append(frames[th], Frame(id))]
          /\ frames \in [Threads -> Seq(FrameType)] /\ frames[th] \in Seq(FrameType)
      BY <1>2 DEF Execute, DInv, Tidy, Stacks
    <3>2. frames'[th] = Append(frames[th], Frame(id))
      BY <3>1
    <3> HIDE DEF Frame
    <3> QED
      BY <3>1, <3>2
  <2>3. past[id] \in SUBSET (1..Len(strands)) /\ id \in TaskIds \cup {0}
    BY DEF TruthOK
  <2> QED
    BY <2>1, <2>2, <2>3, StartTyped
<1>3. ASSUME NEW th \in Threads, Resume(th)
      PROVE  TruthOK'
  <2> DEFINE f == Top(frames[th])
             joined == past[f.task] \cup UNION {past[c] : c \in f.awaited}
  <2>1. StartStrand(th, f.task, joined) /\ frames[th] # <<>>
    BY <1>3 DEF Resume
  <2>2. f \in FrameType
    BY <2>1, OnTop
  <2>3. f.task \in TaskIds \cup {0} /\ f.awaited \subseteq TaskIds
    BY <2>2, TaskAssumption DEF FrameType
  <2> HIDE DEF f
  <2>4. joined \in SUBSET (1..Len(strands))
    BY <2>3 DEF TruthOK
  <2>5. frames'[th] # <<>>
    <3> DEFINE e == [Top(frames[th]) EXCEPT !.pc = "run", !.kind = "none", !.child = 0,
                                            !.awaited = {}, !.pending = {}]
    <3>1. e \in FrameType /\ frames' = SetTop(th, e) /\ frames \in [Threads -> Seq(FrameType)]
      BY <1>3, ResumedFrame, Zenon DEF DInv, Tidy, Stacks
    <3> HIDE DEF e
    <3>2. Len(frames'[th]) = Len(frames[th]) /\ Len(frames[th]) \in 1..Len(frames[th])
      BY <2>1, <3>1, SetTopFrames
    <3> QED
      BY <3>1, <3>2
  <2> HIDE DEF joined
  <2> QED
    BY <2>1, <2>3, <2>4, <2>5, StartTyped
<1>4. ASSUME NEW th \in Threads,
             \/ \E kind \in Kinds : SetTaskId(th, kind)
             \/ Publish(th) \/ WaitForAll(th) \/ Return(th)
      PROVE  UNCHANGED truthVars
  BY <1>4 DEF SetTaskId, Publish, WaitForAll, Return
<1>5. CASE UNCHANGED vars
  BY <1>1, <1>5 DEF vars
<1>6. CASE Next
  BY <1>1, <1>2, <1>3, <1>4, <1>5, <1>6, CaptureTyped, Zenon DEF Next
<1> QED
  BY <1>5, <1>6

\* There are no strands at the start.
LEMMA InitTruth == Init => TruthOK
<1> SUFFICES ASSUME Init PROVE TruthOK
  OBVIOUS
<1>1. strands = <<>> /\ past = [t \in TaskIds \cup {0} |-> {}]
  BY DEF Init
<1> QED
  BY <1>1 DEF TruthOK

\* All variables of the task interface and of the ground truth keep their types.
THEOREM Types ==
    ASSUME Discipline
    PROVE  Spec => []TypeOK
<1>1. Init => TruthOK
  BY InitTruth
<1>2. DInv /\ DInv' /\ TruthOK /\ [Next]_vars => TruthOK'
  BY NextTruth
<1>3. DInv /\ TruthOK => TypeOK
  <2> SUFFICES ASSUME DInv, TruthOK PROVE TypeOK
    OBVIOUS
  <2>1. strands \in Seq(Strand) /\ \A i \in DOMAIN strands : strands[i] \in Strand
    BY DEF TruthOK
  <2> QED
    BY <2>1 DEF TypeOK, TruthOK, Strand, DInv, IInv, SchedInv
<1> QED
  BY <1>1, <1>2, <1>3, DisciplineInvariant, PTL DEF Spec

-----------------------------------------------------------------------------
(* The tree and the tasks that are started *)

\* A task is not below another one without that one joining it, or joining a task
\* that is yet to return and that it is below.
Nested(g, F, M, R) ==
    /\ \A f \in F, q \in Live(F) : Above(g, f.task, q) =>
          q \in Joins(f) \/ \E d \in Joins(f) : d \notin R /\ Above(g, d, q)
    /\ \A c \in M, q \in Live(F) : ~Above(g, c, q)

Below(g, F) ==
    \A f \in F : /\ \A d \in Joins(f) : Above(g, f.task, d)
                 /\ RootCall(f) => f.child \in Known(g) /\ Above(g, f.task, f.child)

\* Every task that may go on does so to the right of what it does not run beside.
RightMost(g, F) == \A u \in Live(F) : RightOpen(g, At(g, u))

\* A task is below another one in a root that the other one waits for, or in its phase.
Spawned(g, F) ==
    \A u, v \in Live(F) : Above(g, u, v) =>
       \/ \E f \in F : f.task = u /\ RootCall(f) /\ (v = f.child \/ Above(g, f.child, v))
       \/ IsPhase(g, At(g, u)) /\ At(g, u) \in Anc(g, Own(g, v))

Order(g, F, M, R) ==
    Nested(g, F, M, R) /\ Below(g, F) /\ RightMost(g, F) /\ Spawned(g, F)

\* What the invariant of disciplined programs says of tree and frames.
Base(g, F, M, R) ==
    /\ WellFormed(g) /\ Shaped(g)
    /\ \A f \in F : f.task \in Known(g) /\ FrameOK(f)
    /\ \A f, e \in F : f.task = e.task => f = e
    /\ \A q \in Live(F) : q \in Known(g) /\ q # 0 /\ LastFacts(g, q)
    /\ \A f \in F : (f.task # 0 => f.task \in Live(F)) /\ f.task \notin R /\ f.task \notin M
    /\ \A c \in M : c \in Live(F) /\ c \notin R
    /\ \A f \in F : \A d \in Joins(f) : d \in Live(F) /\ d # f.task
    /\ \A f, e \in F : f # e => Joins(f) \cap Joins(e) = {}

\* The invariant of disciplined programs says all of this.
LEMMA BaseHolds ==
    ASSUME NEW g, WellFormed(g), Shaped(g), NEW F, NEW M, NEW R, NEW n,
           Control(F, M, Known(g), R, n)
    PROVE  Base(g, F, M, R)
<1>1. /\ F \subseteq FrameType /\ \A f \in F : FrameOK(f)
      /\ \A f, e \in F : f.task = e.task => f = e
      /\ \A f, e \in F : f # e => Joins(f) \cap Joins(e) = {}
      /\ \A f \in F : f.task # 0 => f.task \in Live(F)
      /\ M \subseteq Live(F) /\ OnStack(F) \cap (M \cup R) = {} /\ M \cap R = {}
      /\ OnStack(F) \cup Live(F) \subseteq Known(g)
  BY DEF Control, FramesOK, Joined, Captures
<1>2. \A f \in F : f.task \in OnStack(F)
  BY DEF OnStack
<1>3. \A f \in F : \A d \in Joins(f) : d \in Live(F) /\ f.task < d
  BY <1>1 DEF Live, FrameOK
<1>4. \A q \in Live(F) : \E f \in F : q \in Joins(f)
  BY DEF Live
<1>5. ASSUME NEW f \in F, NEW d \in Joins(f)
      PROVE  d # f.task /\ d # 0
  <2>1. f \in FrameType /\ f.task < d
    BY <1>1, <1>3
  <2>2. f.task \in Nat /\ d \in Nat
    BY <2>1, <1>3, <1>1, TaskAssumption DEF FrameType, Joins
  <2> QED
    BY <2>1, <2>2
<1>6. \A q \in Live(F) : q \in Known(g) /\ q # 0
  BY <1>1, <1>4, <1>5
<1>7. \A q \in Live(F) : LastFacts(g, q)
  BY <1>6, LastExists
<1> QED
  BY <1>1, <1>2, <1>3, <1>5, <1>6, <1>7 DEF Base

\* Two frames between which tree and order see no difference.
View(f, e) ==
    /\ e.task = f.task /\ Joins(e) = Joins(f)
    /\ RootCall(e) <=> RootCall(f)
    /\ RootCall(f) => e.child = f.child

SameView(F, E) ==
    /\ \A f \in F : \E e \in E : View(f, e)
    /\ \A e \in E : \E f \in F : View(f, e)

\* Frames that look the same join the same tasks.
LEMMA SameLive ==
    ASSUME NEW F, NEW E, SameView(F, E)
    PROVE  Live(E) = Live(F)
<1>1. \A x : x \in Live(F) <=> \E f \in F : x \in Joins(f)
  BY DEF Live
<1>2. \A x : x \in Live(E) <=> \E f \in E : x \in Joins(f)
  BY DEF Live
<1>3. \A x : x \in Live(E) <=> x \in Live(F)
  BY <1>1, <1>2, Zenon DEF SameView, View
<1> QED
  BY <1>3

\* Frames that look the same keep the order.
LEMMA OrderSame ==
    ASSUME NEW g, NEW F, NEW M, NEW R, Order(g, F, M, R), NEW E, SameView(F, E)
    PROVE  Order(g, E, M, R)
<1>1. Live(E) = Live(F)
  BY SameLive
<1>2. Nested(g, E, M, R)
  <2>1. ASSUME NEW e \in E, NEW q \in Live(E), Above(g, e.task, q)
        PROVE  q \in Joins(e) \/ \E d \in Joins(e) : d \notin R /\ Above(g, d, q)
    <3>1. PICK f \in F : View(f, e)
      BY DEF SameView
    <3>2. q \in Live(F) /\ Above(g, f.task, q)
      BY <1>1, <2>1, <3>1 DEF View
    <3>3. q \in Joins(f) \/ \E d \in Joins(f) : d \notin R /\ Above(g, d, q)
      BY <3>2 DEF Order, Nested
    <3> QED
      BY <3>1, <3>3 DEF View
  <2>2. \A c \in M, q \in Live(E) : ~Above(g, c, q)
    BY <1>1 DEF Order, Nested
  <2> QED
    BY <2>1, <2>2 DEF Nested
<1>3. Below(g, E)
  <2> SUFFICES ASSUME NEW e \in E
               PROVE  /\ \A d \in Joins(e) : Above(g, e.task, d)
                      /\ RootCall(e) => e.child \in Known(g) /\ Above(g, e.task, e.child)
    BY DEF Below
  <2>1. PICK f \in F : View(f, e)
    BY DEF SameView
  <2>2. /\ \A d \in Joins(f) : Above(g, f.task, d)
        /\ RootCall(f) => f.child \in Known(g) /\ Above(g, f.task, f.child)
    BY DEF Order, Below
  <2> QED
    BY <2>1, <2>2 DEF View
<1>4. RightMost(g, E)
  BY <1>1 DEF Order, RightMost
<1>5. Spawned(g, E)
  <2> SUFFICES ASSUME NEW u \in Live(F), NEW v \in Live(F), Above(g, u, v),
                      NEW f \in F, f.task = u, RootCall(f), v = f.child \/ Above(g, f.child, v)
               PROVE  \E e \in E : /\ e.task = u /\ RootCall(e)
                                   /\ v = e.child \/ Above(g, e.child, v)
    BY <1>1, Zenon DEF Order, Spawned
  <2>1. PICK e \in E : View(f, e)
    BY DEF SameView
  <2>2. e.task = u /\ RootCall(e) /\ e.child = f.child
    BY <2>1 DEF View
  <2> QED
    BY <2>2
<1> QED
  BY <1>2, <1>3, <1>4, <1>5 DEF Order

\* A task begins: nothing is below it yet.
LEMMA OrderBegin ==
    ASSUME NEW g, NEW F, NEW M, NEW R, Order(g, F, M, R), NEW id \in M,
           NEW f, f.task = id, Joins(f) = {}, ~RootCall(f), Live(F \cup {f}) = Live(F)
    PROVE  Order(g, F \cup {f}, M \ {id}, R)
<1>1. Nested(g, F \cup {f}, M \ {id}, R)
  BY DEF Order, Nested
<1>2. Below(g, F \cup {f})
  BY DEF Order, Below
<1>3. RightMost(g, F \cup {f})
  BY DEF Order, RightMost
<1>4. Spawned(g, F \cup {f})
  BY DEF Order, Spawned
<1> QED
  BY <1>1, <1>2, <1>3, <1>4 DEF Order

-----------------------------------------------------------------------------
(* How the order of tree and tasks changes with them *)

\* A task ends: who joins it joins what it leaves behind.
Heir(e, d, old) ==
    /\ d.task = e.task /\ d.child = e.child /\ (RootCall(d) <=> RootCall(e))
    /\ Joins(d) = IF old.task \in Joins(e) THEN Joins(e) \cup Joins(old) ELSE Joins(e)

HeirsOf(E, F, old) ==
    /\ \A d \in E : \E e \in F : e # old /\ Heir(e, d, old)
    /\ \A e \in F : e # old => \E d \in E : Heir(e, d, old)

\* A task ends: whoever joins it is above what it leaves behind.
LEMMA OrderEnd ==
    ASSUME NEW g, NEW F, NEW M, NEW R, Base(g, F, M, R), Order(g, F, M, R),
           NEW old \in F, ~RootCall(old), NEW E, HeirsOf(E, F, old), Live(E) = Live(F)
    PROVE  Order(g, E, M, R \cup {old.task})
<1> DEFINE r == old.task
<1>0. WellFormed(g) /\ Shaped(g) /\ \A q \in Live(F) : q \in Known(g)
  BY DEF Base
<1>1. Nested(g, E, M, R \cup {r})
  <2>1. ASSUME NEW f \in E, NEW q \in Live(F), Above(g, f.task, q)
        PROVE  q \in Joins(f) \/ \E d \in Joins(f) : d \notin R \cup {r} /\ Above(g, d, q)
    <3>1. PICK e \in F : e # old /\ Heir(e, f, old)
      BY DEF HeirsOf
    <3>2. q \in Joins(e) \/ \E d \in Joins(e) : d \notin R /\ Above(g, d, q)
      BY <2>1, <3>1 DEF Order, Nested, Heir
    <3>3. Joins(e) \subseteq Joins(f) /\ (r \in Joins(e) => Joins(old) \subseteq Joins(f))
      BY <3>1 DEF Heir
    <3>4. CASE q \in Joins(e)
      BY <3>3, <3>4
    <3>5. CASE \E d \in Joins(e) : d \notin R /\ Above(g, d, q)
      <4>1. PICK d \in Joins(e) : d \notin R /\ Above(g, d, q)
        BY <3>5
      <4>2. CASE d # r
        BY <3>3, <4>1, <4>2
      <4>3. CASE d = r
        <5>1. q \in Joins(old) \/ \E x \in Joins(old) : x \notin R /\ Above(g, x, q)
          BY <4>1, <4>3 DEF Order, Nested
        <5>2. \A x \in Joins(old) : x # r
          BY DEF Base
        <5> QED
          BY <3>3, <4>3, <5>1, <5>2
      <4> QED
        BY <4>2, <4>3
    <3> QED
      BY <3>2, <3>4, <3>5
  <2>2. \A c \in M, q \in Live(F) : ~Above(g, c, q)
    BY DEF Order, Nested
  <2> QED
    BY <2>1, <2>2 DEF Nested
<1>2. Below(g, E)
  <2> SUFFICES ASSUME NEW f \in E
               PROVE  /\ \A d \in Joins(f) : Above(g, f.task, d)
                      /\ RootCall(f) => f.child \in Known(g) /\ Above(g, f.task, f.child)
    BY DEF Below
  <2>1. PICK e \in F : e # old /\ Heir(e, f, old)
    BY DEF HeirsOf
  <2>2. /\ \A d \in Joins(e) : Above(g, e.task, d)
        /\ RootCall(e) => e.child \in Known(g) /\ Above(g, e.task, e.child)
        /\ \A d \in Joins(old) : Above(g, r, d)
    BY DEF Order, Below
  <2>3. ASSUME r \in Joins(e), NEW d \in Joins(old)
        PROVE  Above(g, e.task, d)
    <3>1. Above(g, e.task, r) /\ Above(g, r, d)
      BY <2>2, <2>3
    <3>2. e.task \in Known(g) /\ r \in Known(g) /\ d \in Known(g)
      BY <1>0 DEF Base
    <3> QED
      BY <1>0, <3>1, <3>2, AboveIsOrder
  <2> QED
    BY <2>1, <2>2, <2>3 DEF Heir
<1>3. RightMost(g, E)
  BY DEF Order, RightMost
<1>4. Spawned(g, E)
  <2> SUFFICES ASSUME NEW u \in Live(F), NEW v \in Live(F), Above(g, u, v),
                      NEW e \in F, e.task = u, RootCall(e), v = e.child \/ Above(g, e.child, v)
               PROVE  \E f \in E : /\ f.task = u /\ RootCall(f)
                                   /\ v = f.child \/ Above(g, f.child, v)
    BY Zenon DEF Order, Spawned
  <2>1. PICK f \in E : Heir(e, f, old)
    BY DEF HeirsOf
  <2>2. f.task = u /\ RootCall(f) /\ f.child = e.child
    BY <2>1 DEF Heir
  <2> QED
    BY <2>2
<1> QED
  BY <1>1, <1>2, <1>3, <1>4 DEF Order

\* A task that goes on right of everything still does after the tree grew at another
\* task, unless it is below that one.
LEMMA OthersOpen ==
    ASSUME NEW g, NEW h, WellFormed(g), WellFormed(h), Shaped(g), NEW p, Grafted(g, h, p),
           NEW u \in Known(g), LastFacts(g, u), u # g[p].taskId, RightOpen(g, At(g, u)),
           IsPhase(g, p) \/ ~Above(g, g[p].taskId, u)
    PROVE  RightOpen(h, At(g, u))
<1> DEFINE m == At(g, u)
           t == g[p].taskId
<1>1. m \in Nodes(g) /\ g[m].type # "STEP" /\ g[m].taskId = u
  BY DEF LastFacts
<1>2. p \in Nodes(g) /\ t \in Known(g)
  BY DEF Grafted, Known
<1> HIDE DEF m
<1>3. ASSUME NEW x \in Anc(g, m), x # 1, g[x].parent = p, g[x].type # "ASYNC"
      PROVE  FALSE
  <2>1. x \in Nodes(g) /\ p \in Anc(g, x) /\ p \in Anc(g, m)
    BY <1>1, <1>3, AncBasics, AncTransitive DEF UpClosed
  <2>2. CASE IsPhase(g, p)
    <3>1. g[x].type = "STEP"
      BY <1>3, <2>1, <2>2, ChildOfPhase
    <3>2. x \in StepsOf(g)
      BY <2>1, <3>1 DEF StepsOf, Nodes
    <3>3. x = m
      BY <1>1, <1>3, <3>2, StepsAreLeaves
    <3> QED
      BY <1>1, <3>1, <3>3
  <2>3. CASE ~Above(g, t, u)
    <3>1. Own(g, t) \in Anc(g, p)
      BY <1>2, AboveSpot
    <3>2. Own(g, t) \in Anc(g, m)
      BY <1>1, <2>1, <3>1, AncTransitive
    <3>3. t = u \/ Above(g, t, u)
      BY <1>1, <1>2, <3>2, AboveSpot
    <3> QED
      BY <2>3, <3>3
  <2> QED
    BY <2>2, <2>3
<1>4. RightOpen(g, m)
  BY DEF m
<1>5. RightOpen(h, m)
  BY <1>1, <1>3, <1>4, GraftOpen
<1> QED
  BY <1>5 DEF m

\* Trees between which task t alone gained steps, and those not started before.
KeptBut(g, h, F, t) ==
    /\ \A x \in Known(g) : x \in Known(h)
    /\ \A x, y \in Known(g) : Above(h, x, y) <=> Above(g, x, y)
    /\ \A x \in Known(g) : Anc(h, Own(h, x)) = Anc(g, Own(g, x))
    /\ \A u \in Live(F) : u # t =>
          /\ At(h, u) = At(g, u)
          /\ IsPhase(h, At(g, u)) <=> IsPhase(g, At(g, u))

\* A tree that grows beside all tasks but one keeps these so.
LEMMA GraftedKeptBut ==
    ASSUME NEW g, NEW h, WellFormed(g), WellFormed(h), Shaped(g), Shaped(h),
           NEW p, Grafted(g, h, p), NEW F, NEW t,
           \A u \in Live(F) : u \in Known(g) /\ u # 0 /\ LastFacts(g, u),
           \A u \in Live(F) : u # t => GrowsBeside(g, h, u)
    PROVE  KeptBut(g, h, F, t)
<1>1. /\ \A x \in Known(g) : x \in Known(h) /\ Own(h, x) = Own(g, x)
                             /\ Anc(h, Own(g, x)) = Anc(g, Own(g, x))
      /\ \A x, y \in Known(g) : Above(h, x, y) <=> Above(g, x, y)
  BY GraftedOwn
<1>2. ASSUME NEW u \in Live(F), u # t
      PROVE  At(h, u) = At(g, u) /\ (IsPhase(h, At(g, u)) <=> IsPhase(g, At(g, u)))
  <2>1. At(h, u) = At(g, u)
    BY <1>2, GraftedLast
  <2>2. At(g, u) \in Nodes(g)
    BY DEF LastFacts
  <2> QED
    BY <2>1, <2>2 DEF Grafted
<1>3. \A x \in Known(g) : Anc(h, Own(h, x)) = Anc(g, Own(g, x))
  BY <1>1
<1> QED
  BY <1>1, <1>2, <1>3 DEF KeptBut

\* A task starts another one, by a spawn or as a root.
LEMMA OrderCapture ==
    ASSUME NEW g, NEW F, NEW M, NEW R, Base(g, F, M, R), Order(g, F, M, R),
           NEW h, WellFormed(h), Shaped(h), NEW p, Grafted(g, h, p),
           NEW old \in F, ~RootCall(old), g[p].taskId = old.task,
           NEW c, c \notin Known(g), Known(h) = Known(g) \cup {c},
           \A u : u # old.task /\ u # c => GrowsBeside(g, h, u),
           IsPhase(g, p) \/ Joins(old) = {},
           NEW f, f.task = old.task, Joins(f) = Joins(old) \cup {c},
           RootCall(f) => f.child = c,
           ~RootCall(f) => IsPhase(h, At(h, old.task)) /\ At(h, old.task) \in Anc(h, Own(h, c)),
           old.task # 0 /\ IsPhase(g, At(g, old.task)) => At(h, old.task) = At(g, old.task),
           RightOpen(h, At(h, c)), old.task # 0 => RightOpen(h, At(h, old.task)),
           Live((F \ {old}) \cup {f}) = Live(F) \cup {c}
    PROVE  Order(h, (F \ {old}) \cup {f}, M \cup {c}, R)
<1> DEFINE t == old.task
           E == (F \ {old}) \cup {f}
<1>0. /\ WellFormed(g) /\ Shaped(g) /\ p \in Nodes(g)
      /\ \A q \in Live(F) : q \in Known(g) /\ q # 0 /\ LastFacts(g, q)
      /\ \A e \in F : e.task \in Known(g)
      /\ t \in Known(g) /\ t \notin R /\ t \notin M /\ (t # 0 => t \in Live(F))
      /\ \A e \in F : e # old => e.task # t
      /\ \A e \in F : \A d \in Joins(e) : d \in Live(F)
      /\ \A m \in M : m \in Live(F)
  BY DEF Base, Grafted
<1>1. /\ \A x \in Known(g) : x \in Known(h) /\ Own(h, x) = Own(g, x)
                             /\ Anc(h, Own(h, x)) = Anc(g, Own(g, x))
      /\ \A x, y \in Known(g) : Above(h, x, y) <=> Above(g, x, y)
      /\ \A u \in Live(F) : u # t => At(h, u) = At(g, u) /\ u # c
                               /\ (IsPhase(h, At(g, u)) <=> IsPhase(g, At(g, u)))
  <2>1. \A u \in Live(F) : u # t => u # c /\ GrowsBeside(g, h, u)
    BY <1>0
  <2>2. KeptBut(g, h, F, t)
    BY <1>0, <2>1, GraftedKeptBut
  <2>3. \A x \in Known(g) : Own(h, x) = Own(g, x)
    BY <1>0, GraftedOwn
  <2> QED
    BY <2>1, <2>2, <2>3 DEF KeptBut
<1>2. /\ \A x \in Known(g) : /\ Above(h, x, c) <=> x = t \/ Above(g, x, t)
                             /\ ~Above(h, c, x)
      /\ \A n \in Nodes(g) : n \in Anc(h, Own(h, c)) <=> n \in Anc(g, p)
      /\ ~Above(h, c, c)
  <2>1. c \in Known(h)
    OBVIOUS
  <2>2. /\ \A x \in Known(g) : /\ Above(h, x, c) <=> x = g[p].taskId \/ Above(g, x, g[p].taskId)
                               /\ ~Above(h, c, x)
        /\ \A n \in Nodes(g) : n \in Anc(h, Own(h, c)) <=> n \in Anc(g, p)
    BY <1>0, <2>1, GraftedTask
  <2> QED
    BY <2>2 DEF Above
<1>3. \A x \in Known(g) : ~Above(g, x, 0) /\ ~Above(g, x, x)
  BY <1>0, AboveIsOrder
<1>4. Nested(h, E, M \cup {c}, R)
  <2>1. ASSUME NEW e \in E, NEW q \in Live(F) \cup {c}, Above(h, e.task, q)
        PROVE  q \in Joins(e) \/ \E d \in Joins(e) : d \notin R /\ Above(h, d, q)
    <3>0. e.task \in Known(g)
      BY <1>0
    <3>1. CASE q \in Live(F)
      <4>1. Above(g, e.task, q)
        BY <1>0, <1>1, <2>1, <3>0, <3>1
      <4>2. PICK a \in F : a.task = e.task /\ Joins(a) \subseteq Joins(e)
        OBVIOUS
      <4>3. q \in Joins(a) \/ \E d \in Joins(a) : d \notin R /\ Above(g, d, q)
        BY <3>1, <4>1, <4>2 DEF Order, Nested
      <4> QED
        BY <1>0, <1>1, <3>1, <4>2, <4>3
    <3>2. CASE q = c
      <4>1. e.task = t \/ Above(g, e.task, t)
        BY <1>2, <2>1, <3>0, <3>2
      <4>2. CASE e.task = t
        <5>1. e = f
          BY <1>0, <4>2
        <5> QED
          BY <3>2, <5>1
      <4>3. CASE e.task # t
        <5>1. e \in F /\ e # old /\ Above(g, e.task, t)
          BY <4>1, <4>3
        <5>2. t # 0 /\ t \in Live(F)
          BY <1>0, <1>3, <3>0, <5>1
        <5>3. t \in Joins(e) \/ \E d \in Joins(e) : d \notin R /\ Above(g, d, t)
          BY <5>1, <5>2 DEF Order, Nested
        <5>4. \A x \in Joins(e) : x \in Known(g)
          BY <1>0, <5>1
        <5>5. CASE t \in Joins(e)
          BY <1>0, <1>2, <3>2, <5>5
        <5>6. CASE \E d \in Joins(e) : d \notin R /\ Above(g, d, t)
          BY <1>2, <3>2, <5>4, <5>6
        <5> QED
          BY <5>3, <5>5, <5>6
      <4> QED
        BY <4>2, <4>3
    <3> QED
      BY <3>1, <3>2
  <2>2. ASSUME NEW m \in M \cup {c}, NEW q \in Live(F) \cup {c}
        PROVE  ~Above(h, m, q)
    <3>1. CASE m = c
      BY <1>0, <1>2, <3>1
    <3>2. CASE m \in M /\ q \in Live(F)
      BY <1>0, <1>1, <3>2 DEF Order, Nested
    <3>3. CASE m \in M /\ q = c
      <4>1. m \in Known(g) /\ m # t
        BY <1>0, <3>3
      <4>2. t \in Live(F) => ~Above(g, m, t)
        BY <3>3 DEF Order, Nested
      <4>3. t = 0 => ~Above(g, m, t)
        BY <1>3, <4>1
      <4> QED
        BY <1>0, <1>2, <3>3, <4>1, <4>2, <4>3
    <3> QED
      BY <3>1, <3>2, <3>3
  <2> QED
    BY <2>1, <2>2 DEF Nested
<1>5. Below(h, E)
  <2>1. ASSUME NEW e \in F
        PROVE  /\ \A d \in Joins(e) : Above(h, e.task, d)
               /\ RootCall(e) => e.child \in Known(h) /\ Above(h, e.task, e.child)
    <3>1. /\ \A d \in Joins(e) : Above(g, e.task, d)
          /\ RootCall(e) => e.child \in Known(g) /\ Above(g, e.task, e.child)
      BY DEF Order, Below
    <3>2. e.task \in Known(g) /\ \A d \in Joins(e) : d \in Known(g)
      BY <1>0
    <3> QED
      BY <1>1, <3>1, <3>2
  <2>2. Above(h, t, c) /\ c \in Known(h)
    BY <1>0, <1>2
  <2>3. \A d \in Joins(old) : Above(h, t, d)
    BY <2>1
  <2> QED
    BY <2>1, <2>2, <2>3 DEF Below
<1>6. RightMost(h, E)
  <2> SUFFICES ASSUME NEW u \in Live(F), u # t
               PROVE  RightOpen(h, At(h, u))
    BY <1>0 DEF RightMost
  <2>1. u \in Known(g) /\ LastFacts(g, u) /\ At(h, u) = At(g, u) /\ RightOpen(g, At(g, u))
    BY <1>0, <1>1 DEF Order, RightMost
  <2>2. Joins(old) = {} => ~Above(g, t, u)
    BY DEF Order, Nested
  <2>3. RightOpen(h, At(g, u))
    BY <1>0, <2>1, <2>2, OthersOpen
  <2> QED
    BY <2>1, <2>3
<1>7. Spawned(h, E)
  <2> SUFFICES ASSUME NEW u \in Live(F) \cup {c}, NEW v \in Live(F) \cup {c}, Above(h, u, v)
               PROVE  \/ \E e \in E : e.task = u /\ RootCall(e)
                                      /\ (v = e.child \/ Above(h, e.child, v))
                      \/ IsPhase(h, At(h, u)) /\ At(h, u) \in Anc(h, Own(h, v))
    BY DEF Spawned
  <2>1. u \in Live(F) /\ u \in Known(g) /\ u # 0 /\ LastFacts(g, u)
    <3>1. u # c
      BY <1>0, <1>2
    <3> QED
      BY <1>0, <3>1
  <2>2. At(g, u) \in Nodes(g)
    BY <2>1 DEF LastFacts
  <2>3. CASE v = c /\ u = t
    BY <2>3
  <2>4. CASE v = c /\ u # t
    <3>1. Above(g, u, t) /\ t \in Live(F)
      BY <1>0, <1>2, <1>3, <2>1, <2>4
    <3>2. \/ \E e \in F : e.task = u /\ RootCall(e) /\ (t = e.child \/ Above(g, e.child, t))
          \/ IsPhase(g, At(g, u)) /\ At(g, u) \in Anc(g, Own(g, t))
      BY <2>1, <3>1 DEF Order, Spawned
    <3>3. CASE \E e \in F : e.task = u /\ RootCall(e) /\ (t = e.child \/ Above(g, e.child, t))
      <4>1. PICK e \in F : e.task = u /\ RootCall(e) /\ (t = e.child \/ Above(g, e.child, t))
        BY <3>3
      <4>2. e \in E /\ e.child \in Known(g)
        BY <2>4, <4>1 DEF Order, Below
      <4>3. Above(h, e.child, c)
        BY <1>2, <4>1, <4>2
      <4> QED
        BY <2>4, <4>1, <4>2, <4>3
    <3>4. CASE IsPhase(g, At(g, u)) /\ At(g, u) \in Anc(g, Own(g, t))
      <4>1. Own(g, t) \in Anc(g, p)
        BY <1>0, AboveSpot
      <4>2. At(g, u) \in Anc(g, p)
        BY <1>0, <3>4, <4>1, AncTransitive
      <4> QED
        BY <1>1, <1>2, <2>1, <2>2, <2>4, <3>4, <4>2
    <3> QED
      BY <3>2, <3>3, <3>4
  <2>5. CASE v # c
    <3>0. v \in Live(F) /\ v \in Known(g)
      BY <1>0, <2>5
    <3>1. Above(g, u, v)
      BY <1>1, <2>1, <3>0
    <3>2. \/ \E e \in F : e.task = u /\ RootCall(e) /\ (v = e.child \/ Above(g, e.child, v))
          \/ IsPhase(g, At(g, u)) /\ At(g, u) \in Anc(g, Own(g, v))
      BY <2>1, <3>0, <3>1 DEF Order, Spawned
    <3>3. CASE \E e \in F : e.task = u /\ RootCall(e) /\ (v = e.child \/ Above(g, e.child, v))
      <4>1. PICK e \in F : e.task = u /\ RootCall(e) /\ (v = e.child \/ Above(g, e.child, v))
        BY <3>3
      <4>2. e \in E /\ e.child \in Known(g)
        BY <4>1 DEF Order, Below
      <4> QED
        BY <1>1, <3>0, <4>1, <4>2
    <3>4. CASE IsPhase(g, At(g, u)) /\ At(g, u) \in Anc(g, Own(g, v))
      <4>1. At(h, u) = At(g, u)
        BY <1>1, <2>1, <3>4
      <4>2. IsPhase(h, At(g, u))
        BY <2>2, <3>4 DEF Grafted
      <4> QED
        BY <1>1, <3>0, <3>4, <4>1, <4>2
    <3> QED
      BY <3>2, <3>3, <3>4
  <2> QED
    BY <2>3, <2>4, <2>5
<1> QED
  BY <1>4, <1>5, <1>6, <1>7 DEF Order

\* A wait is over, and all that it joined is gone.
LEMMA OrderJoin ==
    ASSUME NEW g, NEW F, NEW M, NEW R, Base(g, F, M, R), Order(g, F, M, R),
           NEW h, WellFormed(h), Shaped(h), NEW p, Grafted(g, h, p),
           NEW old \in F, g[p].taskId = old.task, Joins(old) \subseteq R,
           Known(h) = Known(g), \A u : u # old.task => GrowsBeside(g, h, u),
           NEW f, f.task = old.task, Joins(f) = {}, ~RootCall(f),
           old.task # 0 => RightOpen(h, At(h, old.task)),
           Live((F \ {old}) \cup {f}) = Live(F) \ Joins(old)
    PROVE  Order(h, (F \ {old}) \cup {f}, M, R)
<1> DEFINE t == old.task
           E == (F \ {old}) \cup {f}
           L == Live(F) \ Joins(old)
<1>0. /\ WellFormed(g) /\ Shaped(g) /\ p \in Nodes(g)
      /\ \A q \in Live(F) : q \in Known(g) /\ q # 0 /\ LastFacts(g, q)
      /\ \A e \in F : e.task \in Known(g)
      /\ \A e \in F : e # old => e.task # t
      /\ \A e \in F : \A d \in Joins(e) : d \in Live(F)
      /\ \A m \in M : m \in Live(F)
  BY DEF Base, Grafted
<1>1. /\ \A x \in Known(g) : x \in Known(h) /\ Anc(h, Own(h, x)) = Anc(g, Own(g, x))
      /\ \A x, y \in Known(g) : Above(h, x, y) <=> Above(g, x, y)
      /\ \A u \in Live(F) : u # t => At(h, u) = At(g, u)
                               /\ (IsPhase(h, At(g, u)) <=> IsPhase(g, At(g, u)))
  <2>2. KeptBut(g, h, F, t)
    BY <1>0, GraftedKeptBut
  <2> QED
    BY <2>2 DEF KeptBut
<1>2. \A u \in L : ~Above(g, t, u)
  BY DEF Order, Nested
<1>3. Nested(h, E, M, R)
  <2>1. ASSUME NEW e \in E, NEW q \in L, Above(h, e.task, q)
        PROVE  q \in Joins(e) \/ \E d \in Joins(e) : d \notin R /\ Above(h, d, q)
    <3>1. Above(g, e.task, q)
      BY <1>0, <1>1, <2>1
    <3>2. e \in F
      BY <1>2, <3>1
    <3>3. q \in Joins(e) \/ \E d \in Joins(e) : d \notin R /\ Above(g, d, q)
      BY <3>1, <3>2 DEF Order, Nested
    <3> QED
      BY <1>0, <1>1, <3>2, <3>3
  <2>2. \A c \in M, q \in L : ~Above(h, c, q)
    BY <1>0, <1>1 DEF Order, Nested
  <2> QED
    BY <2>1, <2>2 DEF Nested
<1>4. Below(h, E)
  <2>1. ASSUME NEW e \in F
        PROVE  /\ \A d \in Joins(e) : Above(h, e.task, d)
               /\ RootCall(e) => e.child \in Known(h) /\ Above(h, e.task, e.child)
    <3>1. /\ \A d \in Joins(e) : Above(g, e.task, d)
          /\ RootCall(e) => e.child \in Known(g) /\ Above(g, e.task, e.child)
      BY DEF Order, Below
    <3>2. e.task \in Known(g) /\ \A d \in Joins(e) : d \in Known(g)
      BY <1>0
    <3> QED
      BY <1>1, <3>1, <3>2
  <2> QED
    BY <2>1 DEF Below
<1>5. RightMost(h, E)
  <2> SUFFICES ASSUME NEW u \in L
               PROVE  RightOpen(h, At(h, u))
    BY DEF RightMost
  <2>1. CASE u = t
    BY <1>0, <2>1
  <2>2. CASE u # t
    <3>1. u \in Known(g) /\ LastFacts(g, u) /\ At(h, u) = At(g, u) /\ RightOpen(g, At(g, u))
      BY <1>0, <1>1, <2>2 DEF Order, RightMost
    <3>2. RightOpen(h, At(g, u))
      BY <1>0, <1>2, <2>2, <3>1, OthersOpen
    <3> QED
      BY <3>1, <3>2
  <2> QED
    BY <2>1, <2>2
<1>6. Spawned(h, E)
  <2> SUFFICES ASSUME NEW u \in L, NEW v \in L, Above(h, u, v)
               PROVE  \/ \E e \in E : e.task = u /\ RootCall(e)
                                      /\ (v = e.child \/ Above(h, e.child, v))
                      \/ IsPhase(h, At(h, u)) /\ At(h, u) \in Anc(h, Own(h, v))
    BY DEF Spawned
  <2>1. u \in Known(g) /\ v \in Known(g) /\ Above(g, u, v) /\ u # t
    BY <1>0, <1>1, <1>2
  <2>2. \/ \E e \in F : e.task = u /\ RootCall(e) /\ (v = e.child \/ Above(g, e.child, v))
        \/ IsPhase(g, At(g, u)) /\ At(g, u) \in Anc(g, Own(g, v))
    BY <2>1 DEF Order, Spawned
  <2>3. CASE \E e \in F : e.task = u /\ RootCall(e) /\ (v = e.child \/ Above(g, e.child, v))
    <3>1. PICK e \in F : e.task = u /\ RootCall(e) /\ (v = e.child \/ Above(g, e.child, v))
      BY <2>3
    <3>2. e \in E /\ e.child \in Known(g)
      BY <2>1, <3>1 DEF Order, Below
    <3> QED
      BY <1>1, <2>1, <3>1, <3>2
  <2>4. CASE IsPhase(g, At(g, u)) /\ At(g, u) \in Anc(g, Own(g, v))
    BY <1>1, <2>1, <2>4
  <2> QED
    BY <2>2, <2>3, <2>4
<1> QED
  BY <1>3, <1>4, <1>5, <1>6 DEF Order

-----------------------------------------------------------------------------
(* The steps of the program as changes of tree and tasks *)

\* Where a thread is: the node on top of its stack is the one to which its innermost
\* task adds.
TopAt(g, f, p) ==
    /\ p \in Nodes(g) /\ g[p].type # "STEP" /\ g[p].taskId = f.task
    /\ Open(f) <=> IsPhase(g, p)
    /\ f.task # 0 => /\ LastFacts(g, f.task) /\ g[p].cur_step = Last(g, f.task)
                     /\ At(g, f.task) = p
    /\ f.task = 0 /\ ~Open(f) => p = 1

\* The stack of nodes leads there, and under an open phase to the node of the task.
LEMMA TopSpot ==
    ASSUME DInv, NEW th \in Threads, frames[th] # <<>>
    PROVE  /\ TopAt(tgraph_nodes, Top(frames[th]), Top(cur[th]))
           /\ Open(Top(frames[th])) =>
                 /\ OwnNode(tgraph_nodes, Top(Pop(cur[th])), Top(frames[th]).task)
                 /\ tgraph_nodes[Top(cur[th])].parent = Top(Pop(cur[th]))
<1> DEFINE g == tgraph_nodes
           f == Top(frames[th])
           c == cur[th]
           p == Top(c)
           own == Top(Pop(c))
<1>1. PICK L : Laid(g, frames[th], c, L)
  BY OnTop
<1> DEFINE k == L[Len(frames[th])]
<1>2. AtTop(g, f, c, k) /\ c \in Seq(Nat) /\ f \in Started(frames) /\ FrameOK(f)
  BY <1>1, OnTop
<1>3. WellFormed(g) /\ Shaped(g) /\ f.task \in Known(g)
  BY <1>2 DEF DInv, IInv, Tidy, Control, Captures, OnStack
<1> HIDE DEF k, f, g
<1>4. /\ p \in Nodes(g) /\ g[p].type # "STEP" /\ g[p].taskId = f.task /\ k \in Nat
      /\ f.task # 0 => IsLast(g, f.task, g[p].cur_step)
      /\ Open(f) <=> IsPhase(g, p)
      /\ OwnNode(g, c[k + 1], f.task)
      /\ Open(f) => Len(c) = k + 2 /\ g[p].parent = c[k + 1]
      /\ ~Open(f) => p = c[k + 1]
  BY <1>2 DEF AtTop, Holds
<1> HIDE DEF p
<1>5. Open(f) => own = c[k + 1]
  <2> SUFFICES ASSUME Open(f) PROVE own = c[k + 1]
    OBVIOUS
  <2>1. c # <<>> /\ Len(c) = k + 2
    BY <1>4
  <2>2. Len(Pop(c)) = Len(c) - 1 /\ \A i \in 1..(Len(c) - 1) : Pop(c)[i] = c[i]
    BY <1>2, <2>1, StackFacts, Zenon
  <2>3. Len(Pop(c)) = k + 1 /\ k + 1 \in 1..(Len(c) - 1)
    BY <1>4, <2>1, <2>2
  <2> QED
    BY <2>2, <2>3 DEF Top
<1> HIDE DEF own
<1>6. ASSUME f.task # 0
      PROVE  LastFacts(g, f.task) /\ g[p].cur_step = Last(g, f.task) /\ At(g, f.task) = p
  <2>1. LastFacts(g, f.task) /\ Last(g, f.task) = g[p].cur_step
    BY <1>3, <1>4, <1>6, LastExists, LastIs
  <2>2. p # 1 /\ g[p].cur_step # 0
    BY <1>3, <1>4, <1>6 DEF Shaped
  <2>3. g[g[p].cur_step].parent = p
    BY <1>3, <1>4, <2>2 DEF WellFormed, StepsCurrent, Nodes
  <2> QED
    BY <2>1, <2>3 DEF At
<1>7. f.task = 0 /\ ~Open(f) => p = 1
  <2>1. OwnNode(g, 1, 0)
    BY <1>3, OwnOfMain
  <2> QED
    BY <1>3, <1>4, <2>1 DEF OwnNode, Shaped
<1>8. TopAt(g, f, p)
  BY <1>4, <1>6, <1>7 DEF TopAt
<1> QED
  BY <1>4, <1>5, <1>8 DEF g, f, p, own

\* The parts of the invariant that are about tree and frames.
LEMMA BaseIs ==
    ASSUME DInv
    PROVE  /\ Base(tgraph_nodes, Started(frames), DOMAIN temp_cur_map, returned)
           /\ Control(Started(frames), DOMAIN temp_cur_map, Known(tgraph_nodes), returned,
                      task_id_ctr)
           /\ WellFormed(tgraph_nodes) /\ Shaped(tgraph_nodes) /\ Stacks(frames)
<1>1. /\ WellFormed(tgraph_nodes) /\ Shaped(tgraph_nodes) /\ Stacks(frames)
      /\ Control(Started(frames), DOMAIN temp_cur_map, Known(tgraph_nodes), returned,
                 task_id_ctr)
  BY DEF DInv, IInv, Tidy
<1> QED
  BY <1>1, BaseHolds

\* SetTaskId, Publish and WaitForAll change nothing that the tree or its order sees.
Seen == <<tgraph_nodes, DOMAIN temp_cur_map, returned, cur, truthVars>>

\* The innermost task of a thread goes on, and looks the same.
LEMMA QuietView ==
    ASSUME DInv, NEW th \in Threads, frames[th] # <<>>, NEW f \in FrameType,
           View(Top(frames[th]), f), frames' = SetTop(th, f)
    PROVE  SameView(Started(frames), Started(frames'))
<1> DEFINE old == Top(frames[th])
           F == Started(frames)
<1>1. Stacks(frames) /\ f.task = old.task
  BY DEF DInv, Tidy, View
<1>2. old \in F /\ Started(frames') = (F \ {old}) \cup {f}
  BY <1>1, TopStarted
<1>3. \A e \in F : View(e, e)
  BY DEF View
<1> HIDE DEF old, F
<1>4. View(old, f)
  BY DEF old
<1> QED
  BY <1>2, <1>3, <1>4 DEF SameView, F

\* To draw an id joins nothing yet.
LEMMA SetTaskIdQuiet ==
    ASSUME DInv, NEW th \in Threads, NEW kind \in Kinds, SetTaskId(th, kind)
    PROVE  SameView(Started(frames), Started(frames')) /\ Seen' = Seen
<1> DEFINE old == Top(frames[th])
           c == task_id_ctr + 1
           f == [old EXCEPT !.pc = "named", !.kind = kind, !.child = c]
<1>1. /\ frames[th] # <<>> /\ frames' = SetTop(th, f) /\ old.pc = "run"
      /\ UNCHANGED <<graphVars, returned, truthVars>>
      /\ task_id_ctr < MaxTasks
  BY DEF SetTaskId, Running
<1>2. /\ old \in FrameType
  BY <1>1, OnTop
<1>3. /\ task_id_ctr \in Nat /\ MaxTasks \in Nat /\ task_id_ctr \in 0..MaxTasks
  BY TaskAssumption DEF DInv, SchedInv, SchedTypeOK
<1>4. c \in 0..MaxTasks
  BY <1>1, <1>3
<1> HIDE DEF old, c
<1>5. /\ f \in FrameType /\ f.pc = "named"
      /\ f.task = old.task /\ f.pending = old.pending /\ f.awaited = old.awaited
  BY <1>2, <1>4 DEF FrameType
<1> HIDE DEF f
<1>6. View(old, f)
  BY <1>1, <1>5 DEF View, Joins, RootCall
<1>7. SameView(Started(frames), Started(frames'))
  BY <1>1, <1>5, <1>6, QuietView DEF old
<1> QED
  BY <1>1, <1>7 DEF Seen, graphVars, truthVars

\* A published child is joined as the captured one was.
LEMMA PublishQuiet ==
    ASSUME DInv, NEW th \in Threads, Publish(th)
    PROVE  SameView(Started(frames), Started(frames')) /\ Seen' = Seen
<1> DEFINE old == Top(frames[th])
           c == old.child
           own == old.pending \cup (IF old.kind = "root" THEN {} ELSE {c})
           f == IF old.kind = "spawn"
                THEN [old EXCEPT !.pc = "run", !.kind = "none", !.child = 0, !.pending = own]
                ELSE [old EXCEPT !.pc = "waiting", !.pending = own,
                                 !.awaited = IF old.kind = "root" THEN {c} ELSE own]
<1>1. /\ frames[th] # <<>> /\ frames' = SetTop(th, f) /\ old.pc = "captured"
      /\ UNCHANGED <<graphVars, returned, truthVars>>
  BY DEF Publish
<1>2. old \in FrameType /\ old \in Started(frames) /\ FrameOK(old)
  BY <1>1, OnTop
<1> HIDE DEF old
<1>4. c \in TaskIds /\ own \in SUBSET TaskIds
  <2>1. c \in DOMAIN temp_cur_map
    BY <1>1, <1>2 DEF DInv, Tidy, Control, Joined
  <2>2. c \in TaskIds
    BY <2>1 DEF DInv, IInv, GraphTypeOK
  <2> QED
    BY <2>2, <1>2 DEF FrameType
<1>5. /\ old.kind \in Kinds /\ old.awaited = {}
      /\ old.kind = "root" => old.pending = {}
  BY <1>1, <1>2 DEF FrameOK, Kinds
<1>6. f \in FrameType /\ f.task = old.task /\ f.pending = own
  <2>1. 0 \in 0..MaxTasks /\ {c} \in SUBSET TaskIds
    BY <1>4, TaskAssumption
  <2> HIDE DEF own, c
  <2>2. CASE old.kind = "spawn"
    BY <1>2, <1>4, <2>1, <2>2 DEF FrameType
  <2>3. CASE old.kind # "spawn"
    BY <1>2, <1>4, <2>1, <2>3 DEF FrameType
  <2> QED
    BY <2>2, <2>3
<1>7. /\ old.kind = "spawn" => f.pc = "run" /\ f.kind = "none" /\ f.awaited = {}
      /\ old.kind # "spawn" => /\ f.pc = "waiting" /\ f.kind = old.kind /\ f.child = old.child
                               /\ f.awaited = IF old.kind = "root" THEN {c} ELSE own
  <2> HIDE DEF own, c
  <2>2. CASE old.kind = "spawn"
    BY <1>2, <1>5, <2>2 DEF FrameType
  <2>3. CASE old.kind # "spawn"
    BY <1>2, <2>3 DEF FrameType
  <2> QED
    BY <2>2, <2>3
<1> HIDE DEF f
<1>8. Joins(f) = Joins(old)
  <2>1. Joins(old) = old.pending \cup {c}
    BY <1>1, <1>5 DEF Joins, c
  <2>2. CASE old.kind = "spawn"
    BY <1>6, <1>7, <2>1, <2>2 DEF Joins
  <2>3. CASE old.kind = "root"
    BY <1>5, <1>6, <1>7, <2>1, <2>3 DEF Joins
  <2>4. CASE old.kind = "spawn_and_wait"
    BY <1>6, <1>7, <2>1, <2>4 DEF Joins
  <2> QED
    BY <1>5, <2>2, <2>3, <2>4 DEF Kinds
<1>9. View(old, f)
  BY <1>1, <1>5, <1>6, <1>7, <1>8 DEF View, RootCall
<1>10. SameView(Started(frames), Started(frames'))
  BY <1>1, <1>6, <1>9, QuietView DEF old
<1> QED
  BY <1>1, <1>10 DEF Seen, graphVars, truthVars

\* To wait awaits what was to be joined anyway.
LEMMA WaitForAllQuiet ==
    ASSUME DInv, NEW th \in Threads, WaitForAll(th)
    PROVE  SameView(Started(frames), Started(frames')) /\ Seen' = Seen
<1> DEFINE old == Top(frames[th])
           f == [old EXCEPT !.pc = "waiting", !.kind = "wait", !.awaited = old.pending]
<1>1. /\ frames[th] # <<>> /\ frames' = SetTop(th, f) /\ old.pc = "run"
      /\ UNCHANGED <<graphVars, returned, truthVars>>
  BY DEF WaitForAll, Running
<1>2. old \in FrameType /\ FrameOK(old)
  BY <1>1, OnTop
<1> HIDE DEF old
<1>4. /\ f \in FrameType /\ f.task = old.task /\ f.pending = old.pending
      /\ f.awaited = old.pending /\ f.pc = "waiting" /\ f.kind = "wait"
  BY <1>2 DEF FrameType
<1> HIDE DEF f
<1>5. View(old, f)
  BY <1>1, <1>2, <1>4 DEF FrameOK, Joins, View, RootCall
<1>6. SameView(Started(frames), Started(frames'))
  BY <1>1, <1>4, <1>5, QuietView DEF old
<1> QED
  BY <1>1, <1>6 DEF Seen, graphVars, truthVars

\* A task begins.
Began(F, E, M, N, id) ==
    /\ id \in M /\ N = M \ {id} /\ E = F \cup {Frame(id)} /\ Live(E) = Live(F)
    /\ Frame(id).task = id /\ Joins(Frame(id)) = {} /\ ~RootCall(Frame(id))

\* Execute takes the task from the map to a frame of its own.
LEMMA ExecuteBegins ==
    ASSUME DInv, NEW th \in Threads, NEW id \in TaskIds, Execute(th, id)
    PROVE  /\ Began(Started(frames), Started(frames'), DOMAIN temp_cur_map,
                    DOMAIN temp_cur_map', id)
           /\ tgraph_nodes' = tgraph_nodes /\ returned' = returned
           /\ frames'[th] # <<>> /\ Top(frames'[th]) = Frame(id)
<1> DEFINE F == Started(frames)
           M == DOMAIN temp_cur_map
           f == Frame(id)
<1>1. /\ Idle(th) /\ id \in M
      /\ temp_cur_map' = Restrict(temp_cur_map, M \ {id})
      /\ tgraph_nodes' = tgraph_nodes /\ returned' = returned
      /\ frames' = [frames EXCEPT ![th] = Append(@, f)]
  BY DEF Execute, CaptureExecute
<1>2. Control(F, M, Known(tgraph_nodes), returned, task_id_ctr) /\ Stacks(frames)
  BY BaseIs
<1>4. \A e \in F : e.pc = "captured" => e.child # id
  <2> SUFFICES ASSUME NEW e \in F, e.pc = "captured"
               PROVE  e.child # id
    OBVIOUS
  <2>1. PICK t \in Threads : \E i \in 1..Len(frames[t]) : e = frames[t][i]
    BY DEF Started
  <2>2. PICK i \in 1..Len(frames[t]) : e = frames[t][i]
    BY <2>1
  <2>3. id \in ready
    BY DEF Execute
  <2> QED
    BY <2>2, <2>3 DEF DInv, SchedInv, CallsHoldIds, InCall
<1>5. \A e \in F : e.task # id
  BY <1>1, <1>2 DEF Control, Joined, OnStack
<1>6. /\ Joins(f) = {} /\ f \in FrameType /\ Live(F \cup {f}) = Live(F)
  BY <1>1, <1>2, <1>4, BeginFrame
<1>7. f.task = id /\ ~RootCall(f)
  BY DEF Frame, RootCall
<1> HIDE DEF f
<1>8. /\ Started(frames') = F \cup {f}
      /\ Len(frames'[th]) = Len(frames[th]) + 1
      /\ frames'[th][Len(frames[th]) + 1] = f
      /\ Stacks(frames')
  BY <1>1, <1>2, <1>5, <1>6, PushStarted DEF f
<1>9. DOMAIN temp_cur_map' = M \ {id}
  BY <1>1 DEF Restrict
<1>10. frames'[th] # <<>> /\ Top(frames'[th]) = f
  <2>1. frames[th] \in Seq(FrameType) /\ frames'[th] \in Seq(FrameType)
    BY <1>2, <1>8 DEF Stacks
  <2>2. Len(frames[th]) \in Nat /\ Len(<<>>) = 0
    BY <2>1
  <2> QED
    BY <1>8, <2>1, <2>2 DEF Top
<1> QED
  BY <1>1, <1>6, <1>7, <1>8, <1>9, <1>10 DEF Began, f

\* A task ends.
Ended(F, E, R, S, old) ==
    /\ old \in F /\ ~RootCall(old) /\ HeirsOf(E, F, old) /\ Live(E) = Live(F)
    /\ S = R \cup {old.task}

\* Return hands what is left to join to whoever joins the task.
LEMMA ReturnEnds ==
    ASSUME Discipline, DInv, NEW th \in Threads, Return(th)
    PROVE  /\ Ended(Started(frames), Started(frames'), returned, returned', Top(frames[th]))
           /\ tgraph_nodes' = tgraph_nodes /\ temp_cur_map' = temp_cur_map
           /\ UNCHANGED truthVars
<1> DEFINE old == Top(frames[th])
           F == Started(frames)
           id == old.task
           left == old.pending
<1>1. /\ frames[th] # <<>> /\ old.pc = "run" /\ id # 0
      /\ tgraph_nodes' = tgraph_nodes /\ temp_cur_map' = temp_cur_map
      /\ returned' = returned \cup {id} /\ UNCHANGED truthVars
      /\ frames' = [t \in Threads |->
            LET s == IF t = th THEN Pop(frames[t]) ELSE frames[t] IN
            [i \in DOMAIN s |-> Inherit(s[i], id, left)]]
  BY DEF Return, Running, CaptureReturn
<1>2. Control(F, DOMAIN temp_cur_map, Known(tgraph_nodes), returned, task_id_ctr)
      /\ Stacks(frames) /\ F \subseteq FrameType
  BY BaseIs DEF Control, FramesOK
<1>3. old \in FrameType /\ old \in F /\ frames \in [Threads -> Seq(FrameType)]
  BY <1>1, <1>2, OnTop DEF Stacks
<1>5. left \in SUBSET TaskIds
  BY <1>3 DEF FrameType
<1>8. /\ frames' \in [Threads -> Seq(FrameType)]
      /\ \A t \in Threads :
            /\ Len(frames'[t]) = Remaining(frames, th, t)
            /\ Remaining(frames, th, t) \in Nat
            /\ \A i \in 1..Remaining(frames, th, t) :
                  /\ i \in 1..Len(frames[t])
                  /\ frames'[t][i] = Inherit(frames[t][i], id, left)
  <2> HIDE DEF id, left
  <2> QED
    BY <1>1, <1>3, <1>5, PoppedFrames
<1>9. Started(frames') = Heirs(F, old)
  <2> DEFINE fr == frames
             gr == frames'
             x == id
             y == left
  <2>1. /\ Stacks(fr) /\ fr[th] # <<>> /\ Top(fr[th]).task # 0
        /\ gr \in [Threads -> Seq(FrameType)] /\ y \in SUBSET TaskIds
        /\ \A t \in Threads :
              /\ Len(gr[t]) = Remaining(fr, th, t)
              /\ Remaining(fr, th, t) \in Nat
              /\ \A i \in 1..Remaining(fr, th, t) :
                    i \in 1..Len(fr[t]) /\ gr[t][i] = Inherit(fr[t][i], x, y)
    BY <1>1, <1>2, <1>5, <1>8
  <2> HIDE DEF fr, gr, x, y
  <2>2. Started(gr) = {Inherit(e, x, y) : e \in Started(fr) \ {Top(fr[th])}}
    BY <2>1, PopStarted
  <2> QED
    BY <2>2, Zenon DEF fr, gr, x, y, F, Heirs
<1> HIDE DEF F, old
<1>10. /\ Live(Heirs(F, old)) = Live(F)
       /\ \A e \in F \ {old} :
             Joins(Inherit(e, old.task, old.pending)) =
                IF old.task \in Joins(e) THEN Joins(e) \cup Joins(old) ELSE Joins(e)
  BY <1>1, <1>2, <1>3, EndFrame
<1>11. \A e \in F : e # old => Heir(e, Inherit(e, old.task, old.pending), old)
  <2> SUFFICES ASSUME NEW e \in F, e # old
               PROVE  Heir(e, Inherit(e, old.task, old.pending), old)
    OBVIOUS
  <2> DEFINE d == Inherit(e, old.task, old.pending)
  <2>1. /\ d.task = e.task /\ d.child = e.child
        /\ RootCall(d) <=> RootCall(e)
    <3> DEFINE x == old.task
               y == old.pending
               a == IF x \in e.pending THEN e.pending \cup y ELSE e.pending
               b == IF x \in e.awaited THEN e.awaited \cup y ELSE e.awaited
    <3>1. e \in FrameType
      BY <1>2
    <3>2. d = [e EXCEPT !.pending = a, !.awaited = b]
      BY DEF Inherit
    <3> HIDE DEF d, a, b
    <3> QED
      BY <3>1, <3>2 DEF FrameType, RootCall
  <2>2. Joins(d) = IF old.task \in Joins(e) THEN Joins(e) \cup Joins(old) ELSE Joins(e)
    BY <1>10
  <2> HIDE DEF d
  <2>3. Heir(e, d, old)
    BY <2>1, <2>2 DEF Heir
  <2> QED
    BY <2>3 DEF d
<1>12. HeirsOf(Heirs(F, old), F, old)
  BY <1>11 DEF HeirsOf, Heirs
<1>13. ~RootCall(old)
  BY <1>1 DEF RootCall
<1> QED
  BY <1>1, <1>3, <1>9, <1>10, <1>12, <1>13 DEF Ended, F, old

\* A call adds its child to the tree.
Called(g, h, F, E, M, N, old, f, p, c) ==
    /\ old \in F /\ ~RootCall(old) /\ E = (F \ {old}) \cup {f}
    /\ f.task = old.task /\ f.child = c /\ Joins(f) = Joins(old) \cup {c}
    /\ Live(E) = Live(F) \cup {c} /\ N = M \cup {c} /\ c \notin Known(g)
    /\ TopAt(g, old, p) /\ (IsPhase(g, p) \/ Joins(old) = {})
    /\ \/ SpawnedAt(g, h, p, c) /\ ~RootCall(f) /\ old.task # 0
       \/ RootedAt(g, h, p, c) /\ RootCall(f) /\ Joins(old) = {} /\ IsTask(g, p)

\* Capture adds the child to the tree, to the map and to what its parent joins.
LEMMA CaptureCalls ==
    ASSUME DInv, NEW th \in Threads, Capture(th)
    PROVE  LET old == Top(frames[th]) IN
           /\ Called(tgraph_nodes, tgraph_nodes', Started(frames), Started(frames'),
                     DOMAIN temp_cur_map, DOMAIN temp_cur_map', old,
                     [old EXCEPT !.pc = "captured"], Top(cur[th]), old.child)
           /\ RootCall([old EXCEPT !.pc = "captured"]) <=> old.kind = "root"
           /\ returned' = returned
<1> DEFINE old == Top(frames[th])
           f == [old EXCEPT !.pc = "captured"]
           c == old.child
           g == tgraph_nodes
           h == tgraph_nodes'
           F == Started(frames)
           E == Started(frames')
           M == DOMAIN temp_cur_map
           N == DOMAIN temp_cur_map'
           p == Top(cur[th])
<1>1. /\ frames[th] # <<>> /\ old.pc = "named" /\ frames' = SetTop(th, f)
      /\ returned' = returned
      /\ CaptureSetTaskId(th, c, old.kind # "root")
  BY Zenon DEF Capture
<1>2. /\ old \in FrameType /\ old \in F /\ FrameOK(old)
  BY <1>1, OnTop
<1>3. Control(F, M, Known(g), returned, task_id_ctr) /\ WellFormed(g) /\ Shaped(g)
      /\ Stacks(frames)
  BY BaseIs
<1>4. TopAt(g, old, p)
  BY <1>1, TopSpot
<1>5. /\ old.kind # "root" =>
            /\ h = SpawnTree(g, p, c).tree
            /\ temp_cur_map' = MapInsert(temp_cur_map, c, SpawnTree(g, p, c).node)
      /\ old.kind = "root" =>
            /\ h = RootTree(g, p, c).tree
            /\ temp_cur_map' = MapInsert(temp_cur_map, c, RootTree(g, p, c).node)
  BY <1>1, Zenon DEF CaptureSetTaskId, CaptureSpawnOnly, CaptureSpawnAndWait
<1>6. N = M \cup {c}
  BY <1>5 DEF MapInsert
<1>7. c \in Nat /\ c \notin Known(g)
  BY <1>1, <1>2, <1>3 DEF Control, Captures
<1> HIDE DEF old, p, g, h, F, M, N, c
<1>8. /\ f \in FrameType /\ f.task = old.task /\ f.child = c /\ f.kind = old.kind
      /\ f.pending = old.pending /\ f.awaited = old.awaited /\ f.pc = "captured"
  BY <1>2 DEF FrameType, c
<1> HIDE DEF f, E
<1>9. E = (F \ {old}) \cup {f}
  BY <1>1, <1>3, <1>8, TopStarted DEF E, F, old
<1>10. Joins(f) = Joins(old) \cup {c} /\ Live((F \ {old}) \cup {f}) = Live(F) \cup {c}
  <2>1. f.child = old.child /\ old.pc = "named" /\ f.pc = "captured"
    BY <1>1, <1>8 DEF c
  <2> HIDE DEF c
  <2> DEFINE k == old.child
             K == Known(g)
             R == returned
             n == task_id_ctr
             F2 == (F \ {old}) \cup {f}
  <2>2. Control(F, M, K, R, n) /\ f.child = k
    BY <1>3, <2>1
  <2> HIDE DEF K, R, n
  <2>3. /\ Joins(f) = Joins(old) \cup {k} /\ Live(F2) = Live(F) \cup {k}
        /\ Control(F2, M \cup {k}, K \cup {k}, R, n)
    BY <1>2, <1>8, <2>1, <2>2, CaptureFrame
  <2> QED
    BY <2>3 DEF c
<1>11. ~RootCall(old) /\ (RootCall(f) <=> old.kind = "root")
  BY <1>1, <1>8 DEF RootCall
<1>12. /\ IsPhase(g, p) \/ Joins(old) = {}
       /\ old.kind = "root" => Joins(old) = {} /\ IsTask(g, p)
       /\ old.kind # "root" => old.task # 0
  <2>1. old.awaited = {} /\ old.kind \in Kinds
        /\ (old.kind = "root" => old.pending = {}) /\ (old.task = 0 => old.kind = "root")
    BY <1>1, <1>2 DEF FrameOK, Kinds
  <2>2. Joins(old) = old.pending /\ (Open(old) <=> old.pending # {})
    BY <1>1, <2>1 DEF Joins, Open
  <2> QED
    BY <1>4, <2>1, <2>2 DEF TopAt, IsTask
<1>13. p \in Nodes(g) /\ g[p].type # "STEP" /\ g[p].taskId = old.task
  BY <1>4 DEF TopAt
<1>14. old.kind # "root" => SpawnedAt(g, h, p, c)
  BY <1>3, <1>5, <1>7, <1>12, <1>13, SpawnGrafts
<1>15. old.kind = "root" => RootedAt(g, h, p, c)
  BY <1>3, <1>5, <1>7, <1>12, <1>13, RootGrafts
<1>16. Called(g, h, F, E, M, N, old, f, p, c)
  BY <1>2, <1>4, <1>6, <1>7, <1>8, <1>9, <1>10, <1>11, <1>12, <1>14, <1>15 DEF Called
<1> QED
  BY <1>1, <1>11, <1>16, Zenon DEF g, h, F, E, M, N, old, f, p, c

\* A wait is over.
Resumed(g, h, F, E, R, old, f, p) ==
    /\ old \in F /\ E = (F \ {old}) \cup {f} /\ f.task = old.task
    /\ Joins(f) = {} /\ ~RootCall(f) /\ Joins(old) \subseteq R
    /\ Live(E) = Live(F) \ Joins(old)
    /\ OwnNode(g, p, old.task)
    /\ \/ RootCall(old) /\ h = g /\ (old.task # 0 => At(g, old.task) = p)
       \/ /\ ~RootCall(old) /\ SteppedAt(g, h, p) /\ old.task # 0
          /\ IsPhase(g, At(g, old.task)) /\ g[At(g, old.task)].parent = p

\* Resume drops what was awaited and goes on below the node of the task.
LEMMA ResumeJoins ==
    ASSUME DInv, NEW th \in Threads, Resume(th)
    PROVE  LET old == Top(frames[th])
               f == [old EXCEPT !.pc = "run", !.kind = "none", !.child = 0,
                                !.awaited = {}, !.pending = {}]
           IN  /\ \E p : Resumed(tgraph_nodes, tgraph_nodes', Started(frames),
                                 Started(frames'), returned, old, f, p)
               /\ DOMAIN temp_cur_map' = DOMAIN temp_cur_map /\ returned' = returned
               /\ Joins(old) = old.awaited
<1> DEFINE old == Top(frames[th])
           f == [old EXCEPT !.pc = "run", !.kind = "none", !.child = 0,
                            !.awaited = {}, !.pending = {}]
           g == tgraph_nodes
           h == tgraph_nodes'
           F == Started(frames)
           E == Started(frames')
           M == DOMAIN temp_cur_map
           R == returned
           c == cur[th]
           q == Top(c)
           own == Top(Pop(c))
<1>1. /\ frames[th] # <<>> /\ old.pc = "waiting" /\ frames' = SetTop(th, f)
      /\ f \in FrameType /\ f.task = old.task /\ ~Open(f)
      /\ old.kind = "root" => ~Open(old)
      /\ old.kind # "root" => Open(old)
      /\ returned' = R
  BY ResumedFrame, Zenon
<1>2. /\ old.awaited \subseteq R
      /\ temp_cur_map' = temp_cur_map
      /\ old.kind = "root" => h = g
      /\ old.kind # "root" => h = AddStep(g, own)
  BY DEF Resume, CaptureWaitOnly, graphVars
<1>3. Control(F, M, Known(g), R, task_id_ctr) /\ WellFormed(g) /\ Shaped(g)
      /\ Stacks(frames)
  BY BaseIs
<1>4. old \in FrameType /\ old \in F /\ FrameOK(old)
  BY <1>1, OnTop
<1>5. TopAt(g, old, q) /\ (Open(old) => OwnNode(g, own, old.task) /\ g[q].parent = own)
  BY <1>1, TopSpot
<1> HIDE DEF old, g, h, F, E, M, q, own, R
<1>6. /\ f.pc = "run" /\ f.kind = "none" /\ f.pending = {} /\ f.awaited = {}
  BY <1>4, TaskAssumption DEF FrameType
<1> HIDE DEF f
<1>7. /\ Joins(f) = {} /\ Joins(old) = old.awaited
      /\ Live((F \ {old}) \cup {f}) = Live(F) \ Joins(old)
  <2> DEFINE K == Known(g)
             n == task_id_ctr
             F2 == (F \ {old}) \cup {f}
  <2>1. Control(F, M, K, R, n) /\ old.pc = "waiting" /\ f.task = old.task
        /\ f \in FrameType /\ old \in F /\ old.awaited \subseteq R
    BY <1>1, <1>2, <1>3, <1>4 DEF R
  <2> HIDE DEF K, n
  <2>2. /\ Joins(f) = {} /\ Joins(old) = old.awaited
        /\ Live(F2) = Live(F) \ Joins(old) /\ Control(F2, M, K, R, n)
    BY <1>6, <2>1, JoinFrame
  <2> QED
    BY <2>2
<1>8. E = (F \ {old}) \cup {f}
  BY <1>1, <1>3, TopStarted DEF E, F, old
<1>9. ~RootCall(f) /\ (RootCall(old) <=> old.kind = "root")
  BY <1>1, <1>6 DEF RootCall
<1>10. CASE old.kind = "root"
  <2>1. OwnNode(g, q, old.task) /\ (old.task # 0 => At(g, old.task) = q)
    BY <1>1, <1>5, <1>10 DEF TopAt, OwnNode, IsTask
  <2>2. Resumed(g, h, F, E, R, old, f, q)
    BY <1>1, <1>2, <1>4, <1>7, <1>8, <1>9, <1>10, <2>1 DEF Resumed
  <2>3. \E p : Resumed(g, h, F, E, R, old, f, p)
    BY <2>2
  <2> QED
    BY <1>1, <1>2, <1>7, <2>3, Zenon DEF g, h, F, E, R, old, f
<1>11. CASE old.kind # "root"
  <2>0. Open(old) /\ old.task # 0
    BY <1>1, <1>4, <1>11 DEF FrameOK
  <2>1. /\ OwnNode(g, own, old.task) /\ g[q].parent = own
        /\ IsPhase(g, At(g, old.task)) /\ g[At(g, old.task)].parent = own
    BY <1>5, <2>0 DEF TopAt
  <2>2. own \in Nodes(g) /\ g[own].type # "STEP"
    BY <2>1 DEF OwnNode, IsTask
  <2>3. SteppedAt(g, h, own)
    BY <1>2, <1>3, <1>11, <2>2, StepGrafts
  <2>4. Resumed(g, h, F, E, R, old, f, own)
    BY <1>1, <1>2, <1>4, <1>7, <1>8, <1>9, <1>11, <2>0, <2>1, <2>3 DEF Resumed
  <2>5. \E p : Resumed(g, h, F, E, R, old, f, p)
    BY <2>4
  <2> QED
    BY <1>1, <1>2, <1>7, <2>5, Zenon DEF g, h, F, E, R, old, f
<1> QED
  BY <1>10, <1>11

-----------------------------------------------------------------------------
(* The order of tree and tasks is an invariant *)

\* The node to which the innermost task of a thread adds is open.
LEMMA SpotIsOpen ==
    ASSUME NEW g, NEW F, NEW M, NEW R, Base(g, F, M, R), Order(g, F, M, R),
           NEW old \in F, NEW p, TopAt(g, old, p)
    PROVE  RightOpen(g, p)
<1>1. CASE old.task = 0
  <2>0. ~Open(old)
    <3>1. FrameOK(old)
      BY DEF Base
    <3>2. old.pending = {} /\ old.kind \in {"none", "root"}
      BY <1>1, <3>1 DEF FrameOK
    <3>3. old.pc = "captured" => old.kind = "root"
      BY <3>1, <3>2 DEF FrameOK, Kinds
    <3> QED
      BY <3>2, <3>3 DEF Open
  <2>1. p = 1
    BY <1>1, <2>0 DEF TopAt
  <2>2. WellFormed(g) /\ Anc(g, 1) = {1}
    <3>1. WellFormed(g) /\ 1 \in Nodes(g)
      BY <2>1 DEF Base, TopAt
    <3>2. UpClosed(g, {1})
      BY DEF UpClosed
    <3> QED
      BY <3>1, <3>2, AncBasics DEF Anc
  <2> QED
    BY <2>1, <2>2 DEF RightOpen
<1>2. CASE old.task # 0
  <2>1. old.task \in Live(F) /\ p = At(g, old.task)
    BY <1>2 DEF TopAt, Base
  <2> QED
    BY <2>1 DEF Order, RightMost
<1> QED
  BY <1>1, <1>2

\* A call keeps the order: it adds to the tree at an open place.
LEMMA OrderCalled ==
    ASSUME NEW g, NEW h, NEW F, NEW E, NEW M, NEW N, NEW R, NEW old, NEW f, NEW p, NEW c,
           Base(g, F, M, R), Order(g, F, M, R), Called(g, h, F, E, M, N, old, f, p, c)
    PROVE  Order(h, E, N, R)
<1> DEFINE t == old.task
<1>1. /\ old \in F /\ ~RootCall(old) /\ E = (F \ {old}) \cup {f}
      /\ f.task = t /\ f.child = c /\ Joins(f) = Joins(old) \cup {c}
      /\ Live(E) = Live(F) \cup {c} /\ N = M \cup {c} /\ c \notin Known(g)
      /\ TopAt(g, old, p) /\ (IsPhase(g, p) \/ Joins(old) = {})
  BY DEF Called
<1>2. /\ WellFormed(g) /\ Shaped(g) /\ t \in Known(g)
      /\ g[p].taskId = t /\ t # c
  BY <1>1 DEF Base, Order, TopAt
<1>3. RightOpen(g, p)
  BY <1>1, SpotIsOpen
<1>4. t # 0 => LastFacts(g, t) /\ At(g, t) = p
  BY <1>1 DEF TopAt
<1> HIDE DEF t
<1>5. CASE SpawnedAt(g, h, p, c) /\ ~RootCall(f) /\ t # 0
  <2>1. /\ WellFormed(h) /\ Shaped(h) /\ Grafted(g, h, p)
        /\ Known(h) = Known(g) \cup {c}
        /\ \A u : u # t /\ u # c => GrowsBeside(g, h, u)
        /\ IsPhase(h, At(h, t)) /\ At(h, t) \in Anc(h, Own(h, c))
        /\ IsPhase(g, p) => At(h, t) = p
        /\ RightOpen(h, At(h, t)) /\ RightOpen(h, At(h, c))
        /\ LastFacts(h, t) /\ LastFacts(h, c) /\ Par(h, Last(h, c), Last(h, t))
        /\ \A a \in StepsOf(h) : a \notin Nodes(g) => a = Last(h, t) \/ a = Last(h, c)
    BY <1>2, <1>3, <1>5 DEF SpawnedAt
  <2>6. Order(h, (F \ {old}) \cup {f}, M \cup {c}, R)
    <3>1. t # 0 /\ IsPhase(g, At(g, t)) => At(h, t) = At(g, t)
      BY <1>4, <2>1
    <3>2. /\ g[p].taskId = old.task /\ f.task = old.task
          /\ RightOpen(h, At(h, old.task))
          /\ IsPhase(h, At(h, old.task)) /\ At(h, old.task) \in Anc(h, Own(h, c))
          /\ \A u : u # old.task /\ u # c => GrowsBeside(g, h, u)
          /\ old.task # 0 /\ IsPhase(g, At(g, old.task)) => At(h, old.task) = At(g, old.task)
      BY <1>1, <1>2, <2>1, <3>1 DEF t
    <3>3. /\ WellFormed(h) /\ Shaped(h) /\ Grafted(g, h, p)
          /\ Known(h) = Known(g) \cup {c} /\ RightOpen(h, At(h, c))
      BY <2>1
    <3>4. Live((F \ {old}) \cup {f}) = Live(F) \cup {c}
      BY <1>1
    <3> QED
      BY <1>1, <1>5, <3>2, <3>3, <3>4, OrderCapture, SMTT(60)
  <2> QED
    BY <1>1, <2>6
<1>6. CASE RootedAt(g, h, p, c) /\ RootCall(f) /\ Joins(old) = {} /\ IsTask(g, p)
  <2>1. /\ WellFormed(h) /\ Shaped(h) /\ Grafted(g, h, p)
        /\ Known(h) = Known(g) \cup {c}
        /\ \A u : u # c => GrowsBeside(g, h, u)
        /\ RightOpen(h, At(h, c)) /\ LastFacts(h, c)
        /\ \A a \in StepsOf(h) : a \notin Nodes(g) => a = Last(h, c)
    BY <1>3, <1>6 DEF RootedAt
  <2>4. t # 0 => At(h, t) = At(g, t) /\ RightOpen(h, At(h, t))
    <3> SUFFICES ASSUME t # 0
                 PROVE  At(h, t) = At(g, t) /\ RightOpen(h, At(h, t))
      OBVIOUS
    <3>1. GrowsBeside(g, h, t)
      BY <1>2, <2>1
    <3>2. At(h, t) = At(g, t)
      BY <1>2, <2>1, <3>1, GraftedLast
    <3>3. RightOpen(h, p)
      BY <1>2, <1>3, <2>1, SpotOpen
    <3> QED
      BY <1>4, <3>2, <3>3
  <2>6. Order(h, (F \ {old}) \cup {f}, M \cup {c}, R)
    BY <1>1, <1>2, <1>4, <1>6, <2>1, <2>4, OrderCapture DEF t
  <2> QED
    BY <1>1, <2>6
<1> QED
  BY <1>5, <1>6 DEF Called, t

\* So does the end of a wait, which leaves nothing of the task to join.
LEMMA OrderResumed ==
    ASSUME NEW g, NEW h, NEW F, NEW E, NEW M, NEW R, NEW old, NEW f, NEW p,
           Base(g, F, M, R), Order(g, F, M, R), Resumed(g, h, F, E, R, old, f, p)
    PROVE  Order(h, E, M, R)
<1> DEFINE t == old.task
<1>1. /\ old \in F /\ E = (F \ {old}) \cup {f} /\ f.task = t
      /\ Joins(f) = {} /\ ~RootCall(f) /\ Joins(old) \subseteq R
      /\ Live(E) = Live(F) \ Joins(old)
      /\ OwnNode(g, p, t)
  BY DEF Resumed
<1>2. /\ WellFormed(g) /\ Shaped(g) /\ t \in Known(g)
      /\ t # 0 => t \in Live(F) /\ LastFacts(g, t) /\ RightOpen(g, At(g, t))
      /\ p \in Nodes(g) /\ g[p].taskId = t /\ g[p].type # "STEP"
  BY <1>1 DEF Base, Order, RightMost, OwnNode, IsTask
<1> HIDE DEF t
<1>3. CASE h = g
  <2>1. Grafted(g, h, p) /\ \A u : GrowsBeside(g, h, u)
    BY <1>2, <1>3, GraftNothing DEF GrowsBeside
  <2>2. Order(h, (F \ {old}) \cup {f}, M, R)
    BY <1>1, <1>2, <1>3, <2>1, OrderJoin DEF t
  <2> QED
    BY <1>1, <2>2
<1>4. CASE SteppedAt(g, h, p) /\ t # 0 /\ g[At(g, t)].parent = p
  <2>1. RightOpen(g, p)
    <3> DEFINE a == At(g, t)
    <3>1. a \in Nodes(g) /\ RightOpen(g, a) /\ p \in Nodes(g)
      BY <1>2, <1>4 DEF LastFacts
    <3> HIDE DEF a
    <3>2. a # 1
      BY <1>2, <1>4, TreeNodes DEF Nodes, a, WellFormed, ParentsFirst
    <3>3. Anc(g, p) \subseteq Anc(g, a)
      BY <1>2, <1>4, <3>1, <3>2, AncBasics DEF a
    <3> QED
      BY <3>1, <3>3 DEF RightOpen
  <2>2. /\ WellFormed(h) /\ Shaped(h) /\ Grafted(g, h, p)
        /\ Known(h) = Known(g)
        /\ \A u : u # t => GrowsBeside(g, h, u)
        /\ RightOpen(h, At(h, t))
        /\ \A a \in StepsOf(h) : a \notin Nodes(g) => a = Last(h, t)
    BY <1>2, <1>4, <2>1 DEF SteppedAt
  <2>5. Order(h, (F \ {old}) \cup {f}, M, R)
    BY <1>1, <1>2, <2>2, OrderJoin DEF t
  <2> QED
    BY <1>1, <2>5
<1> QED
  BY <1>3, <1>4 DEF Resumed, t

-----------------------------------------------------------------------------
OrderInv == Order(tgraph_nodes, Started(frames), DOMAIN temp_cur_map, returned)

\* Nothing is to be joined at the start.
LEMMA InitOrder == Init => OrderInv
<1> SUFFICES ASSUME Init PROVE OrderInv
  OBVIOUS
<1> DEFINE f == Frame(0)
<1>1. /\ tgraph_nodes = HeadTree /\ temp_cur_map = <<>>
      /\ frames = [t \in Threads |-> IF t = MainThread THEN <<f>> ELSE <<>>]
  BY DEF Init, GraphInit
<1>2. Joins(f) = {} /\ ~RootCall(f)
  BY DEF Frame, Joins, RootCall
<1> HIDE DEF f
<1>3. \A e \in Started(frames) : e = f
  <2> SUFFICES ASSUME NEW th \in Threads, NEW i \in 1..Len(frames[th])
               PROVE  frames[th][i] = f
    BY StartedIs
  <2>1. CASE th = MainThread
    BY <1>1, <2>1
  <2>2. CASE th # MainThread
    BY <1>1, <2>2
  <2> QED
    BY <2>1, <2>2
<1>4. Live(Started(frames)) = {}
  BY <1>2, <1>3 DEF Live
<1>6. DOMAIN temp_cur_map = {}
  BY <1>1
<1> QED
  BY <1>2, <1>3, <1>4, <1>6 DEF OrderInv, Order, Nested, Below, RightMost, Spawned

\* Every step of the program keeps the order.
LEMMA NextOrder ==
    ASSUME Discipline, DInv, OrderInv, [Next]_vars
    PROVE  OrderInv'
<1> DEFINE g == tgraph_nodes
           F == Started(frames)
           M == DOMAIN temp_cur_map
           R == returned
           h == tgraph_nodes'
           E == Started(frames')
           N == DOMAIN temp_cur_map'
           S == returned'
<1>1. Order(g, F, M, R) /\ Base(g, F, M, R)
  BY BaseIs DEF OrderInv
<1>2. SUFFICES Order(h, E, N, S)
  BY DEF OrderInv
<1>3. ASSUME SameView(F, E), h = g, N = M, S = R
      PROVE  Order(h, E, N, S)
  <2> HIDE DEF g, F, M, R, h, E, N, S
  <2> QED
    BY <1>1, <1>3, OrderSame
<1>4. CASE UNCHANGED vars
  <2>1. h = g /\ E = F /\ N = M /\ S = R
    BY <1>4 DEF vars, graphVars, schedVars
  <2> HIDE DEF g, F, M, R, h, E, N, S
  <2> QED
    BY <1>1, <2>1
<1>5. ASSUME NEW th \in Threads, NEW kind \in Kinds, SetTaskId(th, kind)
      PROVE  Order(h, E, N, S)
  BY <1>3, <1>5, SetTaskIdQuiet DEF Seen
<1>6. ASSUME NEW th \in Threads, Publish(th)
      PROVE  Order(h, E, N, S)
  BY <1>3, <1>6, PublishQuiet DEF Seen
<1>7. ASSUME NEW th \in Threads, WaitForAll(th)
      PROVE  Order(h, E, N, S)
  BY <1>3, <1>7, WaitForAllQuiet DEF Seen
<1>8. ASSUME NEW th \in Threads, NEW id \in TaskIds, Execute(th, id)
      PROVE  Order(h, E, N, S)
  <2>1. Began(F, E, M, N, id) /\ h = g /\ S = R
    BY <1>8, ExecuteBegins
  <2> HIDE DEF g, F, M, R, h, E, N, S
  <2>2. /\ id \in M /\ N = M \ {id} /\ E = F \cup {Frame(id)} /\ Live(E) = Live(F)
        /\ Frame(id).task = id /\ Joins(Frame(id)) = {} /\ ~RootCall(Frame(id))
    BY <2>1 DEF Began
  <2>3. Order(g, F \cup {Frame(id)}, M \ {id}, R)
    BY <1>1, <2>2, OrderBegin
  <2> QED
    BY <2>1, <2>2, <2>3
<1>9. ASSUME NEW th \in Threads, Return(th)
      PROVE  Order(h, E, N, S)
  <2> DEFINE old == Top(frames[th])
  <2>1. Ended(F, E, R, S, old) /\ h = g /\ N = M
    BY <1>9, ReturnEnds
  <2> HIDE DEF g, F, M, R, h, E, N, S, old
  <2>2. /\ old \in F /\ ~RootCall(old) /\ HeirsOf(E, F, old) /\ Live(E) = Live(F)
        /\ S = R \cup {old.task}
    BY <2>1 DEF Ended
  <2>3. Order(g, E, M, R \cup {old.task})
    BY <1>1, <2>2, OrderEnd
  <2> QED
    BY <2>1, <2>2, <2>3
<1>10. ASSUME NEW th \in Threads, Capture(th)
       PROVE  Order(h, E, N, S)
  <2> DEFINE old == Top(frames[th])
             f == [old EXCEPT !.pc = "captured"]
             p == Top(cur[th])
             c == old.child
  <2>1. Called(g, h, F, E, M, N, old, f, p, c) /\ S = R
    BY <1>10, CaptureCalls
  <2> HIDE DEF g, F, M, R, h, E, N, S, old, f, p, c
  <2> QED
    BY <1>1, <2>1, OrderCalled
<1>11. ASSUME NEW th \in Threads, Resume(th)
       PROVE  Order(h, E, N, S)
  <2> DEFINE old == Top(frames[th])
             f == [old EXCEPT !.pc = "run", !.kind = "none", !.child = 0,
                              !.awaited = {}, !.pending = {}]
  <2>1. (\E p : Resumed(g, h, F, E, R, old, f, p)) /\ N = M /\ S = R
    BY <1>11, ResumeJoins
  <2> HIDE DEF g, F, M, R, h, E, N, S, old, f
  <2>2. PICK p : Resumed(g, h, F, E, R, old, f, p)
    BY <2>1
  <2>3. Order(h, E, M, R)
    BY <1>1, <2>2, OrderResumed
  <2> QED
    BY <2>1, <2>3
<1>12. CASE Next
  BY <1>4, <1>5, <1>6, <1>7, <1>8, <1>9, <1>10, <1>11, <1>12, Zenon DEF Next
<1> QED
  BY <1>4, <1>12

\* In a program in which every task waits for what it spawned, the tree grows to the
\* right: a task goes on, and joins, after whatever it does not run beside.
THEOREM OrderInvariant ==
    ASSUME Discipline
    PROVE  Spec => []OrderInv
<1>1. DInv /\ OrderInv /\ [Next]_vars => OrderInv'
  BY NextOrder
<1> QED
  BY <1>1, InitOrder, DisciplineInvariant, PTL DEF Spec

-----------------------------------------------------------------------------
(* The ground truth and the tree: Q are the strands, s their steps, P the past of tasks *)

\* A root that task u waits for holds node n.
Inside(g, F, u, n) ==
    \E f \in F : f.task = u /\ RootCall(f) /\ Own(g, f.child) \in Anc(g, n)

\* What ran below a started task it has in its past, or will have once it has joined.
Covered(g, F, M, R, Q, s, P) ==
    /\ \A f \in F : \A q \in Q : Own(g, f.task) \in Anc(g, s[q]) =>
          q \in P[f.task] \/ \E d \in Joins(f) : \/ q \in P[d]
                                                 \/ d \notin R /\ Own(g, d) \in Anc(g, s[q])
    /\ \A c \in M : \A q \in Q : Own(g, c) \notin Anc(g, s[q])

\* The past of a task is what the tree says is serial to its last step, but for what
\* runs in the root it waits for.
Exact(g, F, Q, s, P) ==
    \A u \in Live(F) : \A q \in Q :
       q \in P[u] <=> ~Par(g, Last(g, u), s[q]) /\ ~Inside(g, F, u, s[q])

Truth(g, F, M, R, Q, s, P) ==
    /\ \A q \in Q : s[q] \in StepsOf(g)
    /\ \A u \in Live(F) : P[u] \subseteq Q
    /\ Covered(g, F, M, R, Q, s, P) /\ Exact(g, F, Q, s, P)

\* Of two tasks that may both go on, one that waits for no root is beside the other
\* one or inside its root.
LEMMA AliveApart ==
    ASSUME NEW g, NEW F, NEW M, NEW R, Base(g, F, M, R), Order(g, F, M, R),
           NEW u \in Live(F), NEW v \in Live(F), u # v,
           \A f \in F : f.task = v => ~RootCall(f)
    PROVE  Par(g, Last(g, u), Last(g, v)) \/ Inside(g, F, u, Last(g, v))
<1>1. /\ WellFormed(g) /\ Shaped(g) /\ LastFacts(g, u) /\ LastFacts(g, v)
      /\ RightOpen(g, At(g, u)) /\ RightOpen(g, At(g, v))
  BY DEF Base, Order, RightMost
<1>2. CASE ~Above(g, u, v) /\ ~Above(g, v, u)
  BY <1>1, <1>2, ElsewhereParallel DEF Above
<1>3. CASE Above(g, u, v)
  <2>1. CASE IsPhase(g, At(g, u)) /\ At(g, u) \in Anc(g, Own(g, v))
    BY <1>1, <2>1, PhaseParallel
  <2>2. ASSUME NEW f \in F, f.task = u, RootCall(f), v = f.child \/ Above(g, f.child, v)
        PROVE  Inside(g, F, u, Last(g, v))
    <3>1. Own(g, v) \in Anc(g, Last(g, v)) /\ Last(g, v) \in Nodes(g)
      BY <1>1 DEF LastFacts
    <3>2. Own(g, v) \in Nodes(g) /\ Anc(g, Own(g, v)) \subseteq Anc(g, Last(g, v))
      BY <1>1, <3>1, AncBasics, AncTransitive
    <3>3. Own(g, f.child) \in Anc(g, Own(g, v))
      BY <1>1, <2>2, <3>2, AncBasics DEF Above
    <3> QED
      BY <2>2, <3>2, <3>3 DEF Inside
  <2> QED
    BY <1>3, <2>1, <2>2, Zenon DEF Order, Spawned
<1>4. CASE Above(g, v, u)
  <2>1. IsPhase(g, At(g, v)) /\ At(g, v) \in Anc(g, Own(g, u))
    BY <1>4, Zenon DEF Order, Spawned
  <2>2. Par(g, Last(g, v), Last(g, u))
    BY <1>1, <2>1, PhaseParallel
  <2>3. Last(g, u) \in StepsOf(g) /\ Last(g, v) \in StepsOf(g)
    BY <1>1 DEF LastFacts
  <2> QED
    BY <1>1, <2>2, <2>3, ParallelSymmetric DEF Par
<1> QED
  BY <1>2, <1>3, <1>4

\* A task enters a strand.
LEMMA TruthStrand ==
    ASSUME NEW g, NEW F, NEW M, NEW R, Base(g, F, M, R), Order(g, F, M, R),
           NEW Q, NEW s, NEW P, Truth(g, F, M, R, Q, s, P),
           NEW f \in F, f.task # 0, ~RootCall(f),
           NEW x, x \notin Q, NEW z, z[x] = Last(g, f.task), \A q \in Q : z[q] = s[q],
           NEW O, O[f.task] = P[f.task] \cup {x},
           \A u \in Known(g) : u # f.task => O[u] = P[u]
    PROVE  Truth(g, F, M, R, Q \cup {x}, z, O)
<1> DEFINE t == f.task
           l == Last(g, t)
<1>1. /\ WellFormed(g) /\ Shaped(g) /\ t \in Live(F) /\ t # 0 /\ t \in Known(g)
      /\ LastFacts(g, t) /\ t \notin M /\ \A c \in M : c \in Known(g)
      /\ \A e \in F : e.task \in Known(g) /\ (e.task = t => e = f)
      /\ \A e \in F : \A d \in Joins(e) : d \in Known(g)
      /\ \A u \in Live(F) : u \in Known(g)
  BY DEF Base
<1>2. l \in StepsOf(g) /\ l \in Nodes(g) /\ g[l].taskId = t
      /\ Own(g, t) \in Anc(g, l)
  BY <1>1 DEF LastFacts
<1>3. \A u \in Known(g) : P[u] \subseteq O[u]
  OBVIOUS
<1>4. O[t] = P[t] \cup {x} /\ z[x] = l
  OBVIOUS
<1>5. \A u \in Known(g) : Own(g, u) \in Anc(g, l) <=> u = t \/ Above(g, u, t)
  BY <1>1, <1>2, AboveSpot
<1> HIDE DEF t, l
<1>6. Covered(g, F, M, R, Q \cup {x}, z, O)
  <2>1. ASSUME NEW e \in F, NEW q \in Q, Own(g, e.task) \in Anc(g, z[q])
        PROVE  q \in O[e.task] \/ \E d \in Joins(e) :
                  q \in O[d] \/ (d \notin R /\ Own(g, d) \in Anc(g, z[q]))
    <3>1. q \in P[e.task] \/ \E d \in Joins(e) :
             q \in P[d] \/ (d \notin R /\ Own(g, d) \in Anc(g, z[q]))
      BY <2>1 DEF Truth, Covered
    <3> QED
      BY <1>1, <1>3, <3>1
  <2>2. ASSUME NEW e \in F, Own(g, e.task) \in Anc(g, z[x])
        PROVE  x \in O[e.task] \/ \E d \in Joins(e) :
                  x \in O[d] \/ (d \notin R /\ Own(g, d) \in Anc(g, z[x]))
    <3>1. e.task = t \/ Above(g, e.task, t)
      BY <1>1, <1>4, <1>5, <2>2
    <3>2. CASE e.task = t
      BY <1>4, <3>2
    <3>3. CASE Above(g, e.task, t)
      <4>1. t \in Joins(e) \/ \E d \in Joins(e) : d \notin R /\ Above(g, d, t)
        BY <1>1, <3>3 DEF Order, Nested
      <4>2. CASE t \in Joins(e)
        BY <1>4, <4>2
      <4>3. ASSUME NEW d \in Joins(e), d \notin R, Above(g, d, t)
            PROVE  d \notin R /\ Own(g, d) \in Anc(g, z[x])
        BY <1>1, <1>4, <1>5, <4>3
      <4> QED
        BY <4>1, <4>2, <4>3
    <3> QED
      BY <3>1, <3>2, <3>3
  <2>3. ASSUME NEW c \in M
        PROVE  /\ Own(g, c) \notin Anc(g, z[x])
               /\ \A q \in Q : Own(g, c) \notin Anc(g, z[q])
    <3>1. ~Above(g, c, t) /\ c # t
      BY <1>1 DEF Order, Nested
    <3>2. \A q \in Q : Own(g, c) \notin Anc(g, s[q])
      BY DEF Truth, Covered
    <3> QED
      BY <1>1, <1>4, <1>5, <3>1, <3>2
  <2> QED
    BY <2>1, <2>2, <2>3 DEF Covered
<1>7. ASSUME NEW u \in Live(F)
      PROVE  x \in O[u] <=> ~Par(g, Last(g, u), z[x]) /\ ~Inside(g, F, u, z[x])
  <2>1. CASE u = t
    BY <1>1, <1>4, <2>1 DEF Par, Inside, l
  <2>2. CASE u # t
    <3>1. O[u] = P[u]
      BY <1>1, <2>2 DEF t
    <3>2. x \notin O[u]
      BY <3>1 DEF Truth
    <3>3. Par(g, Last(g, u), Last(g, t)) \/ Inside(g, F, u, Last(g, t))
      BY <1>1, <2>2, AliveApart
    <3> QED
      BY <1>4, <3>2, <3>3 DEF l
  <2> QED
    BY <2>1, <2>2
<1>8. ASSUME NEW u \in Live(F), NEW q \in Q
      PROVE  q \in O[u] <=> ~Par(g, Last(g, u), z[q]) /\ ~Inside(g, F, u, z[q])
  <2>1. q \in O[u] <=> q \in P[u]
    BY <1>1, <1>4 DEF t
  <2>2. q \in P[u] <=> ~Par(g, Last(g, u), s[q]) /\ ~Inside(g, F, u, s[q])
    BY DEF Truth, Exact
  <2> QED
    BY <2>1, <2>2
<1>9. Exact(g, F, Q \cup {x}, z, O)
  BY <1>7, <1>8 DEF Exact
<1>10. \A u \in Live(F) : O[u] \subseteq Q \cup {x}
  <2> SUFFICES ASSUME NEW u \in Live(F) PROVE O[u] \subseteq Q \cup {x}
    OBVIOUS
  <2>1. P[u] \subseteq Q
    BY DEF Truth
  <2>2. O[u] \subseteq P[u] \cup {x}
    BY <1>1, <1>4 DEF t
  <2> QED
    BY <2>1, <2>2
<1>11. \A q \in Q \cup {x} : z[q] \in StepsOf(g)
  BY <1>2, <1>4 DEF Truth
<1> QED
  BY <1>6, <1>9, <1>10, <1>11 DEF Truth

\* Frames that look the same to tree and order do so to the ground truth.
LEMMA TruthSame ==
    ASSUME NEW g, NEW F, NEW M, NEW R, NEW Q, NEW s, NEW P, Truth(g, F, M, R, Q, s, P),
           NEW E, SameView(F, E)
    PROVE  Truth(g, E, M, R, Q, s, P)
<1>1. Live(E) = Live(F)
  BY SameLive
<1>2. \A u, n : Inside(g, E, u, n) <=> Inside(g, F, u, n)
  <2> SUFFICES ASSUME NEW u, NEW n
               PROVE  Inside(g, E, u, n) <=> Inside(g, F, u, n)
    OBVIOUS
  <2>1. ASSUME NEW f \in F, f.task = u, RootCall(f), Own(g, f.child) \in Anc(g, n)
        PROVE  \E e \in E : e.task = u /\ RootCall(e) /\ Own(g, e.child) \in Anc(g, n)
    <3>1. PICK e \in E : View(f, e)
      BY DEF SameView
    <3>2. e.task = u /\ RootCall(e) /\ e.child = f.child
      BY <2>1, <3>1 DEF View
    <3> QED
      BY <2>1, <3>2
  <2>2. ASSUME NEW e \in E, e.task = u, RootCall(e), Own(g, e.child) \in Anc(g, n)
        PROVE  \E f \in F : f.task = u /\ RootCall(f) /\ Own(g, f.child) \in Anc(g, n)
    <3>1. PICK f \in F : View(f, e)
      BY DEF SameView
    <3>2. f.task = u /\ RootCall(f) /\ e.child = f.child
      BY <2>2, <3>1 DEF View
    <3> QED
      BY <2>2, <3>2
  <2> QED
    BY <2>1, <2>2 DEF Inside
<1>3. Covered(g, E, M, R, Q, s, P)
  <2>1. ASSUME NEW e \in E, NEW q \in Q, Own(g, e.task) \in Anc(g, s[q])
        PROVE  q \in P[e.task] \/ \E d \in Joins(e) :
                  q \in P[d] \/ (d \notin R /\ Own(g, d) \in Anc(g, s[q]))
    <3>1. PICK f \in F : View(f, e)
      BY DEF SameView
    <3>2. f.task = e.task /\ Joins(f) = Joins(e)
      BY <3>1 DEF View
    <3>3. q \in P[f.task] \/ \E d \in Joins(f) :
                  q \in P[d] \/ (d \notin R /\ Own(g, d) \in Anc(g, s[q]))
      BY <2>1, <3>2 DEF Truth, Covered
    <3> QED
      BY <3>2, <3>3
  <2> QED
    BY <2>1 DEF Truth, Covered
<1>4. Exact(g, E, Q, s, P)
  BY <1>1, <1>2 DEF Truth, Exact
<1> QED
  BY <1>1, <1>3, <1>4 DEF Truth

\* A task begins: no strand is below it.
LEMMA TruthBegun ==
    ASSUME NEW g, NEW F, NEW E, NEW M, NEW N, NEW R, NEW Q, NEW s, NEW P, NEW id,
           Truth(g, F, M, R, Q, s, P), Began(F, E, M, N, id)
    PROVE  Truth(g, E, N, R, Q, s, P)
<1> DEFINE f == Frame(id)
<1>1. /\ id \in M /\ N = M \ {id} /\ E = F \cup {f} /\ Live(E) = Live(F)
      /\ f.task = id /\ Joins(f) = {} /\ ~RootCall(f)
  BY DEF Began
<1> HIDE DEF f
<1>2. \A u, n : Inside(g, E, u, n) <=> Inside(g, F, u, n)
  BY <1>1 DEF Inside
<1>3. Covered(g, E, N, R, Q, s, P)
  BY <1>1 DEF Truth, Covered
<1>4. Exact(g, E, Q, s, P)
  BY <1>1, <1>2 DEF Truth, Exact
<1> QED
  BY <1>1, <1>3, <1>4 DEF Truth

\* A task ends: who joins it joins what it leaves behind.
LEMMA TruthEnded ==
    ASSUME NEW g, NEW F, NEW E, NEW M, NEW R, NEW S, NEW Q, NEW s, NEW P, NEW old,
           Base(g, F, M, R), Truth(g, F, M, R, Q, s, P), Ended(F, E, R, S, old)
    PROVE  Truth(g, E, M, S, Q, s, P)
<1>1. /\ old \in F /\ ~RootCall(old) /\ HeirsOf(E, F, old) /\ Live(E) = Live(F)
      /\ S = R \cup {old.task}
  BY DEF Ended
<1>2. \A u, n : Inside(g, E, u, n) <=> Inside(g, F, u, n)
  <2> SUFFICES ASSUME NEW u, NEW n
               PROVE  Inside(g, E, u, n) <=> Inside(g, F, u, n)
    OBVIOUS
  <2>1. ASSUME NEW f \in F, f.task = u, RootCall(f), Own(g, f.child) \in Anc(g, n)
        PROVE  \E e \in E : e.task = u /\ RootCall(e) /\ Own(g, e.child) \in Anc(g, n)
    <3>1. PICK e \in E : Heir(f, e, old)
      BY <1>1, <2>1 DEF HeirsOf
    <3>2. e.task = u /\ RootCall(e) /\ e.child = f.child
      BY <2>1, <3>1 DEF Heir
    <3> QED
      BY <2>1, <3>2
  <2>2. ASSUME NEW e \in E, e.task = u, RootCall(e), Own(g, e.child) \in Anc(g, n)
        PROVE  \E f \in F : f.task = u /\ RootCall(f) /\ Own(g, f.child) \in Anc(g, n)
    <3>1. PICK f \in F : Heir(f, e, old)
      BY <1>1 DEF HeirsOf
    <3>2. f.task = u /\ RootCall(f) /\ e.child = f.child
      BY <2>2, <3>1 DEF Heir
    <3> QED
      BY <2>2, <3>2
  <2> QED
    BY <2>1, <2>2 DEF Inside
<1>3. ASSUME NEW e \in E, NEW q \in Q, Own(g, e.task) \in Anc(g, s[q])
      PROVE  q \in P[e.task] \/ \E d \in Joins(e) :
                q \in P[d] \/ (d \notin S /\ Own(g, d) \in Anc(g, s[q]))
  <2>1. PICK f \in F : Heir(f, e, old)
    BY <1>1 DEF HeirsOf
  <2>2. /\ e.task = f.task /\ Joins(f) \subseteq Joins(e)
        /\ old.task \in Joins(f) => Joins(old) \subseteq Joins(e)
    BY <2>1 DEF Heir
  <2>3. q \in P[f.task] \/ \E d \in Joins(f) :
           q \in P[d] \/ (d \notin R /\ Own(g, d) \in Anc(g, s[q]))
    BY <1>3, <2>2 DEF Truth, Covered
  <2>4. CASE q \in P[f.task]
    BY <2>2, <2>4
  <2>5. ASSUME NEW d \in Joins(f), q \in P[d]
        PROVE  \E b \in Joins(e) : q \in P[b]
    BY <2>2, <2>5
  <2>6. ASSUME NEW d \in Joins(f), d \notin R, Own(g, d) \in Anc(g, s[q])
        PROVE  \E b \in Joins(e) : q \in P[b] \/ (b \notin S /\ Own(g, b) \in Anc(g, s[q]))
    <3>1. CASE d # old.task
      BY <1>1, <2>2, <2>6, <3>1
    <3>2. CASE d = old.task
      <4>1. q \in P[old.task] \/ \E b \in Joins(old) :
               q \in P[b] \/ (b \notin R /\ Own(g, b) \in Anc(g, s[q]))
        BY <1>1, <2>6, <3>2 DEF Truth, Covered
      <4>2. \A b \in Joins(old) : b # old.task
        BY <1>1 DEF Base
      <4>3. d \in Joins(e) /\ Joins(old) \subseteq Joins(e)
        BY <2>2, <2>6, <3>2
      <4> QED
        BY <1>1, <3>2, <4>1, <4>2, <4>3
    <3> QED
      BY <3>1, <3>2
  <2> QED
    BY <2>3, <2>4, <2>5, <2>6
<1>4. Covered(g, E, M, S, Q, s, P)
  BY <1>3 DEF Truth, Covered
<1>5. Exact(g, E, Q, s, P)
  BY <1>1, <1>2 DEF Truth, Exact
<1> QED
  BY <1>1, <1>4, <1>5 DEF Truth

-----------------------------------------------------------------------------
(* The ground truth while the tree grows *)

\* What a grown tree says of the strands that it does not move.
Unmoved(g, h, Q, s) ==
    /\ \A q \in Q : s[q] \in StepsOf(g) /\ s[q] \in StepsOf(h) /\ s[q] \in Nodes(g)
    /\ \A q \in Q : Anc(h, s[q]) = Anc(g, s[q])
    /\ \A u \in Known(g) : Own(h, u) = Own(g, u)

\* The strands recorded so far are not moved when the tree grows.
LEMMA GraftedUnmoved ==
    ASSUME NEW g, NEW h, WellFormed(g), WellFormed(h), Shaped(g), Shaped(h),
           NEW p, Grafted(g, h, p), NEW Q, NEW s, \A q \in Q : s[q] \in StepsOf(g)
    PROVE  Unmoved(g, h, Q, s)
<1>1. StepsOf(g) \subseteq StepsOf(h) /\ \A n \in Nodes(g) : Anc(h, n) = Anc(g, n)
  BY GraftedKeeps
<1>2. StepsOf(g) \subseteq Nodes(g)
  BY DEF StepsOf, Nodes
<1>3. \A u \in Known(g) : Own(h, u) = Own(g, u)
  BY GraftedOwn
<1> QED
  BY <1>1, <1>2, <1>3 DEF Unmoved

\* Where a task adds to the tree, its last step is the last child.
LEMMA SpotLast ==
    ASSUME NEW g, WellFormed(g), Shaped(g), NEW f, NEW p, TopAt(g, f, p), f.task # 0
    PROVE  LET l == Last(g, f.task) IN
           /\ l \in StepsOf(g) /\ l # 1 /\ g[l].parent = p
           /\ IsPhase(g, p) => \A y \in Nodes(g) : y # 1 /\ g[y].parent = p => y <= l
<1> DEFINE l == Last(g, f.task)
<1>1. l \in StepsOf(g) /\ l # 1 /\ g[l].parent = p /\ g[p].cur_step = l
  BY DEF TopAt, LastFacts, At
<1> HIDE DEF l
<1>2. ASSUME IsPhase(g, p), NEW y \in Nodes(g), y # 1, g[y].parent = p
      PROVE  y <= l
  BY <1>1, <1>2, ChildOfPhase
<1> QED
  BY <1>1, <1>2 DEF l

\* A task is started: its past is that of the task that starts it.
LEMMA TruthCalled ==
    ASSUME NEW g, NEW h, NEW F, NEW E, NEW M, NEW N, NEW R, NEW old, NEW f, NEW p, NEW c,
           Base(g, F, M, R), Order(g, F, M, R), Called(g, h, F, E, M, N, old, f, p, c),
           NEW Q, NEW s, NEW P, Truth(g, F, M, R, Q, s, P),
           P[old.task] \subseteq Q,
           NEW O, O[c] = P[old.task], \A u \in Known(g) : O[u] = P[u]
    PROVE  Truth(h, E, N, R, Q, s, O)
<1> DEFINE t == old.task
<1>1. /\ old \in F /\ ~RootCall(old) /\ E = (F \ {old}) \cup {f}
      /\ f.task = t /\ f.child = c /\ Joins(f) = Joins(old) \cup {c}
      /\ Live(E) = Live(F) \cup {c} /\ N = M \cup {c} /\ c \notin Known(g)
      /\ TopAt(g, old, p)
  BY DEF Called
<1>2. /\ WellFormed(g) /\ Shaped(g) /\ t \in Known(g) /\ t # c
      /\ \A e \in F : e.task \in Known(g) /\ e.task # c /\ (e.task = t => e = old)
      /\ \A u \in Live(F) : u \in Known(g) /\ u # c /\ u # 0 /\ LastFacts(g, u)
      /\ \A u \in M : u \in Known(g)
      /\ \A e \in F : \A d \in Joins(e) : d \in Known(g) /\ d # c
      /\ t # 0 => t \in Live(F)
  BY <1>1 DEF Base
<1>3. /\ WellFormed(h) /\ Shaped(h) /\ Grafted(g, h, p)
      /\ Known(h) = Known(g) \cup {c} /\ g[p].taskId = t
      /\ \A u : u # t /\ u # c => GrowsBeside(g, h, u)
      /\ Last(h, c) \in StepsOf(h) /\ Last(h, c) \notin Nodes(g)
  BY <1>1 DEF Called, SpawnedAt, RootedAt, TopAt, LastFacts
<1>4. \A q \in Q : s[q] \in StepsOf(g)
  BY DEF Truth
<1>5. Unmoved(g, h, Q, s)
  BY <1>2, <1>3, <1>4, GraftedUnmoved
<1>6. /\ \A n \in Nodes(g) : Own(h, c) \notin Anc(h, n)
      /\ \A a \in StepsOf(g), b \in StepsOf(g) : Par(h, a, b) <=> Par(g, a, b)
  <2>1. c \in Known(h)
    BY <1>3
  <2> QED
    BY <1>1, <1>2, <1>3, <2>1, GraftedTask, GraftedKeeps
<1>7. \A q \in Q : Own(h, c) \notin Anc(h, s[q])
  BY <1>5, <1>6 DEF Unmoved
<1>8. O[t] = P[t] /\ O[c] = P[t] /\ \A u \in Known(g) : O[u] = P[u]
  BY <1>1, <1>2
<1>9. old \in F /\ f.task = old.task
  BY <1>1
<1>10. t # 0 => /\ Last(g, t) \in StepsOf(g) /\ Last(g, t) # 1
                /\ g[Last(g, t)].parent = p
                /\ IsPhase(g, p) =>
                      \A y \in Nodes(g) : y # 1 /\ g[y].parent = p => y <= Last(g, t)
  BY <1>1, <1>2, SpotLast
<1>11. \/ /\ t # 0 /\ Last(h, t) \in StepsOf(h) /\ Last(h, t) \notin Nodes(g)
       \/ GrowsBeside(g, h, t) /\ RootCall(f) /\ Joins(old) = {} /\ IsTask(g, p)
  BY <1>2, <1>3 DEF Called, SpawnedAt, RootedAt, TopAt, LastFacts
<1>12. /\ t = 0 => p = 1
  <2>1. CASE IsTask(g, p)
    BY <1>1, <1>2, <2>1, OwnOfMain DEF TopAt, OwnNode, Shaped
  <2>2. CASE ~IsTask(g, p)
    BY <1>1, <1>2, <1>11, <2>2
  <2> QED
    BY <2>1, <2>2
<1> HIDE DEF t
<1>13. ASSUME NEW u, NEW q \in Q
       PROVE  Inside(h, E, u, s[q]) <=> Inside(g, F, u, s[q])
  <2>1. ASSUME NEW e \in F, RootCall(e)
        PROVE  /\ e \in E
               /\ Own(h, e.child) \in Anc(h, s[q]) <=> Own(g, e.child) \in Anc(g, s[q])
    <3>1. e.child \in Known(g)
      BY <2>1 DEF Order, Below
    <3> QED
      BY <1>1, <1>5, <2>1, <3>1 DEF Unmoved
  <2>2. ASSUME NEW e \in E, RootCall(e), Own(h, e.child) \in Anc(h, s[q])
        PROVE  e \in F
    BY <1>1, <1>7, <2>2
  <2> QED
    BY <2>1, <2>2 DEF Inside
<1>14. Covered(h, E, N, R, Q, s, O)
  <2>1. ASSUME NEW e \in F, NEW q \in Q, Own(h, e.task) \in Anc(h, s[q])
        PROVE  q \in O[e.task] \/ \E d \in Joins(e) :
                  q \in O[d] \/ (d \notin R /\ Own(h, d) \in Anc(h, s[q]))
    <3>1. Own(g, e.task) \in Anc(g, s[q])
      BY <1>2, <1>5, <2>1 DEF Unmoved
    <3>2. q \in P[e.task] \/ \E d \in Joins(e) :
             q \in P[d] \/ (d \notin R /\ Own(g, d) \in Anc(g, s[q]))
      BY <3>1 DEF Truth, Covered
    <3>3. O[e.task] = P[e.task] /\ \A d \in Joins(e) : O[d] = P[d]
      BY <1>2, <1>8
    <3>4. \A d \in Joins(e) :
             Own(g, d) \in Anc(g, s[q]) => Own(h, d) \in Anc(h, s[q])
      BY <1>2, <1>5 DEF Unmoved
    <3> QED
      BY <3>2, <3>3, <3>4
  <2>2. ASSUME NEW q \in Q, Own(h, f.task) \in Anc(h, s[q])
        PROVE  q \in O[f.task] \/ \E d \in Joins(f) :
                  q \in O[d] \/ (d \notin R /\ Own(h, d) \in Anc(h, s[q]))
    <3>1. q \in O[old.task] \/ \E d \in Joins(old) :
                  q \in O[d] \/ (d \notin R /\ Own(h, d) \in Anc(h, s[q]))
      BY <1>9, <2>1, <2>2
    <3>2. Joins(old) \subseteq Joins(f)
      BY <1>1
    <3> QED
      BY <1>9, <3>1, <3>2
  <2>3. ASSUME NEW d \in N, NEW q \in Q
        PROVE  Own(h, d) \notin Anc(h, s[q])
    <3>1. CASE d = c
      BY <1>7, <3>1
    <3>2. CASE d # c
      <4>1. d \in M /\ d \in Known(g)
        BY <1>1, <1>2, <3>2
      <4>2. Own(g, d) \notin Anc(g, s[q])
        BY <4>1 DEF Truth, Covered
      <4> QED
        BY <1>5, <4>1, <4>2 DEF Unmoved
    <3> QED
      BY <3>1, <3>2
  <2> QED
    BY <1>1, <2>1, <2>2, <2>3 DEF Covered
<1>15. ASSUME NEW u \in Live(F), NEW q \in Q
       PROVE  Par(h, Last(h, u), s[q]) <=> Par(g, Last(g, u), s[q])
  <2>0. u \in Known(g) /\ u # 0 /\ u # c /\ Last(g, u) \in StepsOf(g)
    BY <1>2 DEF LastFacts
  <2>1. CASE GrowsBeside(g, h, u)
    <3>1. Last(h, u) = Last(g, u)
      BY <1>2, <1>3, <2>0, <2>1, GraftedLast
    <3> QED
      BY <1>4, <1>6, <2>0, <3>1
  <2>2. CASE u = t /\ Last(h, t) \in StepsOf(h) /\ Last(h, t) \notin Nodes(g)
    BY <1>2, <1>3, <1>4, <1>10, <2>0, <2>2, NewAlike
  <2> QED
    BY <1>3, <1>11, <2>0, <2>1, <2>2
<1>16. ASSUME NEW u \in Live(F), NEW q \in Q
       PROVE  q \in O[u] <=> ~Par(h, Last(h, u), s[q]) /\ ~Inside(h, E, u, s[q])
  <2>1. q \in P[u] <=> ~Par(g, Last(g, u), s[q]) /\ ~Inside(g, F, u, s[q])
    BY DEF Truth, Exact
  <2>2. O[u] = P[u]
    BY <1>2, <1>8
  <2> QED
    BY <1>13, <1>15, <2>1, <2>2
<1>17. ASSUME NEW q \in Q
       PROVE  q \in O[c] <=> ~Par(h, Last(h, c), s[q]) /\ ~Inside(h, E, c, s[q])
  <2>1. ~Inside(h, E, c, s[q])
    BY <1>1, <1>2 DEF Inside, t
  <2>2. CASE t # 0
    <3>1. Par(h, Last(h, c), s[q]) <=> Par(g, Last(g, t), s[q])
      BY <1>2, <1>3, <1>4, <1>10, <2>2, NewAlike
    <3>2. ~Inside(g, F, t, s[q])
      BY <1>1, <1>2 DEF Inside
    <3>3. q \in P[t] <=> ~Par(g, Last(g, t), s[q])
      BY <1>2, <2>2, <3>2 DEF Truth, Exact
    <3> QED
      BY <1>8, <2>1, <3>1, <3>3
  <2>3. CASE t = 0
    <3>1. p = 1 /\ IsTask(g, p) /\ Joins(old) = {}
      BY <1>11, <1>12, <2>3
    <3>2. Own(g, 0) = 1 /\ s[q] \in StepsOf(g) /\ s[q] \in Nodes(g)
      BY <1>2, <1>5, OwnOfMain DEF Unmoved
    <3>3. 1 \in Anc(g, s[q])
      BY <1>2, <3>2, AncRoot
    <3>4. q \in P[t]
      BY <1>1, <2>3, <3>1, <3>2, <3>3 DEF Truth, Covered, t
    <3>5. ~Par(h, Last(h, c), s[q])
      BY <1>2, <1>3, <3>1, <3>2, <3>3, NewBelowTask
    <3> QED
      BY <1>8, <2>1, <3>4, <3>5
  <2> QED
    BY <2>2, <2>3
<1>18. Exact(h, E, Q, s, O)
  BY <1>1, <1>16, <1>17 DEF Exact
<1>19. \A u \in Live(E) : O[u] \subseteq Q
  BY <1>1, <1>2, <1>8 DEF Truth, t
<1>20. \A q \in Q : s[q] \in StepsOf(h)
  BY <1>5 DEF Unmoved
<1> QED
  BY <1>14, <1>18, <1>19, <1>20 DEF Truth

\* A wait is over: what was joined is in the past of the task.
LEMMA TruthResumed ==
    ASSUME NEW g, NEW h, NEW F, NEW E, NEW M, NEW R, NEW old, NEW f, NEW p,
           Base(g, F, M, R), Order(g, F, M, R), Resumed(g, h, F, E, R, old, f, p),
           NEW Q, NEW s, NEW P, Truth(g, F, M, R, Q, s, P),
           P[old.task] \subseteq Q,
           NEW O, \A u \in Known(g) : u # old.task => O[u] = P[u],
           \A q : q \in O[old.task] <=> q \in P[old.task] \/ \E d \in Joins(old) : q \in P[d]
    PROVE  Truth(h, E, M, R, Q, s, O)
<1> DEFINE t == old.task
<1>1. /\ old \in F /\ E = (F \ {old}) \cup {f} /\ f.task = t
      /\ Joins(f) = {} /\ ~RootCall(f) /\ Joins(old) \subseteq R
      /\ Live(E) = Live(F) \ Joins(old) /\ OwnNode(g, p, t)
  BY DEF Resumed
<1>2. /\ WellFormed(g) /\ Shaped(g) /\ t \in Known(g)
      /\ \A e \in F : e.task \in Known(g) /\ (e.task = t => e = old)
      /\ \A u \in Live(F) : u \in Known(g) /\ u # 0 /\ LastFacts(g, u)
      /\ \A u \in M : u \in Known(g)
      /\ \A e \in F : \A d \in Joins(e) : d \in Known(g) /\ d \in Live(F)
      /\ \A d \in Joins(old) : d # t
      /\ t # 0 => t \in Live(F)
  BY <1>1 DEF Base
<1>3. /\ p \in Nodes(g) /\ IsTask(g, p) /\ g[p].type # "STEP" /\ g[p].taskId = t
      /\ Own(g, t) = p
  BY <1>1, <1>2, OwnIs DEF OwnNode, IsTask
<1>4. /\ WellFormed(h) /\ Shaped(h) /\ Grafted(g, h, p)
      /\ \A u : u # t => GrowsBeside(g, h, u)
      /\ t # 0 => Last(h, t) \in StepsOf(h) /\ At(h, t) = p
  <2>1. CASE RootCall(old)
    <3>1. h = g /\ (t # 0 => At(g, t) = p)
      BY <2>1 DEF Resumed
    <3>2. Grafted(g, g, p) /\ \A u : GrowsBeside(g, g, u)
      BY <1>2, <1>3, GraftNothing DEF GrowsBeside
    <3> QED
      BY <1>2, <3>1, <3>2 DEF LastFacts
  <2>2. CASE ~RootCall(old)
    <3>1. SteppedAt(g, h, p)
      BY <2>2 DEF Resumed
    <3> QED
      BY <1>3, <3>1 DEF SteppedAt
  <2> QED
    BY <2>1, <2>2
<1>5. /\ \A q \in Q : s[q] \in StepsOf(g)
      /\ Unmoved(g, h, Q, s)
  <2>1. \A q \in Q : s[q] \in StepsOf(g)
    BY DEF Truth
  <2> QED
    BY <1>2, <1>4, <2>1, GraftedUnmoved
<1>6. \A a \in StepsOf(g), b \in StepsOf(g) : Par(h, a, b) <=> Par(g, a, b)
  BY <1>2, <1>4, GraftedKeeps
<1>7. /\ \A u \in Known(g) : u # t => O[u] = P[u]
      /\ \A q : q \in O[t] <=> q \in P[t] \/ \E d \in Joins(old) : q \in P[d]
      /\ \A u \in Known(g) : P[u] \subseteq O[u]
  OBVIOUS
<1>8. old \in F /\ f.task = old.task /\ t = old.task
  BY <1>1
<1> HIDE DEF t
<1>9. ASSUME NEW q \in Q, Own(g, t) \in Anc(g, s[q])
      PROVE  q \in O[t]
  <2>1. q \in P[t] \/ \E d \in Joins(old) :
           q \in P[d] \/ (d \notin R /\ Own(g, d) \in Anc(g, s[q]))
    BY <1>8, <1>9 DEF Truth, Covered
  <2> QED
    BY <1>1, <1>7, <2>1
<1>10. Covered(h, E, M, R, Q, s, O)
  <2>1. ASSUME NEW e \in F, NEW q \in Q, Own(h, e.task) \in Anc(h, s[q])
        PROVE  q \in O[e.task] \/ \E d \in Joins(e) :
                  q \in O[d] \/ (d \notin R /\ Own(h, d) \in Anc(h, s[q]))
    <3>1. Own(g, e.task) \in Anc(g, s[q])
      BY <1>2, <1>5, <2>1 DEF Unmoved
    <3>2. q \in P[e.task] \/ \E d \in Joins(e) :
             q \in P[d] \/ (d \notin R /\ Own(g, d) \in Anc(g, s[q]))
      BY <3>1 DEF Truth, Covered
    <3>4. \A d \in Joins(e) :
             Own(g, d) \in Anc(g, s[q]) => Own(h, d) \in Anc(h, s[q])
      BY <1>2, <1>5 DEF Unmoved
    <3> QED
      BY <1>2, <1>7, <3>2, <3>4
  <2>2. ASSUME NEW q \in Q, Own(h, f.task) \in Anc(h, s[q])
        PROVE  q \in O[f.task]
    <3>1. Own(g, t) \in Anc(g, s[q])
      BY <1>1, <1>2, <1>5, <2>2 DEF Unmoved
    <3> QED
      BY <1>1, <1>9, <3>1
  <2>3. ASSUME NEW d \in M, NEW q \in Q
        PROVE  Own(h, d) \notin Anc(h, s[q])
    <3>1. Own(g, d) \notin Anc(g, s[q])
      BY DEF Truth, Covered
    <3> QED
      BY <1>2, <1>5, <3>1 DEF Unmoved
  <2> QED
    BY <1>1, <2>1, <2>2, <2>3 DEF Covered
<1>11. ASSUME NEW u \in Live(F), u # t, NEW q \in Q
       PROVE  q \in O[u] <=> ~Par(h, Last(h, u), s[q]) /\ ~Inside(h, E, u, s[q])
  <2>1. q \in P[u] <=> ~Par(g, Last(g, u), s[q]) /\ ~Inside(g, F, u, s[q])
    BY DEF Truth, Exact
  <2>2. O[u] = P[u]
    BY <1>2, <1>7, <1>11
  <2>3. Last(h, u) = Last(g, u)
    BY <1>2, <1>4, <1>11, GraftedLast
  <2>4. Last(g, u) \in StepsOf(g)
    BY <1>2 DEF LastFacts
  <2>5. Inside(h, E, u, s[q]) <=> Inside(g, F, u, s[q])
    <3>1. \A e : e.task = u => (e \in E <=> e \in F)
      BY <1>1, <1>8, <1>11
    <3>2. ASSUME NEW e \in F, RootCall(e)
          PROVE  Own(h, e.child) \in Anc(h, s[q]) <=> Own(g, e.child) \in Anc(g, s[q])
      <4>1. e.child \in Known(g)
        BY <3>2 DEF Order, Below
      <4> QED
        BY <1>5, <4>1 DEF Unmoved
    <3> QED
      BY <3>1, <3>2 DEF Inside
  <2> QED
    BY <1>5, <1>6, <2>1, <2>2, <2>3, <2>4, <2>5
<1>12. ASSUME t # 0, NEW q \in Q
       PROVE  q \in O[t] <=> ~Par(h, Last(h, t), s[q]) /\ ~Inside(h, E, t, s[q])
  <2> DEFINE l == Last(h, t)
             k == Last(g, t)
             n == s[q]
  <2>1. ~Inside(h, E, t, n)
    BY <1>1, <1>2 DEF Inside
  <2>2. /\ l \in StepsOf(h) /\ h[l].parent = p /\ n \in StepsOf(g) /\ n \in StepsOf(h)
        /\ p \in Nodes(h) /\ IsTask(h, p) /\ p \notin StepsOf(h)
        /\ k \in StepsOf(g) /\ k \in StepsOf(h) /\ p \in Anc(g, k)
        /\ Anc(h, n) = Anc(g, n) /\ Anc(h, k) = Anc(g, k)
    <3>1. k \in StepsOf(g) /\ p \in Anc(g, k) /\ k \in Nodes(g)
      BY <1>2, <1>3, <1>12 DEF LastFacts
    <3>2. /\ StepsOf(g) \subseteq StepsOf(h) /\ p \in Nodes(h) /\ h[p].type # "STEP"
          /\ Anc(h, k) = Anc(g, k)
      BY <1>2, <1>4, <3>1, GraftedKeeps
    <3>3. IsTask(h, p)
      BY <1>3, <1>4 DEF Grafted
    <3> QED
      BY <1>4, <1>5, <1>12, <3>1, <3>2, <3>3 DEF Unmoved, At, StepsOf
  <2> HIDE DEF l, k, n
  <2>3. l # 1 /\ p \in Anc(h, l)
    <3>1. l \in Nodes(h) /\ h[1].type = "FINISH"
      BY <1>4, <2>2 DEF StepsOf, Nodes, Shaped
    <3>2. l # 1
      BY <2>2, <3>1 DEF StepsOf
    <3> QED
      BY <1>4, <2>2, <3>1, <3>2, AncBasics, Parents
  <2>4. CASE p \in Anc(g, n)
    <3>1. ~Par(h, l, n)
      BY <1>4, <2>2, <2>3, <2>4, TaskStepSerial
    <3>2. q \in O[t]
      BY <1>3, <1>9, <2>4 DEF n
    <3> QED
      BY <2>1, <3>1, <3>2 DEF n, l
  <2>5. CASE p \notin Anc(g, n)
    <3>1. Par(h, l, n) <=> Par(g, k, n)
      <4>1. p \in Common(h, l, k) /\ p \notin Anc(h, n)
        BY <2>2, <2>3, <2>5 DEF Common
      <4>2. Par(h, l, n) <=> Par(h, k, n)
        BY <1>4, <2>2, <4>1, OutsideAlike
      <4> QED
        BY <1>6, <2>2, <4>2
    <3>2. ~Inside(g, F, t, n)
      <4> SUFFICES ASSUME NEW e \in F, e.task = t, RootCall(e), Own(g, e.child) \in Anc(g, n)
                   PROVE  FALSE
        BY DEF Inside
      <4>1. Own(g, t) \in Anc(g, Own(g, e.child))
        BY DEF Order, Below, Above
      <4>2. n \in Nodes(g)
        BY <2>2 DEF StepsOf, Nodes
      <4>3. Anc(g, Own(g, e.child)) \subseteq Anc(g, n)
        BY <1>2, <4>2, AncTransitive
      <4> QED
        BY <1>3, <2>5, <4>1, <4>3
    <3>3. q \in P[t] <=> ~Par(g, k, n)
      BY <1>2, <1>12, <3>2 DEF Truth, Exact, k, n
    <3>4. ASSUME NEW d \in Joins(old), q \in P[d]
          PROVE  ~Par(g, k, n)
      <4>1. d \in Live(F) /\ Above(g, t, d) /\ LastFacts(g, d)
        BY <1>1, <1>2 DEF Order, Below, t
      <4>2. ~Par(g, Last(g, d), n)
        BY <3>4, <4>1 DEF Truth, Exact, n
      <4>3. /\ Last(g, d) \in StepsOf(g) /\ Own(g, d) \in Anc(g, Last(g, d))
            /\ Last(g, d) \in Nodes(g)
        BY <4>1 DEF LastFacts
      <4>4. p \in Anc(g, Last(g, d))
        BY <1>2, <1>3, <4>1, <4>3, AncTransitive DEF Above
      <4>5. p \in Common(g, k, Last(g, d))
        BY <2>2, <4>4 DEF Common
      <4> QED
        BY <1>2, <2>2, <2>5, <4>2, <4>3, <4>5, OutsideAlike
    <3> QED
      BY <1>7, <2>1, <3>1, <3>3, <3>4 DEF n, l
  <2> QED
    BY <2>4, <2>5
<1>13. Exact(h, E, Q, s, O)
  <2>1. ASSUME NEW u \in Live(E)
        PROVE  u \in Live(F) /\ u # 0
    BY <1>1, <1>2
  <2> QED
    BY <1>11, <1>12, <2>1 DEF Exact
<1>14. \A u \in Live(E) : O[u] \subseteq Q
  <2> SUFFICES ASSUME NEW u \in Live(E), NEW q \in O[u] PROVE q \in Q
    OBVIOUS
  <2>1. u \in Live(F) /\ \A v \in Live(F) : P[v] \subseteq Q
    BY <1>1 DEF Truth
  <2>2. CASE u # t
    BY <1>2, <1>7, <2>1, <2>2
  <2>3. CASE u = t
    BY <1>2, <1>7, <1>8, <2>1, <2>3
  <2> QED
    BY <2>2, <2>3
<1>15. \A q \in Q : s[q] \in StepsOf(h)
  BY <1>5 DEF Unmoved
<1> QED
  BY <1>10, <1>13, <1>14, <1>15 DEF Truth

-----------------------------------------------------------------------------
(* The order of the strands *)

\* A root that a task started, and waits for, below its own node.
RootNode(g, n) == n # 1 /\ g[n].type = "FINISH" /\ ~IsPhase(g, n)

\* No task that may go on is in a root whose task went on after it.
Closed(g, F, Q, s) ==
    \A i, m \in Q : i < m =>
       \A f \in Anc(g, s[i]) : RunsWithin(g, f, s[m]) =>
          \A u \in Live(F) : f \notin Anc(g, Own(g, u))

InOrder(g, F, Q, s) == Strands(g, Q, s) /\ Closed(g, F, Q, s)

\* What runs inside a step of a task is a root on the right of it.
LEMMA WithinIs ==
    ASSUME NEW g, WellFormed(g), Shaped(g), NEW s \in StepsOf(g), NEW f \in Nodes(g),
           RunsWithin(g, f, s)
    PROVE  RootNode(g, f) /\ g[f].parent = g[s].parent /\ IsTask(g, g[f].parent)
<1>1. s \in Nat /\ f \in Nat /\ s # 0 /\ s < f /\ g[s].parent = g[f].parent
  BY TreeNodes DEF StepsOf, Nodes, RunsWithin
<1>2. f \in (s + 1)..f
  BY <1>1
<1>3. g[f].type = "FINISH" /\ g[f].sp_root_n_wt_flag
  BY <1>1, <1>2 DEF RunsWithin
<1>4. f # 1
  BY <1>1
<1>5. RootNode(g, f)
  BY <1>3, <1>4 DEF RootNode, IsPhase
<1>6. IsTask(g, g[f].parent)
  BY <1>3, <1>4 DEF Shaped, Placed
<1> QED
  BY <1>1, <1>5, <1>6

\* A root above the last step of a task is above the node of the task.
LEMMA RootAbove ==
    ASSUME NEW g, WellFormed(g), Shaped(g), NEW t, LastFacts(g, t), NEW f, RootNode(g, f)
    PROVE  /\ f \in Anc(g, Last(g, t)) => f \in Anc(g, Own(g, t))
           /\ f \in Anc(g, At(g, t)) => f \in Anc(g, Own(g, t))
<1>1. f # Last(g, t)
  BY DEF RootNode, LastFacts
<1>2. f = At(g, t) => f = Own(g, t)
  BY DEF RootNode, LastFacts
<1>3. Own(g, t) \in Anc(g, Own(g, t))
  BY AncBasics DEF LastFacts, OwnNode
<1> QED
  BY <1>1, <1>2, <1>3 DEF LastFacts

\* What grows in the tree does not come between a step and the roots inside it.
LEMMA GraftedWithin ==
    ASSUME NEW g, NEW h, WellFormed(g), WellFormed(h), NEW p, Grafted(g, h, p),
           NEW s \in StepsOf(g), NEW f \in Nodes(g)
    PROVE  RunsWithin(h, f, s) <=> RunsWithin(g, f, s)
<1>1. /\ s \in Nodes(g) /\ s \in Nat /\ f \in Nat /\ s # 0 /\ f <= Len(g) /\ Len(g) \in Nat
      /\ g[s].type = "STEP"
  BY TreeNodes DEF StepsOf, Nodes
<1>2. \A m \in (s + 1)..f : m \in Nodes(g) /\ m # 1
  BY <1>1 DEF Nodes
<1>3. \A m \in Nodes(g) : h[m].type = g[m].type /\ h[m].parent = g[m].parent
                          /\ (IsPhase(h, m) <=> IsPhase(g, m))
  BY GraftedKeeps DEF Grafted
<1>4. ASSUME NEW m \in (s + 1)..f, g[m].type = "FINISH"
      PROVE  h[m].sp_root_n_wt_flag <=> g[m].sp_root_n_wt_flag
  BY <1>2, <1>3, <1>4, Zenon DEF IsPhase
<1>5. ASSUME NEW m \in (s + 1)..f
      PROVE  (h[m].parent = h[s].parent => h[m].type = "FINISH" /\ h[m].sp_root_n_wt_flag)
             <=> (g[m].parent = g[s].parent => g[m].type = "FINISH" /\ g[m].sp_root_n_wt_flag)
  <2>1. /\ h[m].parent = g[m].parent /\ h[s].parent = g[s].parent /\ h[m].type = g[m].type
    BY <1>1, <1>2, <1>3, <1>5
  <2> QED
    BY <1>4, <2>1, Zenon
<1>6. h[s].type = g[s].type /\ h[s].parent = g[s].parent /\ h[f].parent = g[f].parent
  BY <1>1, <1>3
<1> QED
  BY <1>5, <1>6, Zenon DEF RunsWithin

\* The order of strands is kept when the tree grows.
LEMMA GraftedOrdered ==
    ASSUME NEW g, NEW h, WellFormed(g), WellFormed(h), NEW p, Grafted(g, h, p),
           NEW Q, NEW s, Strands(g, Q, s)
    PROVE  Strands(h, Q, s)
<1>1. /\ Q \subseteq Nat /\ \A i \in Q : s[i] \in StepsOf(g) /\ s[i] \in Nodes(g)
      /\ Ordered(g, Q, s)
  BY DEF Strands, StepsOf, Nodes
<1>2. /\ StepsOf(g) \subseteq StepsOf(h)
      /\ \A n \in Nodes(g) : Anc(h, n) = Anc(g, n) /\ Anc(g, n) \subseteq Nodes(g)
                             /\ \A l : Branch(h, l, n) = Branch(g, l, n)
      /\ \A a \in StepsOf(g), b \in StepsOf(g) : Par(h, a, b) <=> Par(g, a, b)
  BY GraftedKeeps
<1>3. ASSUME NEW i \in Q, NEW m \in Q, NEW f \in Anc(g, s[i])
      PROVE  RunsWithin(h, f, s[m]) <=> RunsWithin(g, f, s[m])
  BY <1>1, <1>2, GraftedWithin
<1>4. ASSUME NEW i \in Q, NEW j \in Q, i < j
      PROVE  Follows(h, s[i], s[j])
  <2>1. Follows(g, s[i], s[j])
    BY <1>1, <1>4 DEF Ordered
  <2>2. CASE Par(g, s[i], s[j])
    BY <1>1, <1>2, <2>2 DEF Follows
  <2>3. ASSUME NEW k \in Common(g, s[i], s[j]), Branch(g, k, s[i]) < Branch(g, k, s[j])
        PROVE  Follows(h, s[i], s[j])
    <3>1. k \in Common(h, s[i], s[j]) /\ Branch(h, k, s[i]) < Branch(h, k, s[j])
      BY <1>1, <1>2, <2>3 DEF Common
    <3> QED
      BY <3>1 DEF Follows
  <2>4. ASSUME NEW f \in Anc(g, s[i]), RunsWithin(g, f, s[j])
        PROVE  Follows(h, s[i], s[j])
    <3>1. f \in Anc(h, s[i]) /\ RunsWithin(h, f, s[j])
      BY <1>1, <1>2, <1>3, <2>4
    <3> QED
      BY <3>1 DEF Follows
  <2> QED
    BY <2>1, <2>2, <2>3, <2>4 DEF Follows
<1>5. ASSUME NEW i \in Q, NEW m \in Q, NEW k \in Q, i < m, m < k,
             NEW f \in Anc(h, s[i]), f \in Anc(h, s[k])
      PROVE  ~RunsWithin(h, f, s[m])
  <2>1. f \in Anc(g, s[i]) /\ f \in Anc(g, s[k])
    BY <1>1, <1>2, <1>5
  <2> QED
    BY <1>1, <1>3, <1>5, <2>1 DEF Ordered
<1> QED
  BY <1>1, <1>2, <1>4, <1>5 DEF Strands, Ordered

\* What comes to the right of the last step of a task is a root that the task started.
LEMMA RightOfLast ==
    ASSUME NEW g, WellFormed(g), Shaped(g), NEW t, LastFacts(g, t),
           NEW m \in Nodes(g), Last(g, t) < m, g[m].parent = At(g, t)
    PROVE  RootNode(g, m)
<1> DEFINE l == Last(g, t)
           a == At(g, t)
<1>1. /\ l \in StepsOf(g) /\ l \in Nat /\ m \in Nat /\ l \in Nodes(g) /\ l # 0
      /\ g[l].parent = a /\ a \in Nodes(g) /\ g[a].taskId = t
      /\ \A r \in StepsOf(g) : g[r].taskId = t => r <= l
  BY TreeNodes DEF LastFacts, IsLast, At, Nodes
<1>2. m # 1
  BY <1>1
<1>3. g[m].type \in {"ASYNC", "FINISH", "STEP"} /\ Placed(g, m)
  BY <1>2 DEF Shaped
<1>4. g[m].type # "STEP"
  <2> SUFFICES ASSUME g[m].type = "STEP" PROVE FALSE
    OBVIOUS
  <2>1. m \in StepsOf(g) /\ g[m].taskId = t
    BY <1>1, <1>3 DEF Placed, StepsOf, Nodes
  <2> QED
    BY <1>1, <2>1
<1>5. ~IsPhase(g, m)
  <2> SUFFICES ASSUME IsPhase(g, m) PROVE FALSE
    OBVIOUS
  <2> DEFINE c == g[m].cur_step
  <2>1. g[m].taskId = t
    BY <1>1, <1>3 DEF Placed
  <2>2. c # 0
    BY <1>2, <1>4 DEF Shaped
  <2>3. c \in 2..Len(g) /\ g[c].parent = m /\ g[c].type = "STEP"
    BY <2>2 DEF WellFormed, StepsCurrent, Nodes
  <2> HIDE DEF c
  <2>4. c \in StepsOf(g) /\ c \in Nodes(g) /\ c # 1 /\ c \in Nat
    BY <2>3, TreeNodes DEF StepsOf, Nodes
  <2>5. g[c].taskId = t /\ m < c
    BY <2>1, <2>3, <2>4, Parents DEF Shaped, Placed
  <2> QED
    BY <1>1, <2>4, <2>5
<1>6. g[m].type # "ASYNC"
  <2> SUFFICES ASSUME g[m].type = "ASYNC" PROVE FALSE
    OBVIOUS
  <2> DEFINE c == g[a].cur_step
  <2>1. IsPhase(g, a) /\ m <= c
    BY <1>2, <1>3 DEF Placed
  <2>2. a # 1 /\ g[a].type # "STEP"
    BY <2>1 DEF IsPhase
  <2>3. c # 0
    BY <1>1, <2>2 DEF Shaped
  <2>4. c \in 2..Len(g) /\ g[c].parent = a /\ g[c].type = "STEP"
    BY <1>1, <2>3 DEF WellFormed, StepsCurrent, Nodes
  <2> HIDE DEF c, a
  <2>5. c \in StepsOf(g) /\ c \in Nodes(g) /\ c # 1 /\ c \in Nat
    BY <2>4, TreeNodes DEF StepsOf, Nodes
  <2>6. g[c].taskId = t
    BY <1>1, <2>4, <2>5 DEF Shaped, Placed
  <2> QED
    BY <1>1, <2>1, <2>5, <2>6
<1> QED
  BY <1>2, <1>3, <1>4, <1>5, <1>6 DEF RootNode

\* Whatever step is recorded, a task that may go on follows it in its last step.
LEMMA LastFollows ==
    ASSUME NEW g, WellFormed(g), Shaped(g), NEW t, LastFacts(g, t), RightOpen(g, At(g, t)),
           NEW a \in StepsOf(g)
    PROVE  Follows(g, a, Last(g, t))
<1> DEFINE l == Last(g, t)
<1>1. l \in StepsOf(g) /\ l \in Nodes(g) /\ a \in Nodes(g) /\ l \in Nat /\ g[l].type = "STEP"
  BY TreeNodes DEF LastFacts, StepsOf, Nodes
<1> HIDE DEF l
<1>2. CASE a = l
  BY <1>2 DEF Follows, l
<1>3. ASSUME a # l
      PROVE  Follows(g, a, l)
  <2> DEFINE k == LCA(g, a, l)
             A == Branch(g, k, a)
             B == Branch(g, k, l)
  <2>0. k \in Anc(g, a) /\ k \in Anc(g, l) /\ A # B /\ a # k /\ l # k
    <3>1. l \in StepsOf(g) /\ a # l
      BY <1>1, <1>3
    <3> QED
      BY <3>1, StepsPart, Zenon
  <2> HIDE DEF k
  <2>1. k \in Common(g, a, l) /\ A # B /\ k # a /\ k # l
    BY <2>0 DEF Common
  <2>2. k \in Anc(g, a) /\ k \in Anc(g, l)
    BY <2>0
  <2>3. /\ A \in Nodes(g) /\ A \in Anc(g, a) /\ A # 1 /\ g[A].parent = k /\ A \in Nat
        /\ B \in Nodes(g) /\ B \in Anc(g, l) /\ B # 1 /\ g[B].parent = k /\ B \in Nat
    BY <1>1, <2>1, <2>2, BranchFacts, TreeNodes
  <2>4. Par(g, a, l) <=> g[IF A < B THEN A ELSE B].type = "ASYNC"
    BY <1>1, <2>1, BranchesRelate
  <2>5. CASE A < B
    BY <2>1, <2>5 DEF Follows
  <2> HIDE DEF A, B
  <2>6. CASE B < A /\ g[B].type = "ASYNC"
    BY <2>3, <2>4, <2>6 DEF Follows
  <2>7. CASE B < A /\ g[B].type # "ASYNC" /\ B \in Anc(g, At(g, t))
    BY <2>3, <2>7 DEF RightOpen
  <2>8. CASE B < A /\ B = l
    <3>1. k = At(g, t)
      BY <2>3, <2>8 DEF At, l
    <3>2. RootNode(g, A)
      BY <2>3, <2>8, <3>1, RightOfLast DEF l
    <3>3. IsTask(g, k)
      BY <2>3, <3>2 DEF RootNode, Shaped, Placed
    <3>4. A <= Len(g) /\ Len(g) \in Nat /\ l # 0
      BY <1>1, <2>3, TreeNodes DEF Nodes
    <3>5. ASSUME NEW m \in (l + 1)..A, g[m].parent = g[l].parent
          PROVE  g[m].type = "FINISH" /\ g[m].sp_root_n_wt_flag
      <4>1. m \in Nodes(g) /\ l < m
        BY <1>1, <2>3, <3>4, <3>5 DEF Nodes
      <4>2. g[m].parent = At(g, t)
        BY <2>3, <2>8, <3>1, <3>5
      <4>3. RootNode(g, m)
        BY <4>1, <4>2, RightOfLast DEF l
      <4> QED
        BY <4>3 DEF RootNode, IsPhase
    <3>6. RunsWithin(g, A, l)
      BY <1>1, <2>3, <2>8, <3>5 DEF RunsWithin
    <3> QED
      BY <2>3, <3>6 DEF Follows
  <2>9. B = l \/ B \in Anc(g, At(g, t))
    <3>1. At(g, t) \in Anc(g, At(g, t)) /\ Anc(g, Own(g, t)) \subseteq Anc(g, At(g, t))
      BY AncBasics DEF LastFacts
    <3> QED
      BY <2>3, <3>1 DEF LastFacts, l
  <2> QED
    BY <2>1, <2>3, <2>5, <2>6, <2>7, <2>8, <2>9 DEF A, B
<1> QED
  BY <1>2, <1>3 DEF l

\* A task enters a strand: its last step follows all others, and is in no root whose
\* task went on.
LEMMA OrderStrand ==
    ASSUME NEW g, NEW F, NEW M, NEW R, Base(g, F, M, R), Order(g, F, M, R),
           NEW Q, NEW s, InOrder(g, F, Q, s),
           NEW f \in F, f.task # 0, ~RootCall(f),
           NEW x \in Nat, \A q \in Q : q < x,
           NEW z, z[x] = Last(g, f.task), \A q \in Q : z[q] = s[q]
    PROVE  InOrder(g, F, Q \cup {x}, z)
<1> DEFINE t == f.task
           l == Last(g, t)
<1>1. /\ WellFormed(g) /\ Shaped(g) /\ t \in Live(F)
      /\ LastFacts(g, t) /\ \A e \in F : e.task = t => e = f
      /\ \A u \in Live(F) : LastFacts(g, u)
  BY DEF Base
<1>2. RightOpen(g, At(g, t))
  BY <1>1 DEF Order, RightMost
<1>3. /\ Q \subseteq Nat /\ Ordered(g, Q, s)
      /\ \A q \in Q : z[q] \in StepsOf(g) /\ z[q] \in Nodes(g) /\ z[q] = s[q]
  BY DEF InOrder, Strands, StepsOf, Nodes
<1>4. l \in StepsOf(g) /\ l \in Nodes(g) /\ z[x] = l
  BY <1>1 DEF LastFacts
<1> HIDE DEF t, l
<1>5. ASSUME NEW i \in Q, NEW e \in Anc(g, z[i]), RunsWithin(g, e, l), NEW u \in Live(F)
      PROVE  e \notin Anc(g, Own(g, u))
  <2> SUFFICES ASSUME e \in Anc(g, Own(g, u)) PROVE FALSE
    OBVIOUS
  <2>1. e \in Nodes(g)
    BY <1>1, <1>3, AncBasics
  <2>2. /\ e # 1 /\ IsTask(g, At(g, t)) /\ g[e].parent = At(g, t) /\ ~IsPhase(g, At(g, t))
    BY <1>1, <1>4, <1>5, <2>1, WithinIs DEF At, l, RootNode, IsTask
  <2>3. At(g, t) = Own(g, t) /\ Own(g, t) \in Nodes(g)
    BY <1>1, <2>2 DEF LastFacts
  <2>4. LastFacts(g, u) /\ Own(g, u) \in Nodes(g)
    BY <1>1 DEF LastFacts, OwnNode
  <2>5. Own(g, t) \in Anc(g, Own(g, u))
    BY <1>1, <2>2, <2>3, <2>4, AncBasics DEF UpClosed
  <2>6. t # u
    <3>1. e \in Anc(g, Own(g, t)) => e <= Own(g, t)
      BY <1>1, <2>3, AncOrder
    <3>2. Own(g, t) < e /\ e \in Nat /\ Own(g, t) \in Nat
      BY <1>1, <2>1, <2>2, <2>3, Parents
    <3> QED
      BY <3>1, <3>2
  <2>7. Above(g, t, u)
    BY <2>5, <2>6 DEF Above
  <2>8. \E d \in F : d.task = t /\ RootCall(d)
    BY <1>1, <2>2, <2>7, Zenon DEF Order, Spawned
  <2> QED
    BY <1>1, <2>8
<1>6. ASSUME NEW i \in Q, NEW m \in Q, i < m, NEW e \in Anc(g, z[i]), e \in Anc(g, l)
      PROVE  ~RunsWithin(g, e, z[m])
  <2> SUFFICES ASSUME RunsWithin(g, e, z[m]) PROVE FALSE
    OBVIOUS
  <2>1. e \in Nodes(g)
    BY <1>1, <1>3, AncBasics
  <2>2. RootNode(g, e)
    BY <1>1, <1>3, <2>1, WithinIs
  <2>3. e \in Anc(g, Own(g, t))
    BY <1>1, <1>6, <2>2, RootAbove DEF l
  <2> QED
    BY <1>1, <1>3, <1>6, <2>3 DEF InOrder, Closed
<1>7. ASSUME NEW i \in Q \cup {x}, NEW j \in Q \cup {x}, i < j
      PROVE  Follows(g, z[i], z[j])
  <2>1. i \in Q
    BY <1>3, <1>7
  <2>2. CASE j \in Q
    BY <1>3, <1>7, <2>1, <2>2 DEF Ordered
  <2>3. CASE j = x
    BY <1>1, <1>2, <1>3, <1>4, <2>1, <2>3, LastFollows DEF l
  <2> QED
    BY <2>2, <2>3
<1>8. ASSUME NEW i \in Q \cup {x}, NEW m \in Q \cup {x}, NEW k \in Q \cup {x}, i < m, m < k,
             NEW e \in Anc(g, z[i]), e \in Anc(g, z[k])
      PROVE  ~RunsWithin(g, e, z[m])
  <2>1. i \in Q /\ m \in Q
    BY <1>3, <1>8
  <2>2. CASE k \in Q
    <3>1. e \in Anc(g, s[i]) /\ e \in Anc(g, s[k])
      BY <1>3, <1>8, <2>1, <2>2
    <3>2. ~RunsWithin(g, e, s[m])
      BY <1>3, <1>8, <2>1, <2>2, <3>1 DEF Ordered
    <3> QED
      BY <1>3, <2>1, <3>2
  <2>3. CASE k = x
    BY <1>4, <1>6, <1>8, <2>1, <2>3
  <2> QED
    BY <2>2, <2>3
<1>9. ASSUME NEW i \in Q \cup {x}, NEW m \in Q \cup {x}, i < m,
             NEW e \in Anc(g, z[i]), RunsWithin(g, e, z[m]), NEW u \in Live(F)
      PROVE  e \notin Anc(g, Own(g, u))
  <2>1. i \in Q
    BY <1>3, <1>9
  <2>2. CASE m \in Q
    <3>1. e \in Anc(g, s[i]) /\ RunsWithin(g, e, s[m])
      BY <1>3, <1>9, <2>1, <2>2
    <3> QED
      BY <1>9, <2>1, <2>2, <3>1 DEF InOrder, Closed
  <2>3. CASE m = x
    BY <1>4, <1>5, <1>9, <2>1, <2>3
  <2> QED
    BY <2>2, <2>3
<1>10. Strands(g, Q \cup {x}, z)
  BY <1>3, <1>4, <1>7, <1>8 DEF Strands, Ordered
<1>11. Closed(g, F, Q \cup {x}, z)
  BY <1>9 DEF Closed
<1> QED
  BY <1>10, <1>11 DEF InOrder

\* Tasks that may go on, and those that are started where one may, are in no root
\* whose task went on.
LEMMA OrderGrown ==
    ASSUME NEW g, NEW h, WellFormed(g), WellFormed(h), Shaped(g), Shaped(h),
           NEW p, Grafted(g, h, p), NEW F, NEW Q, NEW s, InOrder(g, F, Q, s),
           \A u \in Live(F) : u \in Known(g),
           NEW E, \A u \in Live(E) : \/ u \in Live(F)
                                    \/ /\ u \in Known(h) /\ u \notin Known(g)
                                       /\ \/ p = 1
                                          \/ \E t \in Live(F) : LastFacts(g, t) /\ p = At(g, t)
    PROVE  InOrder(h, E, Q, s)
<1>1. Strands(h, Q, s)
  BY GraftedOrdered DEF InOrder
<1>2. /\ \A i \in Q : s[i] \in StepsOf(g) /\ s[i] \in Nodes(g)
      /\ \A n \in Nodes(g) : Anc(h, n) = Anc(g, n) /\ Anc(g, n) \subseteq Nodes(g)
  BY GraftedKeeps DEF InOrder, Strands, StepsOf, Nodes
<1>3. ASSUME NEW i \in Q, NEW m \in Q, i < m, NEW e \in Anc(h, s[i]), RunsWithin(h, e, s[m]),
             NEW u \in Live(E)
      PROVE  e \notin Anc(h, Own(h, u))
  <2>1. e \in Anc(g, s[i]) /\ e \in Nodes(g)
    BY <1>2
  <2>2. RunsWithin(g, e, s[m])
    BY <1>2, <1>3, <2>1, GraftedWithin
  <2>3. \A v \in Live(F) : e \notin Anc(g, Own(g, v))
    BY <1>3, <2>1, <2>2 DEF InOrder, Closed
  <2>4. CASE u \in Live(F)
    BY <2>3, <2>4, GraftedOwn
  <2>5. CASE u \notin Live(F)
    <3>0. /\ u \in Known(h) /\ u \notin Known(g)
          /\ p = 1 \/ \E t \in Live(F) : LastFacts(g, t) /\ p = At(g, t)
      BY <2>5
    <3>1. e \in Anc(h, Own(h, u)) <=> e \in Anc(g, p)
      BY <2>1, <3>0, GraftedTask
    <3>2. RootNode(g, e)
      BY <1>2, <2>1, <2>2, WithinIs
    <3>3. ASSUME NEW t \in Live(F), LastFacts(g, t), p = At(g, t)
          PROVE  e \notin Anc(h, Own(h, u))
      BY <2>3, <3>1, <3>2, <3>3, RootAbove
    <3>4. CASE p = 1
      <4>1. 1 \in Nodes(g) /\ e \in Nat
        BY <2>1, TreeNodes
      <4>2. e \in Anc(g, 1) => e <= 1
        BY <4>1, AncOrder
      <4>3. e \in 1..Len(g)
        BY <2>1 DEF Nodes
      <4> QED
        BY <3>1, <3>2, <3>4, <4>1, <4>2, <4>3 DEF RootNode
    <3> QED
      BY <3>0, <3>3, <3>4
  <2> QED
    BY <2>4, <2>5
<1>4. Closed(h, E, Q, s)
  BY <1>3 DEF Closed
<1> QED
  BY <1>1, <1>4 DEF InOrder

\* Frames that join no more than others keep the order of the strands.
LEMMA OrderFewer ==
    ASSUME NEW g, NEW F, NEW Q, NEW s, InOrder(g, F, Q, s), NEW E, Live(E) \subseteq Live(F)
    PROVE  InOrder(g, E, Q, s)
BY DEF InOrder, Closed

\* So does a call.
LEMMA StrandsCalled ==
    ASSUME NEW g, NEW h, NEW F, NEW E, NEW M, NEW N, NEW R, NEW old, NEW f, NEW p, NEW c,
           Base(g, F, M, R), Called(g, h, F, E, M, N, old, f, p, c),
           NEW Q, NEW s, InOrder(g, F, Q, s)
    PROVE  InOrder(h, E, Q, s)
<1>1. /\ WellFormed(g) /\ Shaped(g) /\ WellFormed(h) /\ Shaped(h) /\ Grafted(g, h, p)
      /\ Known(h) = Known(g) \cup {c}
  BY DEF Base, Called, SpawnedAt, RootedAt
<1>2. Live(E) = Live(F) \cup {c} /\ c \notin Known(g) /\ TopAt(g, old, p) /\ old \in F
  BY DEF Called
<1>3. \A u \in Live(F) : u \in Known(g)
  BY DEF Base
<1>4. p = 1 \/ \E t \in Live(F) : LastFacts(g, t) /\ p = At(g, t)
  <2>1. CASE old.task = 0
    <3>1. FrameOK(old)
      BY <1>2 DEF Base
    <3>2. old.pending = {} /\ old.kind \in {"none", "root"}
      BY <2>1, <3>1 DEF FrameOK
    <3>3. ~Open(old)
      BY <3>1, <3>2 DEF FrameOK, Kinds, Open
    <3> QED
      BY <1>2, <2>1, <3>3 DEF TopAt
  <2>2. CASE old.task # 0
    BY <1>2, <2>2 DEF TopAt, Base
  <2> QED
    BY <2>1, <2>2
<1>5. \A u \in Live(E) : \/ u \in Live(F)
                         \/ /\ u \in Known(h) /\ u \notin Known(g)
                            /\ p = 1 \/ \E t \in Live(F) : LastFacts(g, t) /\ p = At(g, t)
  BY <1>1, <1>2, <1>4
<1> QED
  BY <1>1, <1>3, <1>5, OrderGrown

\* And the end of a wait.
LEMMA StrandsResumed ==
    ASSUME NEW g, NEW h, NEW F, NEW E, NEW M, NEW R, NEW old, NEW f, NEW p,
           Base(g, F, M, R), Resumed(g, h, F, E, R, old, f, p),
           NEW Q, NEW s, InOrder(g, F, Q, s)
    PROVE  InOrder(h, E, Q, s)
<1>1. Live(E) \subseteq Live(F)
  BY DEF Resumed
<1>2. CASE h = g
  BY <1>1, <1>2, OrderFewer
<1>3. CASE SteppedAt(g, h, p)
  <2>1. /\ WellFormed(g) /\ Shaped(g) /\ WellFormed(h) /\ Shaped(h) /\ Grafted(g, h, p)
        /\ \A u \in Live(F) : u \in Known(g)
    BY <1>3 DEF Base, SteppedAt
  <2> QED
    BY <1>1, <2>1, OrderGrown
<1> QED
  BY <1>2, <1>3 DEF Resumed

-----------------------------------------------------------------------------
(* The answers of areParallel are exact *)

StepOf == [q \in DOMAIN strands |-> strands[q].step]

TruthInv ==
    Truth(tgraph_nodes, Started(frames), DOMAIN temp_cur_map, returned,
          DOMAIN strands, StepOf, past)

StrandInv == InOrder(tgraph_nodes, Started(frames), DOMAIN strands, StepOf)

\* Every thread adds to the tree where its innermost task is.
TopsOK ==
    \A th \in Threads : frames[th] # <<>> =>
       TopAt(tgraph_nodes, Top(frames[th]), Top(cur[th]))

\* It is so in every state.
LEMMA TopsAre == DInv => TopsOK
BY TopSpot DEF TopsOK

\* Tasks that have a node are tasks, or what is outside any.
LEMMA KnownTasks ==
    ASSUME DInv
    PROVE  Known(tgraph_nodes) \subseteq TaskIds \cup {0}
<1>1. task_id_ctr \in 0..MaxTasks /\ Known(tgraph_nodes) \subseteq 0..task_id_ctr
  BY BaseIs DEF Control, Captures, DInv, SchedInv, SchedTypeOK
<1> QED
  BY <1>1, TaskAssumption

\* The frame that replaces the top one is on top.
LEMMA TopIsSet ==
    ASSUME frames \in [Threads -> Seq(FrameType)], NEW th \in Threads,
           frames[th] # <<>>, NEW f \in FrameType, frames' = SetTop(th, f)
    PROVE  frames'[th] # <<>> /\ Top(frames'[th]) = f
<1>1. /\ frames' \in [Threads -> Seq(FrameType)]
      /\ Len(frames[th]) \in 1..Len(frames[th])
      /\ Len(frames'[th]) = Len(frames[th])
      /\ frames'[th][Len(frames[th])] = f
  BY SetTopFrames
<1>2. frames'[th] \in Seq(FrameType) /\ frames[th] \in Seq(FrameType)
  BY <1>1
<1>3. Len(frames[th]) \in Nat /\ Len(frames[th]) # 0
  BY <1>1, <1>2
<1> QED
  BY <1>1, <1>2, <1>3 DEF Top

\* The innermost task of a thread enters a strand after it did all else.
LEMMA StrandEntered ==
    ASSUME TruthOK, DInv', OrderInv', NEW th \in Threads, frames'[th] # <<>>,
           NEW t \in TaskIds, Top(frames'[th]).task = t, ~RootCall(Top(frames'[th])),
           strands' = Append(strands, [task |-> t,
                                       step |-> tgraph_nodes'[Top(cur'[th])].cur_step]),
           NEW O,
           Truth(tgraph_nodes', Started(frames'), DOMAIN temp_cur_map', returned',
                 DOMAIN strands, StepOf, O),
           InOrder(tgraph_nodes', Started(frames'), DOMAIN strands, StepOf),
           past'[t] = O[t] \cup {Len(strands) + 1},
           \A u \in TaskIds \cup {0} : u # t => past'[u] = O[u]
    PROVE  TruthInv' /\ StrandInv'
<1> DEFINE g == tgraph_nodes'
           F == Started(frames')
           M == DOMAIN temp_cur_map'
           R == returned'
           f == Top(frames'[th])
           p == Top(cur'[th])
           Q == DOMAIN strands
           x == Len(strands) + 1
           s == StepOf
           z == StepOf'
           O2 == past'
           n == task_id_ctr'
<1>1. /\ TopAt(g, f, p)
  <2>1. TopsOK'
    BY TopsAre, PTL
  <2> QED
    BY <2>1 DEF TopsOK
<1>2. /\ WellFormed(g) /\ Shaped(g) /\ Control(F, M, Known(g), R, n) /\ n \in 0..MaxTasks
      /\ frames' \in [Threads -> Seq(FrameType)] /\ Order(g, F, M, R)
  BY DEF DInv, IInv, Tidy, Stacks, SchedInv, SchedTypeOK, OrderInv
<1>3. f \in F
  <2> DEFINE r == frames'[th]
  <2>1. r \in Seq(FrameType) /\ r # <<>>
    BY <1>2
  <2> HIDE DEF r
  <2>2. Len(r) \in 1..Len(r) /\ Top(r) = r[Len(r)]
    BY <2>1 DEF Top
  <2> QED
    BY <2>2, StartedIs DEF r
<1>4. strands \in Seq(Strand) /\ t \in Nat /\ t # 0
  BY TaskAssumption DEF TruthOK
<1>5. /\ Q = 1..Len(strands) /\ Len(strands) \in Nat
      /\ DOMAIN strands' = Q \cup {x} /\ x \notin Q
      /\ \A q \in Q : strands'[q] = strands[q]
      /\ strands'[x] = [task |-> t, step |-> g[p].cur_step]
  <2>1. g[p].cur_step \in Nat
    BY StepTyped
  <2> DEFINE e == [task |-> t, step |-> g[p].cur_step]
  <2>2. e \in Strand
    BY <2>1 DEF Strand
  <2>3. strands' = Append(strands, e)
    OBVIOUS
  <2> HIDE DEF e
  <2>4. /\ Len(strands) \in Nat /\ Q = 1..Len(strands)
        /\ DOMAIN strands' = 1..(Len(strands) + 1) /\ strands'[x] = e
        /\ \A q \in 1..Len(strands) : strands'[q] = strands[q]
    BY <1>4, <2>2, <2>3
  <2>5. 1..(Len(strands) + 1) = (1..Len(strands)) \cup {Len(strands) + 1}
    BY <2>4
  <2> QED
    BY <2>4, <2>5 DEF e
<1> HIDE DEF g, F, M, R, f, p, O2, n
<1>6. Base(g, F, M, R) /\ Known(g) \subseteq TaskIds \cup {0}
  <2>1. Known(g) \subseteq 0..n
    BY <1>2 DEF Control, Captures
  <2> QED
    BY <1>2, <2>1, BaseHolds, TaskAssumption
<1>7. g[p].cur_step = Last(g, t) /\ f.task = t /\ ~RootCall(f)
  BY <1>1, <1>4 DEF TopAt, f
<1>8. z[x] = Last(g, t) /\ \A q \in Q : z[q] = s[q]
  BY <1>5, <1>7 DEF StepOf
<1>9. /\ O2[t] = O[t] \cup {x} /\ \A u \in Known(g) : u # t => O2[u] = O[u]
  BY <1>6 DEF O2
<1>10. /\ Truth(g, F, M, R, Q, s, O) /\ InOrder(g, F, Q, s)
       /\ x \in Nat /\ \A q \in Q : q < x
  BY <1>5 DEF g, F, M, R
<1> HIDE DEF z, x, Q, s
<1>11. Truth(g, F, M, R, Q \cup {x}, z, O2)
  <2>1. f.task # 0 /\ z[x] = Last(g, f.task) /\ O2[f.task] = O[f.task] \cup {x}
        /\ \A u \in Known(g) : u # f.task => O2[u] = O[u]
    BY <1>4, <1>7, <1>8, <1>9
  <2>2. f \in F /\ ~RootCall(f) /\ x \notin Q /\ \A q \in Q : z[q] = s[q]
    BY <1>3, <1>5, <1>7, <1>8
  <2>3. Base(g, F, M, R) /\ Order(g, F, M, R) /\ Truth(g, F, M, R, Q, s, O)
    BY <1>2, <1>6, <1>10
  <2> QED
    BY <2>1, <2>2, <2>3, TruthStrand, SMTT(60)
<1>12. InOrder(g, F, Q \cup {x}, z)
  <2>1. f.task # 0 /\ z[x] = Last(g, f.task) /\ f \in F /\ ~RootCall(f)
    BY <1>3, <1>4, <1>7, <1>8
  <2> QED
    BY <1>2, <1>6, <1>8, <1>10, <2>1, OrderStrand, SMTT(60)
<1> QED
  BY <1>5, <1>11, <1>12 DEF TruthInv, StrandInv, g, F, M, R, z, O2

\* Capture: the child begins with the past of its parent, which may enter a strand.
LEMMA CaptureTruth ==
    ASSUME DInv, OrderInv, DInv', OrderInv', TruthOK, TruthInv, StrandInv,
           NEW th \in Threads, Capture(th)
    PROVE  TruthInv' /\ StrandInv'
<1> DEFINE old == Top(frames[th])
           f == [old EXCEPT !.pc = "captured"]
           t == old.task
           p == Top(cur[th])
           c == old.child
           g == tgraph_nodes
           h == tgraph_nodes'
           F == Started(frames)
           E == Started(frames')
           M == DOMAIN temp_cur_map
           N == DOMAIN temp_cur_map'
           R == returned
           Q == DOMAIN strands
           s == StepOf
           O == [past EXCEPT ![c] = past[t]]
           x == Len(strands) + 1
           step == h[Top(cur'[th])].cur_step
<1>1. /\ frames[th] # <<>> /\ old.pc = "named" /\ frames' = SetTop(th, f)
      /\ old.kind = "root" => past' = O /\ strands' = strands
      /\ old.kind # "root" => /\ strands' = Append(strands, [task |-> t, step |-> step])
                              /\ past' = [past EXCEPT ![c] = past[t], ![t] = @ \cup {x}]
  BY DEF Capture
<1>2. /\ Called(g, h, F, E, M, N, old, f, p, c)
      /\ RootCall(f) <=> old.kind = "root"
      /\ returned' = R
  BY CaptureCalls
<1>3. /\ old \in FrameType /\ c \in TaskIds /\ FrameOK(old)
  BY <1>1, OnTop, CaptureStep DEF DInv
<1>4. /\ t \in TaskIds \cup {0} /\ (old.kind # "root" => t \in TaskIds)
      /\ f \in FrameType /\ f.task = t
  <2>1. t \in TaskIds \cup {0} /\ (old.kind # "root" => t # 0)
    BY <1>1, <1>3, TaskAssumption DEF FrameOK, Kinds, FrameType
  <2>2. f \in FrameType /\ f.task = t
    <3> HIDE DEF old
    <3> QED
      BY <1>3 DEF FrameType
  <2> QED
    BY <2>1, <2>2
<1>5. t # c
  BY <1>2 DEF Called, TopAt, Known
<1>6. /\ past \in [TaskIds \cup {0} -> SUBSET (1..Len(strands))] /\ strands \in Seq(Strand)
      /\ Q = 1..Len(strands)
  BY DEF TruthOK
<1>7. O[c] = past[t] /\ \A u \in TaskIds \cup {0} : u # c => O[u] = past[u]
  BY <1>3, <1>6
<1>8. past[t] \subseteq Q
  BY <1>4, <1>6
<1>9. /\ Base(g, F, M, R) /\ Order(g, F, M, R) /\ Truth(g, F, M, R, Q, s, past)
      /\ Known(g) \subseteq TaskIds \cup {0} /\ c \notin Known(g)
  BY <1>2, BaseIs, KnownTasks DEF OrderInv, TruthInv, Called
<1>10. Truth(h, E, N, R, Q, s, O)
  <2> HIDE DEF old, f, p, c, g, h, F, E, M, N, R, Q, s, O
  <2>1. \A u \in Known(g) : O[u] = past[u]
    BY <1>7, <1>9
  <2> QED
    BY <1>2, <1>7, <1>8, <1>9, <2>1, TruthCalled DEF t
<1>13. InOrder(h, E, Q, s)
  <2>1. InOrder(g, F, Q, s)
    BY DEF StrandInv
  <2> HIDE DEF old, f, p, c, g, h, F, E, M, N, R, Q, s, O
  <2> QED
    BY <1>2, <1>9, <2>1, StrandsCalled
<1>11. CASE old.kind = "root"
  BY <1>1, <1>2, <1>10, <1>11, <1>13 DEF TruthInv, StrandInv, StepOf
<1>12. CASE old.kind # "root"
  <2>1. frames'[th] # <<>> /\ Top(frames'[th]) = f
    <3> HIDE DEF f
    <3> QED
      BY <1>1, <1>4, TopIsSet DEF DInv, Tidy, Stacks
  <2>2. past'[t] = O[t] \cup {x} /\ \A u \in TaskIds \cup {0} : u # t => past'[u] = O[u]
    <3> HIDE DEF old, t, c, x
    <3> QED
      BY <1>1, <1>3, <1>4, <1>5, <1>6, <1>12
  <2>3. Truth(h, E, N, returned', Q, s, O) /\ InOrder(h, E, Q, s)
    BY <1>2, <1>10, <1>13
  <2>4. t \in TaskIds /\ ~RootCall(f) /\ f.task = t
    BY <1>2, <1>4, <1>12
  <2>5. strands' = Append(strands, [task |-> t, step |-> step])
    BY <1>1, <1>12
  <2> HIDE DEF f, t, O
  <2> QED
    BY <2>1, <2>2, <2>3, <2>4, <2>5, StrandEntered
<1> QED
  BY <1>11, <1>12

\* Execute: the task enters its first strand.
LEMMA ExecuteTruth ==
    ASSUME DInv, OrderInv, DInv', OrderInv', TruthOK, TruthInv, StrandInv,
           NEW th \in Threads, NEW id \in TaskIds, Execute(th, id)
    PROVE  TruthInv' /\ StrandInv'
<1> DEFINE F == Started(frames)
           E == Started(frames')
           M == DOMAIN temp_cur_map
           N == DOMAIN temp_cur_map'
           g == tgraph_nodes
           R == returned
           Q == DOMAIN strands
           s == StepOf
           f == Frame(id)
           x == Len(strands) + 1
           step == tgraph_nodes'[Top(cur'[th])].cur_step
<1>1. /\ Began(F, E, M, N, id) /\ tgraph_nodes' = g /\ returned' = R
      /\ frames'[th] # <<>> /\ Top(frames'[th]) = f
  BY ExecuteBegins
<1>2. id # 0 /\ StartStrand(th, id, past[id])
  BY TaskAssumption DEF Execute
<1>3. /\ strands' = Append(strands, [task |-> id, step |-> step])
      /\ past' = [past EXCEPT ![id] = past[id] \cup {x}]
  BY <1>2 DEF StartStrand
<1>4. f.task = id /\ ~RootCall(f)
  BY DEF Frame, RootCall
<1>5. Truth(g, F, M, R, Q, s, past)
  BY DEF TruthInv
<1>6. past \in [TaskIds \cup {0} -> SUBSET (1..Len(strands))]
  BY DEF TruthOK
<1>7. Truth(g, E, N, R, Q, s, past)
  <2> HIDE DEF F, E, M, N, g, R, Q, s
  <2> QED
    BY <1>1, <1>5, TruthBegun
<1>8. Truth(tgraph_nodes', E, N, returned', Q, s, past) /\ InOrder(tgraph_nodes', E, Q, s)
  <2>1. InOrder(g, F, Q, s)
    BY DEF StrandInv
  <2>2. Live(E) \subseteq Live(F)
    BY <1>1 DEF Began
  <2> HIDE DEF F, E, M, N, g, R, Q, s
  <2>3. InOrder(g, E, Q, s)
    BY <2>1, <2>2, OrderFewer
  <2> QED
    BY <1>1, <1>7, <2>3
<1>9. past'[id] = past[id] \cup {x} /\ \A u \in TaskIds \cup {0} : u # id => past'[u] = past[u]
  <2> HIDE DEF x
  <2> QED
    BY <1>3, <1>6
<1> HIDE DEF f
<1> QED
  BY <1>1, <1>3, <1>4, <1>8, <1>9, StrandEntered

\* Resume: the task has all that it joined in its past and enters a strand.
LEMMA ResumeTruth ==
    ASSUME DInv, OrderInv, DInv', OrderInv', TruthOK, TruthInv, StrandInv,
           NEW th \in Threads, Resume(th)
    PROVE  TruthInv' /\ StrandInv'
<1> DEFINE old == Top(frames[th])
           f == [old EXCEPT !.pc = "run", !.kind = "none", !.child = 0,
                            !.awaited = {}, !.pending = {}]
           t == old.task
           joined == past[t] \cup UNION {past[d] : d \in old.awaited}
           O == [past EXCEPT ![t] = joined]
           g == tgraph_nodes
           h == tgraph_nodes'
           F == Started(frames)
           E == Started(frames')
           M == DOMAIN temp_cur_map
           R == returned
           Q == DOMAIN strands
           s == StepOf
           x == Len(strands) + 1
           step == h[Top(cur'[th])].cur_step
<1>1. /\ frames[th] # <<>> /\ frames' = SetTop(th, f)
      /\ f \in FrameType /\ f.task = t
  BY ResumedFrame, Zenon
<1>2. StartStrand(th, t, joined)
  BY DEF Resume
<1>3. /\ \E p : Resumed(g, h, F, E, R, old, f, p)
      /\ DOMAIN temp_cur_map' = M /\ returned' = R
      /\ Joins(old) = old.awaited
  BY ResumeJoins
<1>4. old \in FrameType /\ t \in TaskIds \cup {0}
  BY <1>1, OnTop, TaskAssumption DEF FrameType
<1>5. /\ past \in [TaskIds \cup {0} -> SUBSET (1..Len(strands))] /\ strands \in Seq(Strand)
      /\ Q = 1..Len(strands)
  BY DEF TruthOK
<1>6. O[t] = joined /\ \A u \in TaskIds \cup {0} : u # t => O[u] = past[u]
  <2> HIDE DEF joined, t
  <2> QED
    BY <1>4, <1>5
<1>7. past[t] \subseteq Q
  BY <1>4, <1>5
<1>8. /\ Base(g, F, M, R) /\ Order(g, F, M, R) /\ Truth(g, F, M, R, Q, s, past)
      /\ Known(g) \subseteq TaskIds \cup {0}
  BY BaseIs, KnownTasks DEF OrderInv, TruthInv
<1>9. \A q : q \in O[t] <=> q \in past[t] \/ \E d \in Joins(old) : q \in past[d]
  <2>1. \A q : q \in joined <=> q \in past[t] \/ \E d \in old.awaited : q \in past[d]
    OBVIOUS
  <2> HIDE DEF joined, O, t, old
  <2> QED
    BY <1>3, <1>6, <2>1
<1>10. Truth(h, E, M, R, Q, s, O)
  <2> HIDE DEF old, f, g, h, F, E, M, R, Q, s, O, joined
  <2>1. PICK p : Resumed(g, h, F, E, R, old, f, p)
    BY <1>3
  <2>2. \A u \in Known(g) : u # t => O[u] = past[u]
    BY <1>6, <1>8
  <2> QED
    BY <1>7, <1>8, <1>9, <2>1, <2>2, TruthResumed DEF t
<1>11. Truth(h, E, DOMAIN temp_cur_map', returned', Q, s, O)
  BY <1>3, <1>10
<1>14. InOrder(h, E, Q, s)
  <2>1. InOrder(g, F, Q, s)
    BY DEF StrandInv
  <2> HIDE DEF old, f, g, h, F, E, M, R, Q, s, O, joined
  <2>2. PICK p : Resumed(g, h, F, E, R, old, f, p)
    BY <1>3
  <2> QED
    BY <1>8, <2>1, <2>2, StrandsResumed
<1>12. CASE t = 0
  <2>1. past' = O /\ strands' = strands
    BY <1>2, <1>12 DEF StartStrand
  <2> HIDE DEF O
  <2> QED
    BY <1>11, <1>14, <2>1 DEF TruthInv, StrandInv, StepOf
<1>13. CASE t # 0
  <2>1. /\ strands' = Append(strands, [task |-> t, step |-> step])
        /\ past' = [past EXCEPT ![t] = joined \cup {x}]
    BY <1>2, <1>13 DEF StartStrand
  <2>2. frames'[th] # <<>> /\ Top(frames'[th]) = f
    <3> HIDE DEF f
    <3> QED
      BY <1>1, TopIsSet DEF DInv, Tidy, Stacks
  <2>3. ~RootCall(f)
    <3> HIDE DEF old
    <3> QED
      BY <1>4 DEF FrameType, RootCall
  <2>4. past'[t] = O[t] \cup {x} /\ \A u \in TaskIds \cup {0} : u # t => past'[u] = O[u]
    <3> HIDE DEF old, t, joined, x
    <3> QED
      BY <1>4, <1>5, <1>6, <2>1
  <2>5. t \in TaskIds
    BY <1>4, <1>13
  <2> HIDE DEF f, t, O
  <2> QED
    BY <1>1, <1>11, <1>14, <2>1, <2>2, <2>3, <2>4, <2>5, StrandEntered
<1> QED
  BY <1>12, <1>13

\* Every step of the program keeps the ground truth and the tree in agreement.
LEMMA NextTruthInv ==
    ASSUME Discipline, DInv, OrderInv, DInv', OrderInv', TruthOK, TruthInv, StrandInv,
           [Next]_vars
    PROVE  TruthInv' /\ StrandInv'
<1> DEFINE g == tgraph_nodes
           F == Started(frames)
           M == DOMAIN temp_cur_map
           R == returned
           h == tgraph_nodes'
           E == Started(frames')
           N == DOMAIN temp_cur_map'
           S == returned'
           Q == DOMAIN strands
           s == StepOf
           P == past
<1>1. Truth(g, F, M, R, Q, s, P) /\ Base(g, F, M, R) /\ InOrder(g, F, Q, s)
  BY BaseIs DEF TruthInv, StrandInv
<1>2. ASSUME UNCHANGED truthVars, Truth(h, E, N, S, Q, s, P), InOrder(h, E, Q, s)
      PROVE  TruthInv' /\ StrandInv'
  BY <1>2 DEF TruthInv, StrandInv, StepOf, truthVars
<1>3. ASSUME SameView(F, E), Seen' = Seen
      PROVE  TruthInv' /\ StrandInv'
  <2>1. h = g /\ N = M /\ S = R /\ UNCHANGED truthVars
    BY <1>3 DEF Seen, truthVars
  <2> HIDE DEF g, F, M, R, h, E, N, S, Q, s, P
  <2>2. Truth(h, E, N, S, Q, s, P)
    BY <1>1, <1>3, <2>1, TruthSame
  <2>3. InOrder(h, E, Q, s)
    BY <1>1, <1>3, <2>1, SameLive, OrderFewer
  <2> QED
    BY <1>2, <2>1, <2>2, <2>3
<1>4. CASE UNCHANGED vars
  <2>1. h = g /\ E = F /\ N = M /\ S = R /\ UNCHANGED truthVars
    BY <1>4 DEF vars, graphVars, schedVars
  <2> HIDE DEF g, F, M, R, h, E, N, S, Q, s, P
  <2> QED
    BY <1>1, <1>2, <2>1
<1>5. ASSUME NEW th \in Threads, Return(th)
      PROVE  TruthInv' /\ StrandInv'
  <2> DEFINE old == Top(frames[th])
  <2>1. Ended(F, E, R, S, old) /\ h = g /\ N = M /\ UNCHANGED truthVars
    BY <1>5, ReturnEnds
  <2> HIDE DEF g, F, M, R, h, E, N, S, Q, s, P, old
  <2>2. Truth(g, E, M, S, Q, s, P)
    BY <1>1, <2>1, TruthEnded
  <2>3. InOrder(g, E, Q, s)
    BY <1>1, <2>1, OrderFewer DEF Ended
  <2> QED
    BY <1>2, <2>1, <2>2, <2>3
<1>6. ASSUME NEW th \in Threads, NEW kind \in Kinds, SetTaskId(th, kind)
      PROVE  TruthInv' /\ StrandInv'
  BY <1>3, <1>6, SetTaskIdQuiet
<1>7. ASSUME NEW th \in Threads, Publish(th)
      PROVE  TruthInv' /\ StrandInv'
  BY <1>3, <1>7, PublishQuiet
<1>8. ASSUME NEW th \in Threads, WaitForAll(th)
      PROVE  TruthInv' /\ StrandInv'
  BY <1>3, <1>8, WaitForAllQuiet
<1>9. CASE Next
  BY <1>4, <1>5, <1>6, <1>7, <1>8, <1>9, ExecuteTruth, CaptureTruth, ResumeTruth, Zenon DEF Next
<1> QED
  BY <1>4, <1>9

\* Nothing is recorded at the start, so tree and truth agree.
LEMMA InitTruthInv == Init => TruthInv /\ StrandInv
<1> SUFFICES ASSUME Init PROVE TruthInv /\ StrandInv
  OBVIOUS
<1> DEFINE f == Frame(0)
<1>1. /\ frames = [t \in Threads |-> IF t = MainThread THEN <<f>> ELSE <<>>]
      /\ strands = <<>>
  BY DEF Init
<1>2. Joins(f) = {}
  BY DEF Frame, Joins
<1> HIDE DEF f
<1>3. \A e \in Started(frames) : e = f
  <2> SUFFICES ASSUME NEW th \in Threads, NEW i \in 1..Len(frames[th])
               PROVE  frames[th][i] = f
    BY StartedIs
  <2>1. CASE th = MainThread
    BY <1>1, <2>1
  <2>2. CASE th # MainThread
    BY <1>1, <2>2
  <2> QED
    BY <2>1, <2>2
<1>4. Live(Started(frames)) = {}
  BY <1>2, <1>3 DEF Live
<1>5. DOMAIN strands = {}
  BY <1>1
<1> QED
  BY <1>4, <1>5 DEF TruthInv, Truth, Covered, Exact, StrandInv, InOrder, Closed, Strands, Ordered

\* The invariant of the ground truth: what the tree says of the strands and the past
\* of every task agree, and the strands run in an order that the tree allows.
THEOREM TruthInvariant ==
    ASSUME Discipline
    PROVE  Spec => [](TruthOK /\ TruthInv /\ StrandInv)
<1>1. Init => TruthOK
  BY InitTruth
<1>2. DInv /\ DInv' /\ TruthOK /\ [Next]_vars => TruthOK'
  BY NextTruth
<1>3. DInv /\ OrderInv /\ DInv' /\ OrderInv' /\ TruthOK /\ TruthInv /\ StrandInv /\ [Next]_vars
      => TruthInv' /\ StrandInv'
  BY NextTruthInv
<1> QED
  BY <1>1, <1>2, <1>3, InitTruthInv, DisciplineInvariant, OrderInvariant, PTL DEF Spec

\* The steps of the strands run as the tree says, whatever the schedule: each follows
\* what is left of it, what it is parallel to and what ran in a root inside it, and
\* goes on only after that root; a task's own steps are serial (getCurTask).
THEOREM StrandsRunInOrder ==
    ASSUME Discipline
    PROVE  Spec => []StrandsInOrder
<1>1. ASSUME DInv, TruthOK, StrandInv
      PROVE  StrandsInOrder
  <2>1. WellFormed(tgraph_nodes) /\ Shaped(tgraph_nodes)
    BY <1>1, BaseIs
  <2>2. /\ \A q \in DOMAIN strands : StepOf[q] \in StepsOf(tgraph_nodes)
        /\ Ordered(tgraph_nodes, DOMAIN strands, StepOf) /\ DOMAIN StepOf = DOMAIN strands
    BY <1>1 DEF StrandInv, InOrder, Strands, StepOf
  <2>3. RunInOrder(tgraph_nodes, StepOf)
    <3> HIDE DEF StepOf
    <3> QED
      BY <2>1, <2>2, OrderedIs
  <2>4. TaskStepsSerial(tgraph_nodes)
    BY <2>1, ShapedTaskSteps
  <2> QED
    BY <2>3, <2>4 DEF StrandsInOrder, StepOf
<1> QED
  BY <1>1, TruthInvariant, DisciplineInvariant, PTL

\* A task that runs its own code is inside no root, and all its steps are serial.
LEMMA AnswersMatchTruth ==
    ASSUME DInv, OwnNodeOnTop, TruthInv
    PROVE  ParallelExact
<1> SUFFICES ASSUME NEW th \in Threads, Running(th), Top(frames[th]).task # 0,
                    NEW q \in DOMAIN strands
             PROVE  areParallel(th, strands[q].step) <=> q \notin past[Top(frames[th]).task]
  BY DEF ParallelExact
<1> DEFINE g == tgraph_nodes
           F == Started(frames)
           M == DOMAIN temp_cur_map
           R == returned
           f == Top(frames[th])
           p == Top(cur[th])
           t == f.task
           n == strands[q].step
           l == g[p].cur_step
           answer == areParallel(th, n)
           known == q \in past[t]
<1>1. frames[th] # <<>> /\ f.pc = "run"
  BY DEF Running
<1>2. f \in F /\ ~RootCall(f)
  BY <1>1, OnTop DEF RootCall
<1>3. Base(g, F, M, R) /\ WellFormed(g) /\ Shaped(g)
  BY BaseIs
<1>4. TopAt(g, f, p) /\ Top(tidToTaskIdMap[th]) = t
  BY <1>1, TopSpot DEF OwnNodeOnTop
<1>5. answer <=> t # g[n].taskId /\ g[p].taskId # g[n].taskId /\ parallel(g, l, n)
  BY <1>4 DEF areParallel
<1>6. \A k \in DOMAIN strands : StepOf[k] = strands[k].step
  BY DEF StepOf
<1>7. /\ n \in StepsOf(g)
      /\ t \in Live(F) => (known <=> ~Par(g, Last(g, t), n) /\ ~Inside(g, F, t, n))
  BY <1>6 DEF TruthInv, Truth, Exact
<1> HIDE DEF g, F, M, R, f, p, n, answer, known
<1>8. t # 0
  BY DEF f
<1>9. /\ t \in Live(F) /\ \A e \in F : e.task = t => e = f
      /\ LastFacts(g, t) /\ l = Last(g, t) /\ g[p].taskId = t
  BY <1>2, <1>3, <1>4, <1>8 DEF Base, TopAt
<1> HIDE DEF t, l
<1>10. known <=> ~Par(g, l, n)
  BY <1>2, <1>7, <1>9 DEF Inside
<1>11. l \in StepsOf(g) /\ g[l].taskId = t
  BY <1>9 DEF LastFacts
<1>12. g[n].taskId = t /\ l # n => ~parallel(g, l, n)
  BY <1>3, <1>7, <1>11, ShapedTaskSteps DEF TaskStepsSerial
<1>13. answer <=> ~known
  BY <1>5, <1>9, <1>10, <1>11, <1>12 DEF Par
<1> QED
  BY <1>13 DEF answer, known, n, t, f

\* While a task runs its own code, areParallel answers "parallel" for just those
\* strands that do not happen before the running one: no false race, and none missed.
THEOREM AnswersAreExact ==
    ASSUME Discipline
    PROVE  Spec => []ParallelExact
<1>1. DInv /\ OwnNodeOnTop /\ TruthInv => ParallelExact
  BY AnswersMatchTruth
<1> QED
  BY <1>1, DisciplineInvariant, TopNodeIsOwn, TruthInvariant, PTL
=============================================================================
